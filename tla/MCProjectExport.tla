--------------------------- MODULE MCProjectExport ---------------------------
(* Two exports that pass the checks race, a third is refused by them.       *)
EXTENDS ProjectExport, TLC

CONSTANTS e1, e2, e3
MCEligible == {e1, e2}
=============================================================================
