----------------------------- MODULE MCOutputFile -----------------------------
(* Two writers whose contents differ in length.                              *)
EXTENDS OutputFile, TLC

CONSTANTS w1, w2, l1
MCLength == (w1 :> 3) @@ (w2 :> 2)
=============================================================================
