----------------------------- MODULE MCZipInspect -----------------------------
(* All archives of up to four of these entries.                              *)
EXTENDS ZipInspect

File(p, size) ==
  [path |-> p, dir |-> FALSE, safeName |-> TRUE, ok |-> TRUE, size |-> size,
   crcMatches |-> TRUE]

MCIndex == <<"index.html">>

Samples ==
  { File(MCIndex, 1), File(MCIndex, 2),
    File(<<"a">>, 2), File(<<"d">>, 2), File(<<"a", "b">>, 1), File(<<"a", "b">>, 3),
    [File(<<"a">>, 0) EXCEPT !.dir = TRUE],
    [File(MCIndex, 0) EXCEPT !.dir = TRUE],
    [File(<<"c">>, 1) EXCEPT !.ok = FALSE],
    [File(<<"c">>, 1) EXCEPT !.safeName = FALSE],
    [File(<<"c">>, 1) EXCEPT !.crcMatches = FALSE] }

MCArchive == UNION {[1..n -> Samples] : n \in 0..4}
=============================================================================
