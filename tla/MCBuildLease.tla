---------------------------- MODULE MCBuildLease ----------------------------
(* Two build targets, a verification and two runs that may overlap.         *)
EXTENDS BuildLease, TLC

CONSTANTS t1, t2, v1, r1, r2

MCSymmetry == Permutations({t1, t2}) \cup Permutations({r1, r2})
=============================================================================
