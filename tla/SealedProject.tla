----------------------------- MODULE SealedProject -----------------------------
(***************************************************************************)
(* What an output path of `wta build --target windows-project` is to those *)
(* who look at it, whatever exports race for it, fail or are killed, and   *)
(* whenever the machine loses power: one export claims it, parts become    *)
(* durable and stay so, the seal comes only over all of them, and none but *)
(* the claimant ever reports success, when the seal itself is durable. It  *)
(* is given up as a whole or not at all.                                   *)
(***************************************************************************)
EXTENDS Naturals

CONSTANTS
  Exporter,   \* who may claim the path
  N,          \* how many parts there are beside the seal, which is N + 1
  Nobody

VARIABLES
  phase,      \* "absent", "foreign", "open", "sealed" or "spoilt"
  owner,      \* who claimed the path
  durable,    \* the parts that no loss of power takes back
  reported    \* who ever reported success

vars == <<phase, owner, durable, reported>>

Init ==
  /\ phase \in {"absent", "foreign"}
  /\ owner = Nobody /\ durable = {} /\ reported = {}

Claim(e) ==
  /\ phase = "absent"
  /\ phase' = "open" /\ owner' = e
  /\ UNCHANGED <<durable, reported>>

Complete(f) ==
  /\ phase = "open" /\ f \notin durable
  /\ durable' = durable \cup {f}
  /\ UNCHANGED <<phase, owner, reported>>

Seal ==
  /\ phase = "open" /\ durable = 1..N
  /\ phase' = "sealed"
  /\ UNCHANGED <<owner, durable, reported>>

Finish(e) ==
  /\ phase = "sealed" /\ owner = e /\ durable = 1..N
  /\ durable' = 1..(N + 1) /\ reported' = reported \cup {e}
  /\ UNCHANGED <<phase, owner>>

(* The user removes what is there while nobody is at work on it.           *)
Discard ==
  /\ phase \in {"foreign", "open", "sealed"}
  /\ phase' = "absent" /\ owner' = Nobody /\ durable' = {}
  /\ UNCHANGED reported

(* Or while its claimant is: from then on nothing is promised.             *)
Spoil ==
  /\ phase \in {"open", "sealed"}
  /\ phase' = "spoilt" /\ owner' = Nobody /\ durable' = {} /\ reported' = {}

Next ==
  \/ \E e \in Exporter : Claim(e) \/ Finish(e)
  \/ \E f \in 1..N : Complete(f)
  \/ Seal \/ Discard \/ Spoil

Spec == Init /\ [][Next]_vars
=============================================================================
