----------------------------- MODULE BridgeCalls -----------------------------
(***************************************************************************)
(* What the SDK client promises its callers, whatever the native side and  *)
(* the transport do: a call is accepted or refused, an accepted call is    *)
(* settled once, closing the client settles every call in flight, a closed *)
(* client accepts none, and no accepted call waits for ever.               *)
(***************************************************************************)
CONSTANT Call

VARIABLES
  phase,    \* of each call: "idle", "waiting" or "settled"
  closed    \* has dispose() been called?

vars == <<phase, closed>>

Waiting == {c \in Call : phase[c] = "waiting"}

Init == phase = [c \in Call |-> "idle"] /\ closed = FALSE

Accept(c) ==
  /\ ~closed
  /\ phase[c] = "idle"
  /\ phase' = [phase EXCEPT ![c] = "waiting"]
  /\ UNCHANGED closed

Refuse(c) ==
  /\ phase[c] = "idle"
  /\ phase' = [phase EXCEPT ![c] = "settled"]
  /\ UNCHANGED closed

(* One event may settle several calls: they can share an AbortSignal.      *)
Answer(S) ==
  /\ S # {} /\ S \subseteq Waiting
  /\ phase' = [c \in Call |-> IF c \in S THEN "settled" ELSE phase[c]]
  /\ UNCHANGED closed

Close ==
  /\ closed' = TRUE
  /\ phase' = [c \in Call |-> IF c \in Waiting THEN "settled" ELSE phase[c]]

Next ==
  \/ \E c \in Call : Accept(c) \/ Refuse(c)
  \/ \E S \in SUBSET Call : Answer(S)
  \/ Close

Fairness == \A c \in Call : WF_vars(\E S \in SUBSET Call : c \in S /\ Answer(S))

Spec == Init /\ [][Next]_vars /\ Fairness
=============================================================================
