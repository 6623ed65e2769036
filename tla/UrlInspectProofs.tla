--------------------------- MODULE UrlInspectProofs ---------------------------
(***************************************************************************)
(* inspectUrl() connects only where it may, for all sets of URLs and       *)
(* addresses, answers of any length, and every limit.                      *)
(***************************************************************************)
EXTENDS UrlInspect, FiniteSetTheorems, TLAPS

(* Every hop passed validateTarget(); an address is chosen only in the     *)
(* step that checked them all; only "destroyed" is past the limit.         *)
Inv ==
  /\ TypeOK
  /\ ConnectsOnlyWhereAllowed
  /\ PinnedWasChecked
  /\ AcceptedWithinLimit
  /\ pc \in Working => url \in Url /\ Target(url)
  /\ pc \in {"resolving", "resolved", "connecting"} => bytes = 0
  /\ pc \in {"resolving", "resolved"} => pinned = None
  /\ pc = "streaming" => bytes <= BodyLimit

LEMMA InitInv == Init => Inv
<1> SUFFICES ASSUME Init PROVE Inv
  OBVIOUS
<1>1. TypeOK
  <2>1. /\ pc = "start" /\ url = None /\ redirects = 0 /\ answer = <<>> /\ pinned = None
        /\ visited = {} /\ response = NoResponse /\ bytes = 0 /\ aborted = FALSE
    BY DEF Init
  <2>2. 0 \in 0..BodyLimit + 1
    BY ConstantsAssumption
  <2>3. NoResponse \in Response
    BY DEF NoResponse, Response
  <2>4. answer \in Seq(Address)
    BY <2>1
  <2>5. visited \subseteq Url \X Address /\ redirects \in 0..3 /\ bytes \in 0..BodyLimit + 1
    BY <2>1, <2>2
  <2>6. QED BY <2>1, <2>3, <2>4, <2>5 DEF TypeOK
<1>2. ConnectsOnlyWhereAllowed /\ PinnedWasChecked /\ AcceptedWithinLimit
  BY DEF Init, ConnectsOnlyWhereAllowed, PinnedWasChecked, AcceptedWithinLimit
<1>3. QED BY <1>1, <1>2 DEF Init, Inv, Working

(* The two ways an inspection goes on: to another URL, or nowhere.         *)
LEMMA HopInv ==
  ASSUME Inv, NEW u \in Url, Target(u), Hop(u), redirects' \in 0..3
  PROVE  Inv'
<1> USE ConstantsAssumption DEF Inv, Hop
<1>1. TypeOK'
  BY DEF TypeOK, Working, NoResponse, Response
<1>2. ConnectsOnlyWhereAllowed'
  BY DEF ConnectsOnlyWhereAllowed
<1>3. PinnedWasChecked' /\ AcceptedWithinLimit'
  BY DEF PinnedWasChecked, AcceptedWithinLimit
<1>4. QED BY <1>1, <1>2, <1>3 DEF Target

LEMMA RejectInv ==
  ASSUME Inv, Reject
  PROVE  Inv'
BY DEF Inv, Reject, TypeOK, ConnectsOnlyWhereAllowed, PinnedWasChecked,
       AcceptedWithinLimit, Working

LEMMA ConnectInv ==
  ASSUME Inv, Connect
  PROVE  Inv'
<1>1. CASE ~(InTime /\ AllPublic(answer))
  BY <1>1, RejectInv DEF Connect
<1>2. CASE InTime /\ AllPublic(answer)
  <2>1. /\ pc' = "connecting" /\ pinned' = answer[1]
        /\ visited' = visited \cup {<<url, answer[1]>>}
        /\ UNCHANGED <<url, redirects, answer, response, bytes, aborted>>
    BY <1>2 DEF Connect, Pin
  <2>2. url \in Url /\ Target(url) /\ answer \in Seq(Address) /\ bytes = 0
    BY DEF Inv, Connect, Working, TypeOK
  <2>3. /\ 1 \in DOMAIN answer
        /\ \A n \in DOMAIN answer : answer[n] \in PublicAddress
    BY <1>2, <2>2 DEF AllPublic
  <2>4. TypeOK'
    BY <2>1, <2>2, <2>3 DEF Inv, TypeOK, Working
  <2>5. ConnectsOnlyWhereAllowed'
    BY <2>1, <2>2, <2>3 DEF Inv, ConnectsOnlyWhereAllowed, Target
  <2>6. PinnedWasChecked' /\ AcceptedWithinLimit'
    BY <2>1, <2>3 DEF PinnedWasChecked, AcceptedWithinLimit
  <2>7. QED BY <2>1, <2>2, <2>4, <2>5, <2>6 DEF Inv, Working, Target
<1>3. QED BY <1>1, <1>2

LEMMA EndInv ==
  ASSUME Inv, End
  PROVE  Inv'
<1>1. CASE ~response.redirect
  BY <1>1 DEF End, Inv, TypeOK, ConnectsOnlyWhereAllowed, PinnedWasChecked,
              AcceptedWithinLimit, Working
<1>2. CASE response.redirect /\ ~Reject
  <2>1. /\ response.location \in Url /\ Target(response.location) /\ redirects # 3
        /\ Hop(response.location) /\ redirects' = redirects + 1
    BY <1>2 DEF End, Exhausted, Inv, TypeOK, Response
  <2>2. redirects' \in 0..3
    BY <2>1 DEF Inv, TypeOK
  <2>3. QED BY <2>1, <2>2, HopInv
<1>3. QED BY <1>1, <1>2, RejectInv DEF End

LEMMA NextInv ==
  ASSUME Inv, [Next]_vars
  PROVE  Inv'
<1> USE DEF Inv, TypeOK, ConnectsOnlyWhereAllowed, PinnedWasChecked, AcceptedWithinLimit,
            Working
<1>1. ASSUME NEW u \in Url, Start(u) PROVE Inv'
  BY <1>1, HopInv, RejectInv DEF Start
<1>2. ASSUME NEW a \in Answers, Resolve(a) PROVE Inv'
  <2>1. a \in Seq(Address)
    BY <1>2 DEF Answers
  <2>2. QED BY <1>2, <2>1 DEF Resolve
<1>3. CASE ResolveFails BY <1>3, RejectInv DEF ResolveFails
<1>4. CASE Connect BY <1>4, ConnectInv
<1>5. ASSUME NEW r \in Response, Respond(r) PROVE Inv'
  BY <1>5, ConstantsAssumption DEF Respond
<1>6. CASE RequestError BY <1>6, RejectInv DEF RequestError
<1>7. CASE Chunk BY <1>7, ConstantsAssumption DEF Chunk, ChunkPhase
<1>8. CASE DestroyedError BY <1>8, RejectInv DEF DestroyedError
<1>9. CASE End BY <1>9, EndInv
<1>10. CASE Deadline BY <1>10 DEF Deadline
<1>11. CASE UNCHANGED vars BY <1>11 DEF vars, Target
<1>12. QED
  BY <1>1, <1>2, <1>3, <1>4, <1>5, <1>6, <1>7, <1>8, <1>9, <1>10, <1>11
  DEF Next, Terminated

(* Every step of inspectUrl() keeps the invariant.                         *)
THEOREM Invariant == Spec => []Inv
BY InitInv, NextInv, PTL DEF Spec

(* The inspection's variables have their types; three redirects at most.   *)
THEOREM Types == Spec => []TypeOK
<1>1. Inv => TypeOK
  BY DEF Inv
<1>2. QED BY <1>1, Invariant, PTL

(* Only public addresses and allowed origins are connected to.             *)
THEOREM Connections == Spec => []ConnectsOnlyWhereAllowed
<1>1. Inv => ConnectsOnlyWhereAllowed
  BY DEF Inv
<1>2. QED BY <1>1, Invariant, PTL

(* The address in use was checked, with all the others of its answer.      *)
THEOREM Pinned == Spec => []PinnedWasChecked
<1>1. Inv => PinnedWasChecked
  BY DEF Inv
<1>2. QED BY <1>1, Invariant, PTL

(* What is accepted was read to its end, within the limit.                 *)
THEOREM Accepted == Spec => []AcceptedWithinLimit
<1>1. Inv => AcceptedWithinLimit
  BY DEF Inv
<1>2. QED BY <1>1, Invariant, PTL

(* After the deadline nothing is connected to.                             *)
THEOREM DeadlineHolds == Spec => NoConnectionAfterDeadline
<1>1. ASSUME [Next]_vars, aborted
      PROVE  visited' = visited
  BY <1>1 DEF Next, vars, Start, Hop, Reject, Resolve, ResolveFails, Connect, InTime, Respond,
              RequestError, Chunk, DestroyedError, End, Deadline, Terminated
<1>2. [Next]_vars => [aborted => visited' = visited]_vars
  BY <1>1
<1>3. QED BY <1>2, PTL DEF Spec, NoConnectionAfterDeadline

-----------------------------------------------------------------------------
(* How many connections there were: before a hop connects, at most one for *)
(* each redirect; then one more. A step that leaves the history alone must *)
(* not go from connecting back to resolving without counting a redirect.   *)
Before == {"start", "resolving", "resolved"}

Counted ==
  /\ IsFiniteSet(visited)
  /\ Cardinality(visited) <= redirects + 1
  /\ pc \in Before => Cardinality(visited) <= redirects

LEMMA CountedInit == Init => Counted
BY FS_EmptySet DEF Init, Counted

LEMMA ConnectCounted ==
  ASSUME Inv, Counted, Connect
  PROVE  Counted'
<1>1. /\ Cardinality(visited) \in Nat /\ redirects \in Nat /\ redirects' = redirects
      /\ Cardinality(visited) <= redirects
  BY FS_CardinalityType DEF Counted, Before, Connect, Inv, TypeOK, Reject
<1>2. CASE visited' = visited
  BY <1>1, <1>2 DEF Counted, Connect, Reject, Before
<1>3. ASSUME NEW address, visited' = visited \cup {<<url, address>>}, pc' = "connecting"
      PROVE  Counted'
  <2>1. /\ IsFiniteSet(visited')
        /\ Cardinality(visited') \in {Cardinality(visited), Cardinality(visited) + 1}
    BY <1>3, FS_AddElement DEF Counted
  <2>2. QED BY <1>1, <1>3, <2>1 DEF Counted, Before
<1>4. QED BY <1>2, <1>3 DEF Connect, Reject

LEMMA CountedNext ==
  ASSUME Inv, Counted, [Next]_vars
  PROVE  Counted'
<1>1. CASE Connect
  BY <1>1, ConnectCounted
<1>2. CASE ~Connect
  <2>1. /\ visited' = visited
        /\ \/ redirects' = redirects /\ (pc' \in Before => pc \in Before)
           \/ redirects' = redirects + 1
    BY <1>2 DEF Next, vars, Start, Hop, Reject, Resolve, ResolveFails, Respond, RequestError, Chunk,
                ChunkPhase, DestroyedError, End, Deadline, Terminated, Before
  <2>2. Cardinality(visited) \in Nat /\ redirects \in Nat
    BY FS_CardinalityType DEF Counted, Inv, TypeOK
  <2>3. QED BY <2>1, <2>2 DEF Counted
<1>3. QED BY <1>1, <1>2

(* However the servers redirect, at most four distinct connections are     *)
(* opened, the first and three more (url.ts:48, 111-118).                  *)
ConnectsAtMostFourTimes ==
  IsFiniteSet(visited) /\ Cardinality(visited) <= 4

(* At most four connections, for any limit and any answers: the counter    *)
(* never passes three.                                                     *)
THEOREM FourConnections == Spec => []ConnectsAtMostFourTimes
<1>1. Inv /\ Counted => ConnectsAtMostFourTimes
  BY FS_CardinalityType DEF Inv, TypeOK, Counted, ConnectsAtMostFourTimes
<1>2. Inv /\ Counted /\ [Next]_vars => Counted'
  BY CountedNext
<1>3. Spec => []Counted
  BY CountedInit, <1>2, Invariant, PTL DEF Spec
<1>4. QED BY <1>1, <1>3, Invariant, PTL
=============================================================================
