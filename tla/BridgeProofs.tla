---------------------------- MODULE BridgeProofs ----------------------------
(***************************************************************************)
(* The invariants of Bridge for any number of calls, ids and signals.      *)
(*                                                                         *)
(* None of them is inductive alone. What holds them together is that the   *)
(* entries of pending and the waiting calls are the same thing seen from   *)
(* two sides (EntriesWait, WaitingHolds), that everything armed belongs to *)
(* a waiting call (ArmedWait), and that a waiting call with a signal still *)
(* listens to it (WaitingHears).                                           *)
(***************************************************************************)
EXTENDS Bridge, TLAPS

(* A waiting call holds the entry of the id it captured and its timer.     *)
WaitingHolds ==
  \A c \in Call : outcome[c] = "waiting" =>
    idOf[c] \in Id /\ pending[idOf[c]] = c /\ c \in timers

(* An entry of the map belongs to a waiting call that captured its id.     *)
EntriesWait ==
  \A i \in Id : pending[i] # None =>
    outcome[pending[i]] = "waiting" /\ idOf[pending[i]] = i

(* Timers and listeners belong to waiting calls.                           *)
ArmedWait == \A c \in timers \cup listeners : outcome[c] = "waiting"

(* A waiting call listens to its signal, which has not fired.              *)
WaitingHears ==
  \A c \in Call : outcome[c] = "waiting" =>
    /\ signalOf[c] # None => c \in listeners
    /\ signalOf[c] \notin aborted

(* Only a call that was sent has a send promise or can be answered.        *)
SentHasId == \A c \in sends \cup reached : idOf[c] \in Id

(* A call that was not made has left no trace.                             *)
IdleIsBlank == \A c \in Call : outcome[c] = "idle" => idOf[c] = None

(* A factory that never repeats itself gives every call an id of its own.  *)
IdsAreUnique ==
  FreshIds => \A c, d \in Call : idOf[c] = idOf[d] /\ idOf[c] # None => c = d

ClosedIsEmpty == ~UnsubscribeThrows => DisposedIsEmpty

IInv ==
  /\ TypeOK
  /\ WaitingHolds
  /\ EntriesWait
  /\ ArmedWait
  /\ WaitingHears
  /\ SentHasId
  /\ IdleIsBlank
  /\ IdsAreUnique
  /\ ClosedIsEmpty
  /\ FreshIds => RepliesReachTheirCall

-----------------------------------------------------------------------------
(* What the handlers that settle calls have in common.                     *)

(* Whatever a handler settles was in flight, hence waiting.                *)
LEMMA InFlightWaits ==
  ASSUME IInv, NEW c \in InFlight
  PROVE  c \in Call /\ outcome[c] = "waiting" /\ pending[idOf[c]] = c /\ idOf[c] \in Id
<1>1. PICK i \in Id : pending[i] = c /\ c # None
  BY DEF InFlight
<1>2. c \in Call /\ outcome[c] = "waiting"
  BY <1>1 DEF IInv, TypeOK, EntriesWait
<1>3. QED
  BY <1>1, <1>2 DEF IInv, WaitingHolds

(* The holder of an id is in flight.                                       *)
LEMMA HolderInFlight ==
  ASSUME NEW i \in Id PROVE HeldBy(i) \subseteq InFlight
BY DEF HeldBy, InFlight

(* A call whose timer or listener is registered holds its own id.          *)
LEMMA ArmedHolds ==
  ASSUME IInv, NEW c \in timers \cup listeners
  PROVE  c \in Call /\ idOf[c] \in Id /\ HeldBy(idOf[c]) = {c}
<1>1. c \in Call /\ outcome[c] = "waiting"
  BY DEF IInv, TypeOK, ArmedWait
<1>2. idOf[c] \in Id /\ pending[idOf[c]] = c
  BY <1>1 DEF IInv, WaitingHolds
<1>3. c # None
  BY <1>1, NoneAssumption
<1>4. QED
  BY <1>1, <1>2, <1>3 DEF HeldBy

(* Settling calls in flight, with the timers and listeners among them that *)
(* have just run, keeps the parts of IInv that do not speak of signals.    *)
LEMMA SettleKeeps ==
  ASSUME IInv,
         NEW S \in SUBSET InFlight, NEW T \in SUBSET S, NEW L \in SUBSET S,
         NEW how \in Settled,
         SettleAfter(S, T, L, how),
         UNCHANGED arguments,
         sends' \subseteq sends, reached' = reached
  PROVE  /\ pending' \in [Id -> Call \cup {None}]
         /\ timers' \subseteq Call /\ listeners' \subseteq Call
         /\ outcome' \in [Call -> {"idle", "waiting"} \cup Settled]
         /\ WaitingHolds' /\ EntriesWait' /\ ArmedWait'
         /\ SentHasId' /\ IdleIsBlank' /\ IdsAreUnique'
         /\ aborted' = aborted => WaitingHears'
         /\ disposed' = disposed => ClosedIsEmpty'
<1> USE DEF SettleAfter, EntriesLeft, TimersLeft, ListenersLeft
<1>1. /\ S \subseteq Call
      /\ \A c \in S : outcome[c] = "waiting"
  BY InFlightWaits
<1>2. /\ how \notin {"idle", "waiting"}
      /\ \A c \in Call : outcome'[c] = IF c \in S THEN how ELSE outcome[c]
  BY DEF Settled, Rejection
<1>3. \A i \in Id : pending'[i] = IF pending[i] \in S THEN None ELSE pending[i]
  OBVIOUS
<1>4. UNCHANGED <<idOf, methodOf, signalOf>>
  BY DEF arguments
<1>5. /\ pending' \in [Id -> Call \cup {None}]
      /\ timers' \subseteq Call /\ listeners' \subseteq Call
      /\ outcome' \in [Call -> {"idle", "waiting"} \cup Settled]
  BY <1>1, <1>2 DEF IInv, TypeOK
<1>6. WaitingHolds'
  <2>1. ASSUME NEW c \in Call, outcome'[c] = "waiting"
        PROVE  idOf'[c] \in Id /\ pending'[idOf'[c]] = c /\ c \in timers'
    <3>1. c \notin S /\ outcome[c] = "waiting"
      BY <1>2, <2>1
    <3>2. idOf[c] \in Id /\ pending[idOf[c]] = c /\ c \in timers
      BY <3>1 DEF IInv, WaitingHolds
    <3>3. QED
      BY <1>3, <1>4, <3>1, <3>2
  <2>2. QED
    BY <2>1 DEF WaitingHolds
<1>7. EntriesWait'
  <2>1. ASSUME NEW i \in Id, pending'[i] # None
        PROVE  outcome'[pending'[i]] = "waiting" /\ idOf'[pending'[i]] = i
    <3>1. pending[i] \notin S /\ pending'[i] = pending[i]
      BY <1>3, <2>1
    <3>2. pending[i] \in Call
      BY <2>1, <3>1 DEF IInv, TypeOK
    <3>3. outcome[pending[i]] = "waiting" /\ idOf[pending[i]] = i
      BY <2>1, <3>1 DEF IInv, EntriesWait
    <3>4. QED
      BY <1>2, <1>4, <3>1, <3>2, <3>3
  <2>2. QED
    BY <2>1 DEF EntriesWait
<1>8. ArmedWait'
  <2>1. ASSUME NEW c \in timers' \cup listeners'
        PROVE  outcome'[c] = "waiting"
    <3>1. c \in timers \cup listeners /\ c \notin S
      OBVIOUS
    <3>2. c \in Call /\ outcome[c] = "waiting"
      BY <3>1 DEF IInv, TypeOK, ArmedWait
    <3>3. QED
      BY <1>2, <3>1, <3>2
  <2>2. QED
    BY <2>1 DEF ArmedWait
<1>9. SentHasId' /\ IdleIsBlank' /\ IdsAreUnique'
  BY <1>1, <1>2, <1>4 DEF IInv, TypeOK, SentHasId, IdleIsBlank, IdsAreUnique
<1>10. ASSUME aborted' = aborted PROVE WaitingHears'
  <2>1. ASSUME NEW c \in Call, outcome'[c] = "waiting"
        PROVE  /\ signalOf'[c] # None => c \in listeners'
               /\ signalOf'[c] \notin aborted'
    <3>1. c \notin S /\ outcome[c] = "waiting"
      BY <1>2, <2>1
    <3>2. (signalOf[c] # None => c \in listeners) /\ signalOf[c] \notin aborted
      BY <3>1 DEF IInv, WaitingHears
    <3>3. QED
      BY <1>4, <1>10, <3>1, <3>2
  <2>2. QED
    BY <2>1 DEF WaitingHears
<1>11. ASSUME disposed' = disposed PROVE ClosedIsEmpty'
  <2>1. SUFFICES ASSUME ~UnsubscribeThrows, disposed
                 PROVE  InFlight' = {} /\ timers' = {} /\ listeners' = {}
    BY <1>11 DEF ClosedIsEmpty, DisposedIsEmpty
  <2>2. InFlight = {} /\ timers = {} /\ listeners = {}
    BY <2>1 DEF IInv, ClosedIsEmpty, DisposedIsEmpty
  <2>3. \A i \in Id : pending'[i] = None
    BY <1>3, <2>2 DEF InFlight
  <2>4. QED
    BY <2>2, <2>3 DEF InFlight
<1>12. QED
  BY <1>5, <1>6, <1>7, <1>8, <1>9, <1>10, <1>11

-----------------------------------------------------------------------------
(* One lemma for each handler of the client.                               *)

LEMMA InitIInv == Init => IInv
BY SwitchAssumption
   DEF Init, IInv, TypeOK, WaitingHolds, EntriesWait, ArmedWait, WaitingHears,
       SentHasId, IdleIsBlank, IdsAreUnique, ClosedIsEmpty, DisposedIsEmpty,
       RepliesReachTheirCall, InFlight

LEMMA RefuseStep ==
  ASSUME IInv, NEW c \in Call, NEW how \in Settled, Refuse(c, how)
  PROVE  IInv'
<1> USE DEF Refuse, arguments
<1>1. how \notin {"idle", "waiting"} /\ outcome[c] = "idle"
  BY DEF Settled, Rejection
<1>2. /\ outcome' \in [Call -> {"idle", "waiting"} \cup Settled]
      /\ \A d \in Call : outcome'[d] = IF d = c THEN how ELSE outcome[d]
  BY DEF IInv, TypeOK
<1>3. TypeOK'
  BY <1>2 DEF IInv, TypeOK
<1>4. WaitingHolds' /\ WaitingHears'
  BY <1>1, <1>2 DEF IInv, WaitingHolds, WaitingHears
<1>5. EntriesWait'
  BY <1>1, <1>2 DEF IInv, TypeOK, EntriesWait
<1>6. ArmedWait'
  BY <1>1, <1>2 DEF IInv, TypeOK, ArmedWait
<1>7. SentHasId' /\ IdleIsBlank' /\ IdsAreUnique'
  BY <1>1, <1>2 DEF IInv, TypeOK, SentHasId, IdleIsBlank, IdsAreUnique
<1>8. ClosedIsEmpty' /\ (FreshIds => RepliesReachTheirCall')
  BY DEF IInv, ClosedIsEmpty, DisposedIsEmpty, InFlight, RepliesReachTheirCall
<1>9. QED
  BY <1>3, <1>4, <1>5, <1>6, <1>7, <1>8 DEF IInv

(* The id and the signal of a new call are in no other call's way.         *)
LEMMA BeginStep ==
  ASSUME IInv, NEW c \in Call, NEW i \in Id, NEW m \in Method,
         NEW s \in Signal \cup {None}, Begin(c, i, m, s)
  PROVE  /\ ~disposed /\ outcome[c] = "idle" /\ pending[i] = None
         /\ s \notin aborted
         /\ c \notin timers \cup listeners
         /\ c \notin sends
         /\ \A d \in Call : d # c => idOf'[d] = idOf[d] /\ signalOf'[d] = signalOf[d]
         /\ idOf'[c] = i /\ signalOf'[c] = s
         /\ idOf' \in [Call -> Id \cup {None}]
         /\ methodOf' \in [Call -> Method \cup {None}]
         /\ signalOf' \in [Call -> Signal \cup {None}]
         /\ reached' \subseteq Call
         /\ \A d \in reached' : idOf'[d] \in Id
         /\ IdsAreUnique'
<1> USE DEF Begin, Open, NewId, LiveSignal
<1>1. /\ ~disposed /\ outcome[c] = "idle" /\ pending[i] = None /\ s \notin aborted
      /\ idOf[c] = None
  BY NoneAssumption DEF IInv, TypeOK, IdleIsBlank
<1>2. c \notin timers \cup listeners
  BY <1>1 DEF IInv, ArmedWait
<1>3. c \notin sends
  BY <1>1, NoneAssumption DEF IInv, SentHasId
<1>4. /\ \A d \in Call : d # c => idOf'[d] = idOf[d] /\ signalOf'[d] = signalOf[d]
      /\ idOf'[c] = i /\ signalOf'[c] = s
      /\ idOf' \in [Call -> Id \cup {None}]
      /\ methodOf' \in [Call -> Method \cup {None}]
      /\ signalOf' \in [Call -> Signal \cup {None}]
  BY DEF IInv, TypeOK
<1>5. reached' \subseteq Call /\ \A d \in reached' : idOf'[d] \in Id
  BY <1>4 DEF IInv, TypeOK, SentHasId
<1>6. IdsAreUnique'
  <2>1. SUFFICES ASSUME FreshIds, NEW d \in Call, NEW e \in Call,
                        idOf'[d] = idOf'[e], idOf'[d] # None
                 PROVE  d = e
    BY DEF IdsAreUnique
  <2>2. \A f \in Call : idOf[f] # i
    BY <2>1
  <2>3. QED
    BY <1>4, <2>1, <2>2 DEF IInv, IdsAreUnique
<1>7. QED
  BY <1>1, <1>2, <1>3, <1>4, <1>5, <1>6

LEMMA RequestSendStep ==
  ASSUME IInv, NEW c \in Call, NEW i \in Id, NEW m \in Method,
         NEW s \in Signal \cup {None}, RequestSend(c, i, m, s)
  PROVE  IInv'
<1> USE DEF RequestSend, Armed
<1> Begin(c, i, m, s)
  OBVIOUS
<1>1. UNCHANGED <<disposed, aborted, answeredBy>>
  BY DEF Begin
<1>2. /\ \A d \in Call : outcome'[d] = IF d = c THEN "waiting" ELSE outcome[d]
      /\ \A j \in Id : pending'[j] = IF j = i THEN c ELSE pending[j]
  BY DEF IInv, TypeOK
<1>3. TypeOK'
  BY <1>1, BeginStep DEF IInv, TypeOK
<1>4. WaitingHolds'
  <2>1. ASSUME NEW d \in Call, d # c, outcome[d] = "waiting"
        PROVE  idOf[d] \in Id /\ idOf[d] # i /\ pending[idOf[d]] = d /\ d \in timers
    BY <2>1, BeginStep, NoneAssumption DEF IInv, WaitingHolds
  <2>2. QED
    BY <1>2, <2>1, BeginStep DEF WaitingHolds
<1>5. EntriesWait'
  <2>1. ASSUME NEW j \in Id, j # i, pending[j] # None
        PROVE  /\ pending[j] \in Call /\ pending[j] # c
               /\ outcome[pending[j]] = "waiting" /\ idOf[pending[j]] = j
    BY <2>1, BeginStep DEF IInv, TypeOK, EntriesWait
  <2>2. QED
    BY <1>2, <2>1, BeginStep DEF EntriesWait
<1>6. ArmedWait'
  BY <1>2 DEF IInv, TypeOK, ArmedWait
<1>7. WaitingHears'
  BY <1>1, <1>2, BeginStep DEF IInv, WaitingHears
<1>8. SentHasId'
  <2>1. \A d \in sends' : d \in sends \/ d = c
    OBVIOUS
  <2>2. \A d \in sends : d \in Call
    BY DEF IInv, TypeOK
  <2>3. \A d \in sends : idOf[d] \in Id
    BY DEF IInv, SentHasId
  <2>4. QED
    BY <2>1, <2>2, <2>3, BeginStep DEF SentHasId
<1>9. IdleIsBlank'
  BY <1>2, BeginStep DEF IInv, IdleIsBlank
<1>10. IdsAreUnique'
  BY BeginStep
<1>11. ClosedIsEmpty' /\ (FreshIds => RepliesReachTheirCall')
  BY <1>1, BeginStep DEF IInv, ClosedIsEmpty, DisposedIsEmpty, RepliesReachTheirCall
<1>12. QED
  BY <1>3, <1>4, <1>5, <1>6, <1>7, <1>8, <1>9, <1>10, <1>11 DEF IInv

LEMMA RequestSendThrowsStep ==
  ASSUME IInv, NEW c \in Call, NEW i \in Id, NEW m \in Method,
         NEW s \in Signal \cup {None}, RequestSendThrows(c, i, m, s)
  PROVE  IInv'
<1> USE DEF RequestSendThrows
<1> Begin(c, i, m, s)
  OBVIOUS
<1>1. UNCHANGED <<disposed, aborted, answeredBy>>
  BY DEF Begin
<1>2. \A d \in Call : outcome'[d] = IF d = c THEN "unavailable" ELSE outcome[d]
  BY DEF IInv, TypeOK
<1>3. TypeOK'
  BY <1>1, BeginStep DEF IInv, TypeOK, Settled, Rejection
<1>4. WaitingHolds' /\ WaitingHears'
  BY <1>1, <1>2, BeginStep DEF IInv, WaitingHolds, WaitingHears
<1>5. EntriesWait'
  <2>1. ASSUME NEW j \in Id, pending[j] # None
        PROVE  /\ pending[j] \in Call /\ pending[j] # c
               /\ outcome[pending[j]] = "waiting" /\ idOf[pending[j]] = j
    BY <2>1, BeginStep DEF IInv, TypeOK, EntriesWait
  <2>2. QED
    BY <1>2, <2>1, BeginStep DEF EntriesWait
<1>6. ArmedWait'
  BY <1>2, BeginStep DEF IInv, TypeOK, ArmedWait
<1>7. SentHasId'
  <2>1. \A d \in sends : d \in Call /\ idOf[d] \in Id
    BY DEF IInv, TypeOK, SentHasId
  <2>2. QED
    BY <2>1, BeginStep DEF SentHasId
<1>8. IdleIsBlank' /\ IdsAreUnique'
  BY <1>2, BeginStep DEF IInv, IdleIsBlank
<1>9. ClosedIsEmpty' /\ (FreshIds => RepliesReachTheirCall')
  BY <1>1, BeginStep DEF IInv, ClosedIsEmpty, DisposedIsEmpty, RepliesReachTheirCall
<1>10. QED
  BY <1>3, <1>4, <1>5, <1>6, <1>7, <1>8, <1>9 DEF IInv

(* A handler that settles and touches neither the signals nor the ghost    *)
(* answeredBy nor disposed.                                                *)
LEMMA PlainSettleStep ==
  ASSUME IInv,
         NEW S \in SUBSET InFlight, NEW T \in SUBSET S, NEW how \in Settled,
         SettleAfter(S, T, {}, how), sends' \subseteq sends,
         UNCHANGED <<disposed, aborted, arguments, reached, answeredBy>>
  PROVE  IInv'
<1>1. /\ UNCHANGED arguments /\ reached' = reached /\ aborted' = aborted
      /\ disposed' = disposed /\ answeredBy' = answeredBy
  OBVIOUS
<1>2. /\ pending' \in [Id -> Call \cup {None}]
      /\ timers' \subseteq Call /\ listeners' \subseteq Call
      /\ outcome' \in [Call -> {"idle", "waiting"} \cup Settled]
      /\ WaitingHolds' /\ EntriesWait' /\ ArmedWait'
      /\ SentHasId' /\ IdleIsBlank' /\ IdsAreUnique'
      /\ WaitingHears' /\ ClosedIsEmpty'
  BY <1>1, SettleKeeps
<1>3. TypeOK'
  BY <1>1, <1>2 DEF IInv, TypeOK, arguments
<1>4. FreshIds => RepliesReachTheirCall'
  BY <1>1 DEF IInv, RepliesReachTheirCall
<1>5. QED
  BY <1>2, <1>3, <1>4 DEF IInv

LEMMA TimerFiresStep ==
  ASSUME IInv, NEW c \in Call, TimerFires(c)
  PROVE  IInv'
<1>1. c \in timers /\ sends' \subseteq sends
  BY DEF TimerFires
<1>2. HeldBy(idOf[c]) = {c} /\ idOf[c] \in Id
  BY <1>1, ArmedHolds
<1>3. {c} \in SUBSET InFlight
  BY <1>2, HolderInFlight
<1>4. SettleAfter({c}, {c}, {}, "timeout") /\ "timeout" \in Settled
  BY <1>2 DEF TimerFires, Settled, Rejection
<1>5. QED
  BY <1>1, <1>3, <1>4, PlainSettleStep DEF TimerFires

LEMMA SendRejectsStep ==
  ASSUME IInv, NEW c \in Call, SendRejects(c)
  PROVE  IInv'
<1>1. c \in sends /\ sends' \subseteq sends
  BY DEF SendRejects
<1>2. HeldBy(idOf[c]) \in SUBSET InFlight
  BY <1>1, HolderInFlight DEF IInv, SentHasId
<1>3. SettleAfter(HeldBy(idOf[c]), {}, {}, "unavailable") /\ "unavailable" \in Settled
  BY DEF SendRejects, Fail, Settled, Rejection
<1>4. QED
  BY <1>1, <1>2, <1>3, PlainSettleStep DEF SendRejects

LEMMA ReceiveMalformedStep ==
  ASSUME IInv, NEW i \in Id, ReceiveMalformed(i)
  PROVE  IInv'
<1>1. HeldBy(i) \in SUBSET InFlight
  BY HolderInFlight
<1>2. SettleAfter(HeldBy(i), {}, {}, "protocol_error") /\ "protocol_error" \in Settled
  BY DEF ReceiveMalformed, Fail, Settled, Rejection
<1>3. QED
  BY <1>1, <1>2, PlainSettleStep DEF ReceiveMalformed

LEMMA SendFulfilsStep ==
  ASSUME IInv, NEW c \in Call, SendFulfils(c)
  PROVE  IInv'
BY DEF SendFulfils, arguments, IInv, TypeOK, WaitingHolds, EntriesWait, ArmedWait,
       WaitingHears, SentHasId, IdleIsBlank, IdsAreUnique, ClosedIsEmpty,
       DisposedIsEmpty, InFlight, RepliesReachTheirCall

(* The calls that hear a signal are exactly the waiting ones made with it. *)
LEMMA AbortStep ==
  ASSUME IInv, NEW s \in Signal, Abort(s)
  PROVE  IInv'
<1> DEFINE hearing == {c \in listeners : signalOf[c] = s}
<1>1. UNION {HeldBy(idOf[c]) : c \in hearing} = hearing
  BY ArmedHolds
<1>2. hearing \in SUBSET InFlight
  BY ArmedHolds, HolderInFlight
<1>3. SettleAfter(hearing, {}, hearing, "aborted") /\ "aborted" \in Settled
  BY <1>1 DEF Abort, Settled, Rejection
<1>4. /\ UNCHANGED arguments /\ reached' = reached /\ sends' \subseteq sends
      /\ disposed' = disposed /\ answeredBy' = answeredBy
      /\ aborted' = aborted \cup {s} /\ sends' = sends
  BY DEF Abort
<1>5. /\ pending' \in [Id -> Call \cup {None}]
      /\ timers' \subseteq Call /\ listeners' \subseteq Call
      /\ outcome' \in [Call -> {"idle", "waiting"} \cup Settled]
      /\ WaitingHolds' /\ EntriesWait' /\ ArmedWait'
      /\ SentHasId' /\ IdleIsBlank' /\ IdsAreUnique'
      /\ ClosedIsEmpty'
  <2> HIDE DEF hearing
  <2> QED BY <1>2, <1>3, <1>4, SettleKeeps
<1>6. TypeOK'
  BY <1>4, <1>5 DEF IInv, TypeOK, arguments
<1>7. WaitingHears'
  <2>1. ASSUME NEW c \in Call, outcome'[c] = "waiting"
        PROVE  /\ signalOf'[c] # None => c \in listeners'
               /\ signalOf'[c] \notin aborted'
    <3>1. c \notin hearing /\ outcome[c] = "waiting"
      BY <1>3, <2>1 DEF SettleAfter
    <3>2. (signalOf[c] # None => c \in listeners) /\ signalOf[c] \notin aborted
      BY <3>1 DEF IInv, WaitingHears
    <3>3. signalOf[c] # s
      BY <3>1, <3>2, NoneAssumption
    <3>4. QED
      BY <1>3, <1>4, <3>1, <3>2, <3>3 DEF SettleAfter, ListenersLeft, arguments
  <2>2. QED
    BY <2>1 DEF WaitingHears
<1>8. FreshIds => RepliesReachTheirCall'
  BY <1>4 DEF IInv, RepliesReachTheirCall
<1>9. QED
  BY <1>5, <1>6, <1>7, <1>8 DEF IInv

(* With ids that never repeat, the request an answer names and the request *)
(* that holds the id are the same.                                         *)
LEMMA ReceiveStep ==
  ASSUME IInv, NEW q \in Call, NEW m \in Method,
         NEW how \in {"resolved", "remote_error"}, Receive(q, m, how)
  PROVE  IInv'
<1> DEFINE held == HeldBy(idOf[q])
           status == ReplyStatus(idOf[q], m, how)
<1>1. idOf[q] \in Id
  BY DEF Receive, IInv, SentHasId
<1>2. held \in SUBSET InFlight
  BY <1>1, HolderInFlight
<1>3. status \in Settled
  BY DEF ReplyStatus, Settled, Rejection
<1>4. SettleAfter(held, {}, {}, status)
  BY DEF Receive, Fail
<1>5. /\ UNCHANGED arguments /\ reached' = reached /\ sends' \subseteq sends
      /\ disposed' = disposed /\ aborted' = aborted /\ sends' = sends
  BY DEF Receive
<1>6. /\ pending' \in [Id -> Call \cup {None}]
      /\ timers' \subseteq Call /\ listeners' \subseteq Call
      /\ outcome' \in [Call -> {"idle", "waiting"} \cup Settled]
      /\ WaitingHolds' /\ EntriesWait' /\ ArmedWait'
      /\ SentHasId' /\ IdleIsBlank' /\ IdsAreUnique'
      /\ WaitingHears' /\ ClosedIsEmpty'
  <2> HIDE DEF held, status
  <2> QED BY <1>2, <1>3, <1>4, <1>5, SettleKeeps
<1>7. answeredBy' = [c \in Call |-> IF c \in held THEN q ELSE answeredBy[c]]
  BY DEF Receive
<1>8. TypeOK'
  <2> HIDE DEF held
  <2> QED BY <1>5, <1>6, <1>7 DEF IInv, TypeOK, arguments
<1>9. ASSUME FreshIds PROVE RepliesReachTheirCall'
  <2>1. ASSUME NEW c \in Call PROVE answeredBy'[c] \in {None, c}
    <3>1. CASE c \in held
      <4>1. c # None /\ pending[idOf[q]] = c
        BY <3>1 DEF HeldBy
      <4>2. idOf[c] = idOf[q]
        BY <1>1, <4>1 DEF IInv, EntriesWait
      <4>3. c = q
        BY <1>1, <1>9, <4>2, NoneAssumption DEF IInv, IdsAreUnique
      <4>4. QED
        BY <1>7, <3>1, <4>3
    <3>2. CASE c \notin held
      BY <1>7, <1>9, <3>2 DEF IInv, RepliesReachTheirCall
    <3>3. QED
      BY <3>1, <3>2
  <2>2. QED
    BY <2>1 DEF RepliesReachTheirCall
<1>10. QED
  BY <1>6, <1>8, <1>9 DEF IInv

LEMMA DisposeStep ==
  ASSUME IInv, Dispose
  PROVE  IInv'
<1> USE DEF Dispose, ToFail
<1>1. CASE disposed
  BY <1>1 DEF arguments, IInv, TypeOK, WaitingHolds, EntriesWait, ArmedWait,
       WaitingHears, SentHasId, IdleIsBlank, IdsAreUnique, ClosedIsEmpty,
       DisposedIsEmpty, InFlight, RepliesReachTheirCall
<1>2. CASE ~disposed
  <2>1. SettleAfter(InFlight, {}, {}, "unavailable") /\ "unavailable" \in Settled
    BY <1>2 DEF Settled, Rejection
  <2>2. /\ UNCHANGED arguments /\ reached' = reached /\ sends' \subseteq sends
        /\ disposed' = TRUE /\ aborted' = aborted /\ answeredBy' = answeredBy
        /\ sends' = sends
    OBVIOUS
  <2>3. /\ pending' \in [Id -> Call \cup {None}]
        /\ timers' \subseteq Call /\ listeners' \subseteq Call
        /\ outcome' \in [Call -> {"idle", "waiting"} \cup Settled]
        /\ WaitingHolds' /\ EntriesWait' /\ ArmedWait'
        /\ SentHasId' /\ IdleIsBlank' /\ IdsAreUnique'
        /\ WaitingHears'
    BY <2>1, <2>2, SettleKeeps
  <2>4. TypeOK'
    BY <2>2, <2>3 DEF IInv, TypeOK, arguments
  <2>5. InFlight' = {} /\ timers' = {} /\ listeners' = {}
    <3>1. \A c \in timers \cup listeners : c \in InFlight
      BY ArmedHolds, HolderInFlight
    <3>2. timers' = {} /\ listeners' = {}
      BY <2>1, <3>1 DEF SettleAfter, TimersLeft, ListenersLeft
    <3>3. \A i \in Id : pending'[i] = None
      BY <2>1 DEF SettleAfter, EntriesLeft, InFlight
    <3>4. QED
      BY <3>2, <3>3 DEF InFlight
  <2>6. ClosedIsEmpty'
    BY <2>5 DEF ClosedIsEmpty, DisposedIsEmpty
  <2>7. FreshIds => RepliesReachTheirCall'
    BY <2>2 DEF IInv, RepliesReachTheirCall
  <2>8. QED
    BY <2>3, <2>4, <2>6, <2>7 DEF IInv
<1>3. QED
  BY <1>1, <1>2

LEMMA DisposeThrowsStep ==
  ASSUME IInv, DisposeThrows
  PROVE  IInv'
BY DEF DisposeThrows, arguments, IInv, TypeOK, WaitingHolds, EntriesWait, ArmedWait,
       WaitingHears, SentHasId, IdleIsBlank, IdsAreUnique, ClosedIsEmpty,
       RepliesReachTheirCall

-----------------------------------------------------------------------------
(* The theorems                                                            *)

LEMMA RequestStep ==
  ASSUME IInv, NEW c \in Call, Request(c)
  PROVE  IInv'
<1>1. {"unavailable", "thrown", "aborted"} \subseteq Settled
  BY DEF Settled, Rejection
<1>2. CASE \E how \in {"unavailable", "thrown", "aborted"} : Refuse(c, how)
  BY <1>1, <1>2, RefuseStep
<1>3. CASE \E i \in Id, m \in Method, s \in Signal \cup {None} :
             RequestSend(c, i, m, s) \/ RequestSendThrows(c, i, m, s)
  BY <1>3, RequestSendStep, RequestSendThrowsStep
<1>4. QED
  BY <1>2, <1>3 DEF Request, RequestDisposed, RequestInvalid, RequestAborted,
                    RequestRepeatedId

LEMMA NextIInv == IInv /\ [Next]_vars => IInv'
<1> SUFFICES ASSUME IInv, [Next]_vars PROVE IInv'
  OBVIOUS
<1>1. ASSUME NEW c \in Call, Request(c) \/ TimerFires(c) \/ SendFulfils(c) \/ SendRejects(c)
      PROVE  IInv'
  BY <1>1, RequestStep, TimerFiresStep, SendFulfilsStep, SendRejectsStep
<1>2. ASSUME NEW s \in Signal, Abort(s) PROVE IInv'
  BY <1>2, AbortStep
<1>3. ASSUME NEW q \in Call, NEW m \in Method,
             NEW how \in {"resolved", "remote_error"}, Receive(q, m, how)
      PROVE  IInv'
  BY <1>3, ReceiveStep
<1>4. ASSUME NEW i \in Id, ReceiveMalformed(i) PROVE IInv'
  BY <1>4, ReceiveMalformedStep
<1>5. CASE Dispose
  BY <1>5, DisposeStep
<1>6. CASE DisposeThrows
  BY <1>6, DisposeThrowsStep
<1>7. CASE UNCHANGED vars
  BY <1>7 DEF vars, arguments, IInv, TypeOK, WaitingHolds, EntriesWait, ArmedWait,
       WaitingHears, SentHasId, IdleIsBlank, IdsAreUnique, ClosedIsEmpty,
       DisposedIsEmpty, InFlight, RepliesReachTheirCall
<1>8. QED
  BY <1>1, <1>2, <1>3, <1>4, <1>5, <1>6, <1>7 DEF Next

(* The inductive invariant of the client holds in every state.             *)
THEOREM InductiveInvariant == Spec => []IInv
<1>1. QED
  BY InitIInv, NextIInv, PTL DEF Spec

(* The variables of the client have the types the code gives them.         *)
THEOREM TypeCorrect == Spec => []TypeOK
<1>1. IInv => TypeOK
  BY DEF IInv
<1>2. QED
  BY <1>1, InductiveInvariant, PTL

(* Every waiting caller of request() has its entry and its timer: clearing *)
(* one entry never disarms or overwrites another.                          *)
THEOREM NoCallIsStranded == Spec => []NoStrandedCall
<1>1. IInv => NoStrandedCall
  BY DEF IInv, WaitingHolds, NoStrandedCall
<1>2. QED
  BY <1>1, InductiveInvariant, PTL

(* Timers and abort listeners die with their call, so that none can fail a *)
(* later call that got the same id.                                        *)
THEOREM ClosuresDie == Spec => []ClosuresDieWithCall
<1>1. IInv => ClosuresDieWithCall
  BY DEF IInv, TypeOK, WaitingHolds, ArmedWait, ClosuresDieWithCall
<1>2. QED
  BY <1>1, InductiveInvariant, PTL

(* A fired AbortSignal leaves no request made with it in flight.           *)
THEOREM AbortsReachAll == Spec => []AbortReachesAll
<1>1. IInv => AbortReachesAll
  BY DEF IInv, WaitingHears, AbortReachesAll
<1>2. QED
  BY <1>1, InductiveInvariant, PTL

(* dispose() empties the client, if unsubscribe does not throw.            *)
THEOREM DisposeEmpties == ASSUME ~UnsubscribeThrows PROVE Spec => []DisposedIsEmpty
<1>1. IInv => DisposedIsEmpty
  BY DEF IInv, ClosedIsEmpty
<1>2. QED
  BY <1>1, InductiveInvariant, PTL

(* With ids that never repeat, the failure of a send, however late, fails   *)
(* no call but the one that was sent.                                      *)
THEOREM SendsFailTheirOwn ==
  ASSUME FreshIds PROVE Spec => []SendFailsItsOwnCall
<1>1. IInv => SendFailsItsOwnCall
  <2> SUFFICES ASSUME IInv, NEW c \in sends, NEW d \in HeldBy(idOf[c])
               PROVE  d = c
    BY DEF SendFailsItsOwnCall
  <2>1. idOf[c] \in Id /\ c \in Call
    BY DEF IInv, TypeOK, SentHasId
  <2>2. pending[idOf[c]] = d /\ d # None
    BY DEF HeldBy
  <2>3. d \in Call /\ idOf[d] = idOf[c]
    BY <2>1, <2>2 DEF IInv, TypeOK, EntriesWait
  <2>4. QED
    BY <2>1, <2>3, NoneAssumption DEF IInv, IdsAreUnique
<1>2. QED
  BY <1>1, InductiveInvariant, PTL

(* With ids that never repeat, replies however late and send failures      *)
(* reach the request they belong to and no other.                          *)
THEOREM Correlation ==
  ASSUME FreshIds PROVE Spec => [](RepliesReachTheirCall /\ SendFailsItsOwnCall)
<1>1. IInv => RepliesReachTheirCall
  BY DEF IInv
<1>2. QED
  BY <1>1, SendsFailTheirOwn, InductiveInvariant, PTL

-----------------------------------------------------------------------------
(* What a step may do to the promises the client has handed out.           *)

(* Settling changes the phase of the settled calls and of no other.        *)
LEMMA SettleStepsPhase ==
  ASSUME IInv, NEW S \in SUBSET InFlight, NEW T, NEW L, NEW how \in Settled,
         SettleAfter(S, T, L, how)
  PROVE  /\ S \subseteq {c \in Call : Phase[c] = "waiting"}
         /\ Phase' = [c \in Call |-> IF c \in S THEN "settled" ELSE Phase[c]]
         /\ \A c \in Call : outcome[c] \in Settled => outcome'[c] = outcome[c]
<1>1. "waiting" \notin Settled
  BY DEF Settled, Rejection
<1>2. \A c \in S : c \in Call /\ outcome[c] = "waiting"
  BY InFlightWaits
<1>3. \A c \in Call : outcome'[c] = IF c \in S THEN how ELSE outcome[c]
  BY DEF SettleAfter
<1>4. Phase' = [c \in Call |-> IF c \in S THEN "settled" ELSE Phase[c]]
  <2>1. ASSUME NEW c \in Call
        PROVE  (IF outcome'[c] \in Settled THEN "settled" ELSE outcome'[c])
               = IF c \in S THEN "settled" ELSE Phase[c]
    BY <1>3 DEF Phase
  <2>2. QED
    BY <2>1 DEF Phase
<1>5. QED
  BY <1>1, <1>2, <1>3, <1>4 DEF Phase

(* The steps that settle calls in flight, and the set S each one settles.  *)
Settles(S) ==
  /\ S \subseteq InFlight
  /\ \E T, L \in SUBSET Call, how \in Settled : SettleAfter(S, T, L, how)

LEMMA HandlersSettle ==
  ASSUME IInv, Next
  PROVE  \/ \E c \in Call, how \in Settled : Refuse(c, how)
         \/ \E c \in Call, i \in Id, m \in Method, s \in Signal \cup {None} :
              RequestSend(c, i, m, s) \/ RequestSendThrows(c, i, m, s)
         \/ \E S \in SUBSET InFlight : Settles(S) /\ disposed' = disposed
         \/ outcome' = outcome /\ disposed' = disposed
         \/ Dispose
         \/ DisposeThrows
<1> DEFINE Goal == \E S \in SUBSET InFlight : Settles(S) /\ disposed' = disposed
<1>0. {"unavailable", "thrown", "aborted", "timeout", "protocol_error", "resolved",
       "remote_error"} \subseteq Settled
  BY DEF Settled, Rejection
<1>1. ASSUME NEW c \in Call, Request(c)
      PROVE  \/ \E how \in Settled : Refuse(c, how)
             \/ \E i \in Id, m \in Method, s \in Signal \cup {None} :
                  RequestSend(c, i, m, s) \/ RequestSendThrows(c, i, m, s)
  BY <1>0, <1>1 DEF Request, RequestDisposed, RequestInvalid, RequestAborted,
                    RequestRepeatedId
<1>2. ASSUME NEW c \in Call, TimerFires(c) PROVE Goal
  <2>1. HeldBy(idOf[c]) = {c} /\ {c} \subseteq InFlight /\ c \in Call
    BY <1>2, ArmedHolds, HolderInFlight DEF TimerFires
  <2>2. SettleAfter({c}, {c}, {}, "timeout") /\ disposed' = disposed
    BY <1>2, <2>1 DEF TimerFires
  <2>3. Settles({c})
    BY <1>0, <2>1, <2>2 DEF Settles
  <2>4. QED
    BY <2>1, <2>2, <2>3
<1>3. ASSUME NEW c \in Call, SendRejects(c) PROVE Goal
  <2>1. HeldBy(idOf[c]) \subseteq InFlight
    BY <1>3, HolderInFlight DEF SendRejects, IInv, SentHasId
  <2>2. SettleAfter(HeldBy(idOf[c]), {}, {}, "unavailable") /\ disposed' = disposed
    BY <1>3 DEF SendRejects, Fail
  <2>3. QED
    BY <1>0, <2>1, <2>2 DEF Settles
<1>4. ASSUME NEW s \in Signal, Abort(s) PROVE Goal
  <2> DEFINE hearing == {c \in listeners : signalOf[c] = s}
  <2>1. UNION {HeldBy(idOf[c]) : c \in hearing} = hearing
    BY ArmedHolds
  <2>2. hearing \subseteq InFlight /\ hearing \in SUBSET Call
    BY ArmedHolds, HolderInFlight
  <2>3. SettleAfter(hearing, {}, hearing, "aborted") /\ disposed' = disposed
    BY <1>4, <2>1 DEF Abort
  <2>4. QED
    BY <1>0, <2>2, <2>3 DEF Settles
<1>5. ASSUME NEW q \in Call, NEW m \in Method,
             NEW how \in {"resolved", "remote_error"}, Receive(q, m, how)
      PROVE  Goal
  <2>1. HeldBy(idOf[q]) \subseteq InFlight
    BY <1>5, HolderInFlight DEF Receive, IInv, SentHasId
  <2>2. SettleAfter(HeldBy(idOf[q]), {}, {}, ReplyStatus(idOf[q], m, how))
    BY <1>5 DEF Receive, Fail
  <2>3. ReplyStatus(idOf[q], m, how) \in Settled
    BY <1>0 DEF ReplyStatus
  <2>4. QED
    BY <1>5, <2>1, <2>2, <2>3 DEF Settles, Receive
<1>6. ASSUME NEW i \in Id, ReceiveMalformed(i) PROVE Goal
  BY <1>0, <1>6, HolderInFlight DEF ReceiveMalformed, Fail, Settles
<1>7. QED
  BY <1>1, <1>2, <1>3, <1>4, <1>5, <1>6 DEF Next, SendFulfils

(* No handler settles a promise a second time: what a settled call came to *)
(* stays, whichever of reply, timer, abort, send failure and dispose()     *)
(* comes next.                                                             *)
THEOREM SettlesOnce == Spec => SettledOnce
<1> DEFINE Keeps == \A c \in Call : outcome[c] \in Settled => outcome'[c] = outcome[c]
<1>1. "idle" \notin Settled /\ "waiting" \notin Settled /\ "unavailable" \in Settled
  BY DEF Settled, Rejection
<1>2. ASSUME IInv, Next PROVE Keeps
  <2>1. ASSUME NEW c \in Call, NEW how \in Settled, Refuse(c, how) PROVE Keeps
    BY <1>1, <1>2, <2>1 DEF Refuse, IInv, TypeOK
  <2>2. ASSUME NEW c \in Call, NEW i \in Id, NEW m \in Method,
               NEW s \in Signal \cup {None},
               RequestSend(c, i, m, s) \/ RequestSendThrows(c, i, m, s)
        PROVE  Keeps
    BY <1>1, <1>2, <2>2 DEF RequestSend, RequestSendThrows, Begin, IInv, TypeOK
  <2>3. ASSUME NEW S \in SUBSET InFlight, Settles(S) PROVE Keeps
    BY <1>2, <2>3, SettleStepsPhase DEF Settles
  <2>4. CASE Dispose /\ ~disposed
    <3>1. SettleAfter(InFlight, {}, {}, "unavailable")
      BY <2>4 DEF Dispose, ToFail
    <3>2. QED
      BY <1>1, <1>2, <3>1, SettleStepsPhase
  <2>5. CASE DisposeThrows \/ (Dispose /\ disposed) \/ outcome' = outcome
    BY <2>5 DEF DisposeThrows, Dispose
  <2>6. QED
    BY <1>2, <2>1, <2>2, <2>3, <2>4, <2>5, HandlersSettle
<1>3. IInv /\ [Next]_vars => [Keeps]_vars
  BY <1>2
<1>4. QED
  BY <1>3, InductiveInvariant, PTL DEF Spec, SettledOnce

(* A disposed client whose unsubscribe did not throw sends nothing and      *)
(* delivers no result: whatever still calls it finds nothing to settle.    *)
THEOREM DisposedIsQuiet == ASSUME ~UnsubscribeThrows PROVE Spec => QuietOnceDisposed
<1> DEFINE Quiet ==
      disposed => /\ reached' = reached
                  /\ \A c \in Call : outcome'[c] = "resolved" => outcome[c] = "resolved"
<1>1. ASSUME IInv, Next, disposed
      PROVE  reached' = reached /\ \A c \in Call : outcome'[c] = "resolved" => outcome[c] = "resolved"
  <2>1. InFlight = {} /\ timers = {} /\ listeners = {}
    BY <1>1 DEF IInv, ClosedIsEmpty, DisposedIsEmpty
  <2>2. \A i \in Id : HeldBy(i) = {}
    BY <2>1, HolderInFlight
  <2>3. \A T, L, how : SettleAfter({}, T, L, how) => \A c \in Call : outcome'[c] = outcome[c]
    BY DEF SettleAfter
  <2>4. ASSUME NEW c \in Call, Request(c)
        PROVE  reached' = reached /\ \A d \in Call : outcome'[d] = "resolved" => outcome[d] = "resolved"
    <3>1. PICK how \in {"unavailable", "thrown", "aborted"} : Refuse(c, how)
      BY <1>1, <2>4 DEF Request, RequestDisposed, RequestInvalid, RequestAborted, RequestRepeatedId,
         RequestSend, RequestSendThrows, Begin, Open
    <3>2. QED
      BY <1>1, <3>1 DEF Refuse, IInv, TypeOK
  <2>5. ASSUME NEW s \in Signal, Abort(s)
        PROVE  reached' = reached /\ \A c \in Call : outcome'[c] = outcome[c]
    <3>1. {c \in listeners : signalOf[c] = s} = {}
      BY <2>1
    <3>2. UNION {HeldBy(idOf[c]) : c \in {}} = {}
      OBVIOUS
    <3>3. SettleAfter({}, {}, {}, "aborted")
      BY <2>5, <3>1, <3>2 DEF Abort
    <3>4. QED
      BY <2>3, <2>5, <3>3 DEF Abort
  <2>6. ASSUME NEW c \in Call, SendRejects(c)
        PROVE  reached' = reached /\ \A d \in Call : outcome'[d] = outcome[d]
    <3>1. HeldBy(idOf[c]) = {}
      BY <1>1, <2>2, <2>6 DEF SendRejects, IInv, SentHasId
    <3>2. QED
      BY <2>3, <2>6, <3>1 DEF SendRejects, Fail
  <2>7. ASSUME NEW q \in Call, NEW m \in Method, NEW how \in {"resolved", "remote_error"}, Receive(q, m, how)
        PROVE  reached' = reached /\ \A c \in Call : outcome'[c] = outcome[c]
    <3>1. HeldBy(idOf[q]) = {}
      BY <1>1, <2>2, <2>7 DEF Receive, IInv, SentHasId
    <3>2. QED
      BY <2>3, <2>7, <3>1 DEF Receive, Fail
  <2>8. ASSUME NEW i \in Id, ReceiveMalformed(i)
        PROVE  reached' = reached /\ \A c \in Call : outcome'[c] = outcome[c]
    BY <2>2, <2>3, <2>8 DEF ReceiveMalformed, Fail
  <2>9. QED
    BY <1>1, <2>1, <2>4, <2>5, <2>6, <2>7, <2>8 DEF Next, TimerFires, SendFulfils, Dispose, DisposeThrows
<1>2. IInv /\ [Next]_vars => [Quiet]_vars
  BY <1>1
<1>3. QED
  BY <1>2, InductiveInvariant, PTL DEF Spec, QuietOnceDisposed

(* The safety part of the refinement: unless unsubscribe throws, every     *)
(* step of the client is a step of BridgeCalls or invisible to it.         *)
THEOREM ImplementsBridgeCalls ==
  ASSUME ~UnsubscribeThrows
  PROVE  Spec => Promise!Init /\ [][Promise!Next]_Promise!vars
<1>1. "idle" \notin Settled /\ "waiting" \notin Settled /\ "unavailable" \in Settled
  BY DEF Settled, Rejection
<1>2. Init => Promise!Init
  BY <1>1 DEF Init, Promise!Init, Phase
<1>3. ASSUME IInv, Next PROVE Promise!Next \/ UNCHANGED Promise!vars
  <2>1. ASSUME NEW c \in Call, NEW how \in Settled, Refuse(c, how)
        PROVE  Promise!Refuse(c)
    <3>1. Phase[c] = "idle" /\ Phase' = [Phase EXCEPT ![c] = "settled"]
      BY <1>1, <1>3, <2>1 DEF Refuse, Phase, IInv, TypeOK
    <3>2. QED
      BY <2>1, <3>1 DEF Refuse, Promise!Refuse
  <2>2. ASSUME NEW c \in Call, NEW i \in Id, NEW m \in Method,
               NEW s \in Signal \cup {None}, RequestSend(c, i, m, s)
        PROVE  Promise!Accept(c)
    <3>1. Phase[c] = "idle" /\ Phase' = [Phase EXCEPT ![c] = "waiting"]
      BY <1>1, <1>3, <2>2 DEF RequestSend, Begin, Phase, IInv, TypeOK
    <3>2. QED
      BY <2>2, <3>1 DEF RequestSend, Begin, Open, Promise!Accept
  <2>3. ASSUME NEW c \in Call, NEW i \in Id, NEW m \in Method,
               NEW s \in Signal \cup {None}, RequestSendThrows(c, i, m, s)
        PROVE  Promise!Refuse(c)
    <3>1. Phase[c] = "idle" /\ Phase' = [Phase EXCEPT ![c] = "settled"]
      BY <1>1, <1>3, <2>3 DEF RequestSendThrows, Begin, Phase, IInv, TypeOK
    <3>2. QED
      BY <2>3, <3>1 DEF RequestSendThrows, Begin, Promise!Refuse
  <2>4. ASSUME NEW S \in SUBSET InFlight, Settles(S), disposed' = disposed
        PROVE  Promise!Answer(S) \/ UNCHANGED Promise!vars
    <3>1. /\ S \subseteq {c \in Call : Phase[c] = "waiting"}
          /\ Phase' = [c \in Call |-> IF c \in S THEN "settled" ELSE Phase[c]]
      BY <1>3, <2>4, SettleStepsPhase DEF Settles
    <3>2. CASE S = {}
      <4>1. Phase' = Phase
        BY <3>1, <3>2 DEF Phase
      <4>2. QED
        BY <2>4, <4>1 DEF Promise!vars
    <3>3. CASE S # {}
      BY <2>4, <3>1, <3>3 DEF Promise!Answer, Promise!Waiting
    <3>4. QED
      BY <3>2, <3>3
  <2>5. CASE Dispose
    <3>1. {c \in Call : Phase[c] = "waiting"} \subseteq InFlight
      BY <1>1, <1>3, NoneAssumption DEF Phase, IInv, WaitingHolds, InFlight
    <3>2. CASE disposed
      <4>1. Phase' = Phase
        BY <2>5, <3>2 DEF Dispose, Phase
      <4>2. QED
        BY <2>5, <3>2, <4>1 DEF Dispose, Promise!vars
    <3>3. CASE ~disposed
      <4>1. SettleAfter(InFlight, {}, {}, "unavailable")
        BY <2>5, <3>3 DEF Dispose, ToFail
      <4>2. /\ InFlight \subseteq {c \in Call : Phase[c] = "waiting"}
            /\ Phase' = [c \in Call |-> IF c \in InFlight THEN "settled" ELSE Phase[c]]
        BY <1>1, <1>3, <4>1, SettleStepsPhase
      <4>3. InFlight = Promise!Waiting
        BY <3>1, <4>2 DEF Promise!Waiting
      <4>4. Promise!Close
        BY <2>5, <4>2, <4>3 DEF Dispose, Promise!Close
      <4>5. QED
        BY <4>4 DEF Promise!Next
    <3>4. QED
      BY <3>2, <3>3
  <2>6. CASE outcome' = outcome /\ disposed' = disposed
    BY <2>6 DEF Promise!vars, Phase
  <2>7. ~DisposeThrows
    BY DEF DisposeThrows
  <2>8. \A S \in SUBSET InFlight : S \in SUBSET Call
    BY <1>3, InFlightWaits
  <2>9. QED
    BY <1>3, <2>1, <2>2, <2>3, <2>4, <2>5, <2>6, <2>7, <2>8, HandlersSettle
       DEF Promise!Next
<1>4. IInv /\ [Next]_vars => [Promise!Next]_Promise!vars
  <2>1. UNCHANGED vars => UNCHANGED Promise!vars
    BY DEF vars, arguments, Promise!vars, Phase
  <2>2. QED
    BY <1>3, <2>1
<1>5. QED
  BY <1>2, <1>4, InductiveInvariant, PTL DEF Spec
=============================================================================
