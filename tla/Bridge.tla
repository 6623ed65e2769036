------------------------------- MODULE Bridge -------------------------------
(***************************************************************************)
(* The SDK client of packages/sdk-js/src/client.ts: request() calls that   *)
(* share one map of in-flight requests, settled by native replies, timers, *)
(* abort signals, failing sends and dispose().                             *)
(*                                                                         *)
(* JavaScript runs every handler to completion, so a handler is an action. *)
(* What interleaves is the order of handlers: a reply may come late, twice *)
(* or never, a send promise may reject long after its request was settled, *)
(* and the id factory may hand out an id again once it is out of flight.   *)
(* A reply delivered inside send() is a Receive right after the Request.   *)
(* The closures of request() capture the id and not the map entry, so the  *)
(* model, too, looks the entry up by id when a closure runs.               *)
(***************************************************************************)
EXTENDS FiniteSets

CONSTANTS
  Call,               \* the request() invocations
  Id,                 \* the strings the id factory may return
  Method,             \* bridge methods
  Signal,             \* AbortSignals, possibly shared by several calls
  None,               \* no entry, no signal, no id
  FreshIds,           \* does the id factory never repeat itself (randomUUID)?
  UnsubscribeThrows   \* may the transport's unsubscribe function throw?

ASSUME NoneAssumption == None \notin Call \cup Id \cup Method \cup Signal
ASSUME SwitchAssumption == FreshIds \in BOOLEAN /\ UnsubscribeThrows \in BOOLEAN

VARIABLES
  pending,     \* #pending: the call that holds each id, or None
  disposed,    \* #disposed
  timers,      \* calls whose timeout is armed
  listeners,   \* calls whose abort listener is registered on their signal
  sends,       \* calls whose send() promise has not settled yet
  aborted,     \* signals that have fired
  idOf,        \* the id a call's closures captured
  methodOf,    \* the method of a call
  signalOf,    \* the signal of a call, or None
  reached,     \* requests that got to the native side, which may answer them
  outcome,     \* what the caller's promise has come to
  answeredBy   \* the request whose native reply settled a call, or None

vars == <<pending, disposed, timers, listeners, sends, aborted, idOf, methodOf,
          signalOf, reached, outcome, answeredBy>>

arguments == <<idOf, methodOf, signalOf>>

Rejection == {"remote_error", "timeout", "aborted", "unavailable", "protocol_error"}
Settled == Rejection \cup {"resolved", "thrown"}

TypeOK ==
  /\ pending \in [Id -> Call \cup {None}]
  /\ disposed \in BOOLEAN
  /\ timers \subseteq Call /\ listeners \subseteq Call
  /\ sends \subseteq Call /\ reached \subseteq Call
  /\ aborted \subseteq Signal
  /\ idOf \in [Call -> Id \cup {None}]
  /\ methodOf \in [Call -> Method \cup {None}]
  /\ signalOf \in [Call -> Signal \cup {None}]
  /\ outcome \in [Call -> {"idle", "waiting"} \cup Settled]
  /\ answeredBy \in [Call -> Call \cup {None}]

Init ==
  /\ pending = [i \in Id |-> None]
  /\ disposed = FALSE
  /\ timers = {} /\ listeners = {} /\ sends = {} /\ reached = {}
  /\ aborted = {}
  /\ idOf = [c \in Call |-> None]
  /\ methodOf = [c \in Call |-> None]
  /\ signalOf = [c \in Call |-> None]
  /\ outcome = [c \in Call |-> "idle"]
  /\ answeredBy = [c \in Call |-> None]

InFlight == {pending[i] : i \in Id} \ {None}

HeldBy(i) == {pending[i]} \ {None}

-----------------------------------------------------------------------------
(* Seeded faults: variants of the definitions below that a slip in the     *)
(* code would amount to.                                                   *)

OpenUnchecked == TRUE
NewIdInFlight == Id
NewIdReused == {i \in Id : pending[i] = None}
LiveSignalUnchecked == Signal \cup {None}
EntriesKept(S) == pending
TimersKept(S, ran) == timers \ ran
ArmedNever(c) == timers
ToFailNone == {}

-----------------------------------------------------------------------------
(* #clearPending and the resolve or reject that follows it.                *)

EntriesLeft(S) == [i \in Id |-> IF pending[i] \in S THEN None ELSE pending[i]]

(* ran: timers that have just run, so that they are no longer armed.       *)
TimersLeft(S, ran) == timers \ (S \cup ran)

(* ran: listeners that have just run; they are registered with once.       *)
ListenersLeft(S, ran) == listeners \ (S \cup ran)

SettleAfter(S, ranTimers, ranListeners, how) ==
  /\ pending' = EntriesLeft(S)
  /\ timers' = TimersLeft(S, ranTimers)
  /\ listeners' = ListenersLeft(S, ranListeners)
  /\ outcome' = [c \in Call |-> IF c \in S THEN how ELSE outcome[c]]

Fail(i, how) == SettleAfter(HeldBy(i), {}, {}, how)

-----------------------------------------------------------------------------
(* request()                                                               *)

Open == ~disposed

(* Every early exit of request(): the promise is rejected, or an exception *)
(* is thrown, and the client's own state does not change.                  *)
Refuse(c, how) ==
  /\ outcome[c] = "idle"
  /\ outcome' = [outcome EXCEPT ![c] = how]
  /\ UNCHANGED <<pending, disposed, timers, listeners, sends, aborted,
                 arguments, reached, answeredBy>>

RequestDisposed(c) == ~Open /\ Refuse(c, "unavailable")

(* Parameters, timeout, id syntax or size of the encoded message.          *)
RequestInvalid(c) == Open /\ Refuse(c, "thrown")

RequestAborted(c) == Open /\ aborted # {} /\ Refuse(c, "aborted")

(* The factory returned an id in flight four times in a row.               *)
RequestRepeatedId(c) ==
  Open /\ ~FreshIds /\ InFlight # {} /\ Refuse(c, "thrown")

(* The ids the loop of request() can end with.                             *)
NewId ==
  {i \in Id : /\ pending[i] = None
              /\ FreshIds => \A c \in Call : idOf[c] # i}

(* The signals request() lets through.                                     *)
LiveSignal == (Signal \ aborted) \cup {None}

Armed(c) == timers \cup {c}

(* What both outcomes of calling send() have in common. The request may    *)
(* get to the native side or be lost.                                      *)
Begin(c, i, m, s) ==
  /\ Open
  /\ outcome[c] = "idle"
  /\ i \in NewId /\ s \in LiveSignal
  /\ idOf' = [idOf EXCEPT ![c] = i]
  /\ methodOf' = [methodOf EXCEPT ![c] = m]
  /\ signalOf' = [signalOf EXCEPT ![c] = s]
  /\ reached' \in {reached, reached \cup {c}}
  /\ UNCHANGED <<disposed, aborted, answeredBy>>

(* send() returns nothing, or a promise that settles later.                *)
RequestSend(c, i, m, s) ==
  /\ Begin(c, i, m, s)
  /\ pending' = [pending EXCEPT ![i] = c]
  /\ timers' = Armed(c)
  /\ listeners' = IF s = None THEN listeners ELSE listeners \cup {c}
  /\ sends' \in {sends, sends \cup {c}}
  /\ outcome' = [outcome EXCEPT ![c] = "waiting"]

(* send() throws: the entry made a moment ago is failed at once, although  *)
(* the message may have left.                                              *)
RequestSendThrows(c, i, m, s) ==
  /\ Begin(c, i, m, s)
  /\ outcome' = [outcome EXCEPT ![c] = "unavailable"]
  /\ UNCHANGED <<pending, timers, listeners, sends>>

-----------------------------------------------------------------------------
(* The closures request() leaves behind. Each one fails whatever call is   *)
(* registered under its id when it runs.                                   *)

TimerFires(c) ==
  /\ c \in timers
  /\ SettleAfter(HeldBy(idOf[c]), {c}, {}, "timeout")
  /\ UNCHANGED <<disposed, sends, aborted, arguments, reached, answeredBy>>

(* One event runs the listeners of every call that shares the signal.      *)
Abort(s) ==
  LET hearing == {c \in listeners : signalOf[c] = s} IN
  /\ s \notin aborted
  /\ aborted' = aborted \cup {s}
  /\ SettleAfter(UNION {HeldBy(idOf[c]) : c \in hearing}, {}, hearing, "aborted")
  /\ UNCHANGED <<disposed, sends, arguments, reached, answeredBy>>

SendFulfils(c) ==
  /\ c \in sends
  /\ sends' = sends \ {c}
  /\ UNCHANGED <<pending, disposed, timers, listeners, aborted, arguments,
                 reached, outcome, answeredBy>>

SendRejects(c) ==
  /\ c \in sends
  /\ sends' = sends \ {c}
  /\ Fail(idOf[c], "unavailable")
  /\ UNCHANGED <<disposed, aborted, arguments, reached, answeredBy>>

-----------------------------------------------------------------------------
(* #receive(). A request that got to the native side may be answered late, *)
(* repeatedly, and out of order. The listener also runs after unsubscribe: *)
(* nothing makes a transport stop a delivery that is under way.            *)

(* The request in flight under the id was made for another method.         *)
ReplyStatus(i, m, how) ==
  IF \E c \in HeldBy(i) : methodOf[c] # m THEN "protocol_error" ELSE how

(* A well-formed reply to request q that names method m.                   *)
Receive(q, m, how) ==
  LET i == idOf[q] IN
  /\ q \in reached
  /\ Fail(i, ReplyStatus(i, m, how))
  /\ answeredBy' = [c \in Call |-> IF c \in HeldBy(i) THEN q ELSE answeredBy[c]]
  /\ UNCHANGED <<disposed, sends, aborted, arguments, reached>>

(* A reply that is JSON with a readable id but not a valid envelope. One   *)
(* that is not even that only reaches onProtocolError: a stutter here.     *)
ReceiveMalformed(i) ==
  /\ Fail(i, "protocol_error")
  /\ UNCHANGED <<disposed, sends, aborted, arguments, reached, answeredBy>>

-----------------------------------------------------------------------------
(* dispose()                                                               *)

(* The requests the loop of dispose() fails.                               *)
ToFail == InFlight

Dispose ==
  /\ disposed' = TRUE
  /\ IF disposed
     THEN UNCHANGED <<pending, timers, listeners, outcome>>
     ELSE SettleAfter(ToFail, {}, {}, "unavailable")
  /\ UNCHANGED <<sends, aborted, arguments, reached, answeredBy>>

(* #unsubscribe() throws out of dispose() before the loop over #pending.   *)
DisposeThrows ==
  /\ UnsubscribeThrows
  /\ ~disposed
  /\ disposed' = TRUE
  /\ UNCHANGED <<pending, timers, listeners, outcome, sends, aborted, arguments,
                 reached, answeredBy>>

-----------------------------------------------------------------------------
Request(c) ==
  \/ RequestDisposed(c)
  \/ RequestInvalid(c)
  \/ RequestAborted(c)
  \/ RequestRepeatedId(c)
  \/ \E i \in Id, m \in Method, s \in Signal \cup {None} :
       RequestSend(c, i, m, s) \/ RequestSendThrows(c, i, m, s)

Next ==
  \/ \E c \in Call : Request(c) \/ TimerFires(c) \/ SendFulfils(c) \/ SendRejects(c)
  \/ \E s \in Signal : Abort(s)
  \/ \E q \in Call, m \in Method, how \in {"resolved", "remote_error"} :
       Receive(q, m, how)
  \/ \E i \in Id : ReceiveMalformed(i)
  \/ Dispose
  \/ DisposeThrows

(* The host's event loop runs an armed timer sooner or later; nothing else *)
(* is promised: not that the native side answers, nor that send() settles. *)
Fairness == \A c \in Call : WF_vars(TimerFires(c))

Spec == Init /\ [][Next]_vars /\ Fairness

-----------------------------------------------------------------------------
(* Properties                                                              *)

(* A caller that is still waiting holds the entry of its id and has an     *)
(* armed timer: #clearPending, the four kinds of closure and dispose()     *)
(* never leave a promise behind that nothing will settle.                  *)
NoStrandedCall ==
  \A c \in Call : outcome[c] = "waiting" => pending[idOf[c]] = c /\ c \in timers

(* An armed timer or a registered abort listener belongs to the call that  *)
(* holds its id: no closure outlives its call to fail a later one that got *)
(* the same id, and nothing stays registered on a caller's AbortSignal.    *)
ClosuresDieWithCall ==
  \A c \in timers \cup listeners : outcome[c] = "waiting" /\ pending[idOf[c]] = c

(* Once a signal has fired no call made with it is in flight, whether the  *)
(* event came before request() or while the request was out.               *)
AbortReachesAll ==
  \A c \in Call : signalOf[c] \in aborted => outcome[c] # "waiting"

(* dispose() leaves nothing in flight and nothing armed. An unsubscribe    *)
(* function that throws breaks this: see the run dispose_throws.           *)
DisposedIsEmpty == disposed => InFlight = {} /\ timers = {} /\ listeners = {}

(* A result, or an error reported by the native side, goes to the request  *)
(* that the native side answered, however late, repeated or reordered its  *)
(* replies are ("A late native reply is ignored", sdk-js README). It rests *)
(* on ids that never repeat: see the run late_reply.                       *)
RepliesReachTheirCall == \A c \in Call : answeredBy[c] \in {None, c}

(* A send promise that has not settled can only fail its own request: the  *)
(* id it captured is held by that request or by nobody.                    *)
SendFailsItsOwnCall == \A c \in sends : HeldBy(idOf[c]) \subseteq {c}

(* A call is settled once: no handler resolves or rejects a promise that   *)
(* was settled before, and no settled call is issued again.                *)
SettledOnce ==
  [][\A c \in Call : outcome[c] \in Settled => outcome'[c] = outcome[c]]_vars

(* A disposed client sends nothing and delivers no result, although the    *)
(* transport may go on calling its listener.                               *)
QuietOnceDisposed ==
  [][disposed => /\ reached' = reached
                 /\ \A c \in Call : outcome'[c] = "resolved" => outcome[c] = "resolved"]_vars

Phase ==
  [c \in Call |-> IF outcome[c] \in Settled THEN "settled" ELSE outcome[c]]

Promise == INSTANCE BridgeCalls WITH phase <- Phase, closed <- disposed

(* The client keeps the promise of BridgeCalls.                            *)
KeepsPromise == Promise!Spec
=============================================================================
