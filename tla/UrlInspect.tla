----------------------------- MODULE UrlInspect -----------------------------
(***************************************************************************)
(* inspectUrl of packages/analyzer/src/url.ts: fetch a page, following at  *)
(* most three redirects, without ever connecting to an address that is not *)
(* public or to an origin that was not allowed.                            *)
(*                                                                         *)
(* The network is hostile: a name server may answer every query anew, a    *)
(* server may redirect anywhere, send a body of any length, or fall silent.*)
(* The deadline may fire between any two of these steps.                   *)
(***************************************************************************)
EXTENDS Naturals, Sequences

CONSTANTS
  Url,            \* URLs a caller may pass or a server may redirect to
  CleanUrl,       \* those with https, port 443 and no credentials
  OriginOf,       \* the origin of each URL
  AllowedOrigin,  \* the allowedOrigins argument
  Address,        \* IP addresses
  PublicAddress,  \* those isPublicAddress accepts
  BodyLimit,      \* the 2 MiB limit, counted in chunks
  MaxAnswer,      \* the most addresses a name server returns (a bound)
  None            \* no Location header, no address

ASSUME ConstantsAssumption ==
  /\ CleanUrl \subseteq Url /\ PublicAddress \subseteq Address
  /\ BodyLimit \in Nat /\ MaxAnswer \in Nat
  /\ None \notin Url \cup Address

VARIABLES
  pc,        \* where the function is: see TypeOK
  url,       \* the URL of this hop
  redirects, \* the loop counter
  answer,    \* what the resolver said for this hop
  pinned,    \* the address the connection of this hop goes to
  visited,   \* history: every <<url, address>> connected to
  response,  \* the status class and Location header of this hop
  bytes,     \* chunks of the body received in this hop
  aborted    \* has AbortSignal.timeout fired?

vars == <<pc, url, redirects, answer, pinned, visited, response, bytes, aborted>>

Response == [redirect : BOOLEAN, location : Url \cup {None}]
NoResponse == [redirect |-> FALSE, location |-> None]

Answers == UNION {[1..n -> Address] : n \in 0..MaxAnswer}

Working == {"resolving", "resolved", "connecting", "streaming", "destroyed"}

TypeOK ==
  /\ pc \in Working \cup {"start", "accepted", "rejected"}
  /\ url \in Url \cup {None}
  /\ redirects \in 0..3
  /\ answer \in Seq(Address)
  /\ pinned \in Address \cup {None}
  /\ visited \subseteq Url \X Address
  /\ response \in Response
  /\ bytes \in 0..BodyLimit + 1
  /\ aborted \in BOOLEAN

Init ==
  /\ pc = "start" /\ url = None /\ redirects = 0
  /\ answer = <<>> /\ pinned = None /\ visited = {}
  /\ response = NoResponse /\ bytes = 0 /\ aborted = FALSE

-----------------------------------------------------------------------------
(* Seeded faults.                                                          *)

TargetUnchecked(u) == u \in CleanUrl
FirstPublic(a) == Len(a) > 0 /\ a[1] \in PublicAddress
ChunkPhaseLate(n) == IF n > BodyLimit + 1 THEN "destroyed" ELSE "streaming"
CutOffNever == {"start"}
GuardNone == TRUE

-----------------------------------------------------------------------------
(* validateTarget()                                                        *)
Target(u) == u \in CleanUrl /\ OriginOf[u] \in AllowedOrigin

(* Every address of the answer must be public, not only the one used.      *)
AllPublic(a) == Len(a) > 0 /\ \A n \in DOMAIN a : a[n] \in PublicAddress

(* The addresses the connection may go to: the lookup option answers the   *)
(* socket with the first address checked, whatever DNS says by then.       *)
Pin(a) == {a[1]}

Reject ==
  /\ pc' = "rejected"
  /\ UNCHANGED <<url, redirects, answer, pinned, visited, response, bytes, aborted>>

(* The head of the loop: go to u and ask the resolver.                     *)
Hop(u) ==
  /\ pc' = "resolving"
  /\ url' = u
  /\ answer' = <<>> /\ pinned' = None /\ response' = NoResponse /\ bytes' = 0
  /\ UNCHANGED <<visited, aborted>>

Start(u) ==
  /\ pc = "start"
  /\ IF Target(u) THEN Hop(u) /\ UNCHANGED redirects ELSE Reject

Resolve(a) ==
  /\ pc = "resolving"
  /\ pc' = "resolved"
  /\ answer' = a
  /\ UNCHANGED <<url, redirects, pinned, visited, response, bytes, aborted>>

ResolveFails == pc = "resolving" /\ Reject

(* signal.throwIfAborted()                                                 *)
InTime == ~aborted

(* After the await: the deadline may have passed meanwhile.                *)
Connect ==
  /\ pc = "resolved"
  /\ IF InTime /\ AllPublic(answer)
     THEN \E address \in Pin(answer) :
            /\ pc' = "connecting"
            /\ pinned' = address
            /\ visited' = visited \cup {<<url, address>>}
            /\ UNCHANGED <<url, redirects, answer, response, bytes, aborted>>
     ELSE Reject

Respond(r) ==
  /\ pc = "connecting"
  /\ pc' = "streaming"
  /\ response' = r
  /\ UNCHANGED <<url, redirects, answer, pinned, visited, bytes, aborted>>

(* The connection fails, at any point of the exchange.                     *)
RequestError == pc \in {"connecting", "streaming"} /\ Reject

(* Where a response stands when n chunks of its body have arrived.         *)
ChunkPhase(n) == IF n > BodyLimit THEN "destroyed" ELSE "streaming"

Chunk ==
  /\ pc = "streaming"
  /\ bytes' = bytes + 1
  /\ pc' = ChunkPhase(bytes')
  /\ UNCHANGED <<url, redirects, answer, pinned, visited, response, aborted>>

(* A destroyed response emits its error and never its end.                 *)
DestroyedError == pc = "destroyed" /\ Reject

Exhausted(n) == n = 3

End ==
  /\ pc = "streaming"
  /\ IF ~response.redirect
     THEN /\ pc' = "accepted"
          /\ UNCHANGED <<url, redirects, answer, pinned, visited, response, bytes, aborted>>
     ELSE IF response.location = None \/ Exhausted(redirects) \/ ~Target(response.location)
          THEN Reject
          ELSE Hop(response.location) /\ redirects' = redirects + 1

(* Where the signal ends the inspection at once: it rejects the race with  *)
(* the resolver, and it aborts the request. A resolver that has answered   *)
(* leaves it to Connect to look.                                           *)
CutOff == {"resolving", "connecting", "streaming", "destroyed"}

Deadline ==
  /\ ~aborted /\ pc \in Working
  /\ aborted' = TRUE
  /\ pc' = IF pc \in CutOff THEN "rejected" ELSE pc
  /\ UNCHANGED <<url, redirects, answer, pinned, visited, response, bytes>>

Terminated == pc \in {"accepted", "rejected"} /\ UNCHANGED vars

Next ==
  \/ \E u \in Url : Start(u)
  \/ \E a \in Answers : Resolve(a)
  \/ ResolveFails
  \/ Connect
  \/ \E r \in Response : Respond(r)
  \/ RequestError
  \/ Chunk
  \/ DestroyedError
  \/ End
  \/ Deadline
  \/ Terminated

(* The platform's timer fires, and continuations of promises that have     *)
(* settled run. Name servers and web servers promise nothing.              *)
Fairness == WF_vars(Deadline) /\ WF_vars(Connect) /\ WF_vars(DestroyedError)

Spec == Init /\ [][Next]_vars /\ Fairness

-----------------------------------------------------------------------------
(* Properties                                                              *)

(* Every connection, after any chain of redirects and whatever DNS answers *)
(* from one query to the next, goes to a public address and asks for a URL *)
(* of an allowed origin.                                                   *)
ConnectsOnlyWhereAllowed ==
  \A v \in visited :
    v[1] \in CleanUrl /\ OriginOf[v[1]] \in AllowedOrigin /\ v[2] \in PublicAddress

(* The address in use is one the resolver gave for this very hop, and      *)
(* every other address it gave was public, too: no second lookup happens   *)
(* between the check and the connection, and a name with one private       *)
(* address is refused whichever one would be used.                         *)
PinnedWasChecked ==
  pinned # None =>
    /\ \E n \in DOMAIN answer : answer[n] = pinned
    /\ \A n \in DOMAIN answer : answer[n] \in PublicAddress

(* Once the deadline has passed no connection is opened.                   *)
NoConnectionAfterDeadline == [][aborted => visited' = visited]_vars

(* A page is reported only if no more than the limit was read of it and it *)
(* is not a redirect, so that a response that was cut off for its length   *)
(* is never taken for the page.                                            *)
AcceptedWithinLimit ==
  pc = "accepted" => bytes <= BodyLimit /\ ~response.redirect

(* The inspection ends although servers may never answer.                  *)
Settles == pc # "start" ~> pc \in {"accepted", "rejected"}
=============================================================================
