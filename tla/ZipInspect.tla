----------------------------- MODULE ZipInspect -----------------------------
(***************************************************************************)
(* inspectZip of packages/analyzer/src/zip.ts: read the entries of an      *)
(* archive one after the other, stream each one, and settle one promise.   *)
(*                                                                         *)
(* The archive is hostile. The zip library reports by callbacks, any of    *)
(* which may come after the deadline has settled the promise and closed    *)
(* the archive: a closed archive opens no stream, but a stream that was    *)
(* asked for before is opened and read to its end. Sizes are counted in chunks; a path is the sequence of its *)
(* lower-cased segments.                                                   *)
(***************************************************************************)
EXTENDS Naturals, FiniteSets, SequencesExt

CONSTANTS
  Archive,    \* the archives to inspect: sequences of entries
  MaxFiles,   \* 2000 entries
  MaxEntry,   \* 8 MiB, in chunks
  MaxTotal,   \* 64 MiB, in chunks
  Index       \* the path of index.html

Entries ==
  [path : Seq(STRING), dir : BOOLEAN, safeName : BOOLEAN, ok : BOOLEAN, size : Nat,
   crcMatches : BOOLEAN]

ASSUME LimitsAssumption ==
  /\ MaxFiles \in Nat /\ MaxEntry \in Nat /\ MaxTotal \in Nat
  /\ Archive \subseteq Seq(Entries)

VARIABLES
  archive,    \* the archive under inspection
  cursor,     \* how many entries the library has emitted
  phase,      \* what the library is doing: see Phases
  bytes,      \* chunks of the current entry so far
  files,      \* entries counted
  total,      \* chunks of all entries so far
  names,      \* the paths seen
  fileNames,  \* the paths of files seen
  armed,      \* is the deadline timer armed?
  result      \* "none" until the promise is settled

vars == <<archive, cursor, phase, bytes, files, total, names, fileNames, armed, result>>

(* unread: the central directory is being read; reading: readEntry() is    *)
(* under way; opening: openReadStream() is; destroyed: the stream will     *)
(* emit its error next; idle: nothing will come.                           *)
Phases == {"unread", "reading", "opening", "streaming", "destroyed", "idle"}

TypeOK ==
  /\ archive \in Archive
  /\ cursor \in 0..Len(archive)
  /\ phase \in Phases
  /\ bytes \in Nat /\ files \in Nat /\ total \in Nat
  /\ fileNames \subseteq names
  /\ names \subseteq {archive[n].path : n \in 1..cursor}
  /\ armed \in BOOLEAN
  /\ result \in {"none", "accepted", "rejected"}

Init ==
  /\ archive \in Archive
  /\ cursor = 0 /\ phase = "unread"
  /\ bytes = 0 /\ files = 0 /\ total = 0
  /\ names = {} /\ fileNames = {}
  /\ armed = FALSE /\ result = "none"

ProperPrefix(p, q) == IsStrictPrefix(p, q)

-----------------------------------------------------------------------------
(* Seeded faults.                                                          *)

CollidesUnder(e) == \E f \in fileNames : ProperPrefix(f, e.path)
OverLimitsLate(n, e) == n > MaxFiles + 1 \/ e.size > MaxEntry
ExpandedEntryOnly(t, b) == b > MaxEntry
NextPhaseUnchecked == "reading"
DeadlineFailNothing == result

-----------------------------------------------------------------------------
(* fail(): the first reason settles the promise and closes the archive.    *)
Failed == IF result = "none" THEN "rejected" ELSE result

(* cleanup() comes before every fail() but the deadline's own.             *)
Disarmed == FALSE

Abandon ==
  /\ phase' = "idle"
  /\ armed' = Disarmed
  /\ result' = Failed

(* fromBuffer() calls back: only now is the timer armed.                   *)
Open ==
  /\ phase = "unread"
  /\ phase' = "reading" /\ armed' = TRUE
  /\ UNCHANGED <<archive, cursor, bytes, files, total, names, fileNames, result>>

(* More than 32 MiB, or no archive at all.                                 *)
OpenFails ==
  /\ phase = "unread"
  /\ phase' = "idle" /\ result' = "rejected"
  /\ UNCHANGED <<archive, cursor, bytes, files, total, names, fileNames, armed>>

Entry == archive[cursor]

(* A path seen before; a file where another path needs a directory, on     *)
(* either side.                                                            *)
Collides(e) ==
  \/ \E f \in fileNames : ProperPrefix(f, e.path)
  \/ ~e.dir /\ \E p \in names : ProperPrefix(e.path, p)

OverLimits(n, e) == n > MaxFiles \/ e.size > MaxEntry

(* The library refuses to open a stream of an archive that was closed; it  *)
(* looks at this when openReadStream() is called and not again.            *)
Closed == result # "none"

(* names.add() comes before the checks of the entry's kind and size.       *)
NamesAfter(e, clash) == IF clash THEN names ELSE names \cup {e.path}

(* The entry listener. It also runs if the deadline struck while the       *)
(* library was reading. safeName stands for validateEntryName(), ok for    *)
(* the entry's kind, encryption, compression method and ratio.             *)
EntryArrives ==
  /\ phase = "reading" /\ cursor < Len(archive)
  /\ cursor' = cursor + 1
  /\ LET e == archive[cursor + 1]
         clash == ~e.safeName \/ e.path \in names \/ Collides(e)
     IN /\ names' = NamesAfter(e, clash)
        /\ fileNames' = IF clash \/ e.dir THEN fileNames ELSE fileNames \cup {e.path}
        /\ files' = IF clash \/ ~e.ok THEN files ELSE files + 1
        /\ IF clash \/ ~e.ok \/ OverLimits(files', e) \/ Closed
           THEN Abandon
           ELSE phase' = "opening" /\ UNCHANGED <<armed, result>>
  /\ UNCHANGED <<archive, bytes, total>>

(* The library cannot read the next entry.                                 *)
ZipError ==
  /\ phase = "reading"
  /\ Abandon
  /\ UNCHANGED <<archive, cursor, bytes, files, total, names, fileNames>>

(* The callback of openReadStream(), which does not ask whether the        *)
(* promise was settled meanwhile.                                          *)
StreamOpens ==
  /\ phase = "opening"
  /\ phase' = "streaming" /\ bytes' = 0
  /\ UNCHANGED <<archive, cursor, files, total, names, fileNames, armed, result>>

StreamOpenFails ==
  /\ phase = "opening"
  /\ Abandon
  /\ UNCHANGED <<archive, cursor, bytes, files, total, names, fileNames>>

Expanded(t, b) == t > MaxTotal \/ b > MaxEntry

(* The library lets no more through than the entry declares.               *)
Data ==
  /\ phase = "streaming" /\ bytes < Entry.size
  /\ bytes' = bytes + 1 /\ total' = total + 1
  /\ phase' = IF Expanded(total', bytes') THEN "destroyed" ELSE "streaming"
  /\ UNCHANGED <<archive, cursor, files, names, fileNames, armed, result>>

(* Data the library refuses, or the error of a stream that was destroyed.  *)
StreamError ==
  /\ phase \in {"streaming", "destroyed"}
  /\ Abandon
  /\ UNCHANGED <<archive, cursor, bytes, files, total, names, fileNames>>

(* Whether the end of a stream asks for another entry.                     *)
NextPhase == IF result = "none" THEN "reading" ELSE "idle"

StreamEnd ==
  /\ phase = "streaming" /\ bytes = Entry.size
  /\ IF Entry.crcMatches
     THEN phase' = NextPhase /\ UNCHANGED <<armed, result>>
     ELSE Abandon
  /\ UNCHANGED <<archive, cursor, bytes, files, total, names, fileNames>>

(* resolve() of a complete archive with an index, unless it was settled.   *)
Completed == IF result = "none" /\ Index \in fileNames THEN "accepted" ELSE Failed

(* The end listener.                                                       *)
ArchiveEnd ==
  /\ phase = "reading" /\ cursor = Len(archive)
  /\ phase' = "idle"
  /\ armed' = Disarmed
  /\ result' = Completed
  /\ UNCHANGED <<archive, cursor, bytes, files, total, names, fileNames>>

DeadlineFail == Failed

(* The timer: whatever the library is doing goes on.                       *)
Deadline ==
  /\ armed
  /\ armed' = FALSE
  /\ result' = DeadlineFail
  /\ UNCHANGED <<archive, cursor, phase, bytes, files, total, names, fileNames>>

Terminated == phase = "idle" /\ ~armed /\ UNCHANGED vars

Next ==
  \/ Open \/ OpenFails \/ EntryArrives \/ ZipError \/ StreamOpens \/ StreamOpenFails \/ Data
  \/ StreamError \/ StreamEnd \/ ArchiveEnd \/ Deadline \/ Terminated

(* The event loop runs the timer, and opening an archive in memory calls   *)
(* back; after that the library may hang in any phase.                     *)
Fairness == WF_vars(Deadline) /\ WF_vars(Open \/ OpenFails)

Spec == Init /\ [][Next]_vars /\ Fairness

-----------------------------------------------------------------------------
(* Properties                                                              *)

(* An accepted archive is a tree: no two entries share a path and no file  *)
(* lies on the way to another entry, in whatever order they are listed.    *)
AcceptedIsTree ==
  result = "accepted" =>
    \A j, k \in 1..Len(archive) : j # k =>
      /\ archive[j].path # archive[k].path
      /\ ProperPrefix(archive[j].path, archive[k].path) => archive[j].dir

(* An accepted archive was read to its end: all its entries, each verified *)
(* and within the limits, an index among them.                             *)
AcceptedIsVerified ==
  result = "accepted" =>
    /\ cursor = Len(archive) /\ files = cursor /\ files <= MaxFiles
    /\ \A n \in 1..cursor :
         LET e == archive[n] IN e.safeName /\ e.ok /\ e.crcMatches /\ e.size <= MaxEntry
    /\ total <= MaxTotal
    /\ \E n \in 1..cursor : archive[n].path = Index /\ ~archive[n].dir

(* The chunks that the first n entries of an archive declare, for every n. *)
Declared(a) ==
  LET sum[n \in 0..Len(a)] == IF n = 0 THEN 0 ELSE sum[n - 1] + a[n].size
  IN  sum

(* And every byte was read that the entries declare.                       *)
AcceptedIsComplete ==
  /\ AcceptedIsVerified
  /\ result = "accepted" => total = Declared(archive)[Len(archive)]

(* However much the archive expands to, no more than one chunk beyond the  *)
(* limit is ever inflated, even when the deadline strikes in between.      *)
ExpansionBounded == total <= MaxTotal + 1

(* Once the promise is settled, the one entry that is being opened or      *)
(* streamed may still be read to its end, but no further entry is asked    *)
(* for and no further stream.                                              *)
NoEntryAfterSettling ==
  [][result # "none" =>
       /\ phase' \in {"reading", "opening"} => phase' = phase
       /\ phase' = "streaming" => phase \in {"opening", "streaming"} /\ cursor' = cursor]_vars

(* The promise is settled although the library may never call back.        *)
Settles == <>(result # "none")
=============================================================================
