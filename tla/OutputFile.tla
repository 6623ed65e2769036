----------------------------- MODULE OutputFile -----------------------------
(***************************************************************************)
(* One path, written and read by several wta processes at once             *)
(* (crates/wta/src/safe_io.rs and digest.rs): `init` and `build` write it  *)
(* with write_regular_file, with or without --force; `build` then hashes   *)
(* what the path leads to; `artifact verify` hashes it too; a command that *)
(* loads a specification reads it up to a limit. Meanwhile someone else    *)
(* may delete the file or put a symbolic link in its place.                *)
(*                                                                         *)
(* A file is a sequence of blocks, each one write() of one writer. A       *)
(* process opens at most one new file, which is named after it.            *)
(***************************************************************************)
EXTENDS Naturals, SequencesExt

CONSTANTS
  Writer,      \* processes that write the path
  Forced,      \* those given --force
  Builder,     \* those that hash the path afterwards (`build`)
  Verifier,    \* processes that only hash it (`artifact verify`)
  Loader,      \* processes that load it as a specification
  Length,      \* how many blocks each writer writes
  Limit,       \* MAX_SPEC_BYTES, in blocks
  MaxSwaps,    \* how often someone else changes what is at the path
  Old, Target, \* a file that is there at first, and one that links lead to
  Absent, Link, None

ASSUME FileAssumption ==
  /\ Forced \subseteq Writer /\ Builder \subseteq Writer
  /\ Length \in [Writer -> Nat \ {0}] /\ Limit \in Nat /\ MaxSwaps \in Nat
  /\ Writer \cap Verifier = {} /\ Loader \cap (Writer \cup Verifier) = {}
  /\ Writer \cap {Old, Target, Absent, Link, None} = {}
  /\ Old # Target /\ {Old, Target} \cap {Absent, Link, None} = {} /\ Absent # Link

VARIABLES
  name,     \* what is at the path: Absent, Link or a file
  bytes,    \* the blocks of each file
  pc,       \* where each process is
  out,      \* the file each writer opened
  input,    \* the file each process reads
  written,  \* how many blocks each writer has written
  seen,     \* the blocks each process has read
  raced,    \* was a link put there under a forced write already checked?
  swaps     \* how often someone else interfered

vars == <<name, bytes, pc, out, input, written, seen, raced, swaps>>

Hasher == Builder \cup Verifier
Process == Writer \cup Verifier \cup Loader
Files == Writer \cup {Old, Target}
Hole == <<None, 0>>

(* A block knows its writer and its place, so that a shifted one shows.    *)
Block(w, n) == <<w, n>>
Blocks == {Hole} \cup ((Writer \cup {Old, Target}) \X Nat)
Contents(w) == [n \in 1..Length[w] |-> Block(w, n)]
Untouched(f) == IF f \in {Old, Target} THEN <<Block(f, 1)>> ELSE <<>>

Ended == {"done", "failed", "killed"}
Places == {"writeCheck", "writeOpen", "write", "sync", "hashCheck", "hashOpen", "hash",
           "loadCheck", "loadOpen", "stat", "load"} \cup Ended

TypeOK ==
  /\ name \in Files \cup {Absent, Link}
  /\ bytes \in [Files -> Seq(Blocks)]
  /\ pc \in [Process -> Places]
  /\ out \in [Writer -> Files \cup {None}] /\ input \in [Process -> Files \cup {None}]
  /\ written \in [Writer -> Nat] /\ \A w \in Writer : written[w] <= Length[w]
  /\ seen \in [Process -> Seq(Blocks)]
  /\ raced \in BOOLEAN /\ swaps \in 0..MaxSwaps

Init ==
  /\ name \in {Absent, Old, Link}
  /\ bytes = [f \in Files |-> Untouched(f)]
  /\ pc = [p \in Process |-> IF p \in Writer THEN "writeCheck"
                             ELSE IF p \in Verifier THEN "hashCheck" ELSE "loadCheck"]
  /\ out = [w \in Writer |-> None] /\ input = [p \in Process |-> None]
  /\ written = [w \in Writer |-> 0] /\ seen = [p \in Process |-> <<>>]
  /\ raced = FALSE /\ swaps = 0

(* The file an open() of the path reaches: it follows a link.              *)
Reached == IF name = Link THEN Target ELSE name

-----------------------------------------------------------------------------
(* Seeded faults.                                                          *)

RefusesNoLink == FALSE
OpensAnything(w) == FALSE
WroteOne(w) == TRUE
PlaceAtEnd(w) == Len(bytes[out[w]]) + 2
TakenLimit(p) == Limit

-----------------------------------------------------------------------------
At(p, here, there) == pc[p] = here /\ pc' = [pc EXCEPT ![p] = there]

(* A step that only finds the process a reason to fail.                    *)
Refuse(p, here) ==
  /\ At(p, here, "failed")
  /\ UNCHANGED <<name, bytes, out, input, written, seen, raced, swaps>>

(* reject_ambiguous_path and the checks of the file's kind all refuse a    *)
(* link; only the last look decides, the earlier ones can refuse more.     *)
RefusesLink == name = Link

MayReplace(w) == w \in Forced \/ name = Absent

WriteCheck(w) ==
  /\ ~RefusesLink /\ MayReplace(w)
  /\ At(w, "writeCheck", "writeOpen")
  /\ UNCHANGED <<name, bytes, out, input, written, seen, raced, swaps>>

WriteRefused(w) == (RefusesLink \/ ~MayReplace(w)) /\ Refuse(w, "writeCheck")

(* create_new fails on anything that is there; create + truncate does not. *)
NewOnly(w) == w \notin Forced

OpenNew(w) ==
  /\ name = Absent /\ name' = w
  /\ At(w, "writeOpen", "write")
  /\ out' = [out EXCEPT ![w] = w]
  /\ UNCHANGED <<bytes, input, written, seen, raced, swaps>>

OpenTruncated(w) ==
  /\ name # Absent /\ ~NewOnly(w)
  /\ At(w, "writeOpen", "write")
  /\ out' = [out EXCEPT ![w] = Reached]
  /\ bytes' = [bytes EXCEPT ![Reached] = <<>>]
  /\ UNCHANGED <<name, input, written, seen, raced, swaps>>

OpenExclusiveFails(w) == name # Absent /\ NewOnly(w) /\ Refuse(w, "writeOpen")

(* write() goes to the writer's own offset: another writer's truncation    *)
(* leaves a hole before it.                                                *)
Place(w) == written[w] + 1

Put(old, n, b) ==
  [k \in 1..(IF n > Len(old) THEN n ELSE Len(old)) |->
     IF k = n THEN b ELSE IF k <= Len(old) THEN old[k] ELSE Hole]

WroteAll(w) == written[w] + 1 = Length[w]

WriteBlock(w) ==
  /\ At(w, "write", IF WroteAll(w) THEN "sync" ELSE "write")
  /\ bytes' = [bytes EXCEPT ![out[w]] = Put(@, Place(w), Block(w, written[w] + 1))]
  /\ written' = [written EXCEPT ![w] = @ + 1]
  /\ UNCHANGED <<name, out, input, seen, raced, swaps>>

SyncAll(w) ==
  /\ At(w, "sync", IF w \in Builder THEN "hashCheck" ELSE "done")
  /\ UNCHANGED <<name, bytes, out, input, written, seen, raced, swaps>>

(* The disk is full: `?` returns and leaves a prefix behind.               *)
WriteFails(w) == Refuse(w, "writeOpen") \/ Refuse(w, "write") \/ Refuse(w, "sync")

Write(w) ==
  \/ WriteCheck(w) \/ WriteRefused(w)
  \/ OpenNew(w) \/ OpenTruncated(w) \/ OpenExclusiveFails(w)
  \/ WriteBlock(w) \/ SyncAll(w) \/ WriteFails(w)

-----------------------------------------------------------------------------
(* sha256_file and read_regular_file_limited both look at the path with    *)
(* symlink_metadata, then open it.                                         *)
Readable == name # Absent /\ ~RefusesLink

Look(p, here, there) ==
  /\ Readable /\ At(p, here, there)
  /\ UNCHANGED <<name, bytes, out, input, written, seen, raced, swaps>>

OpenToRead(p, here, there) ==
  /\ name # Absent /\ At(p, here, there)
  /\ input' = [input EXCEPT ![p] = Reached]
  /\ UNCHANGED <<name, bytes, out, written, seen, raced, swaps>>

NotThere(p, look, open) ==
  (~Readable /\ Refuse(p, look)) \/ (name = Absent /\ Refuse(p, open))

ReadBlock(p, here) ==
  /\ At(p, here, here)
  /\ Len(seen[p]) < Len(bytes[input[p]])
  /\ seen' = [seen EXCEPT ![p] = Append(@, bytes[input[p]][Len(@) + 1])]
  /\ UNCHANGED <<name, bytes, out, input, written, raced, swaps>>

(* The digest is of what was read until the end of the file.               *)
HashEnd(p) ==
  /\ At(p, "hash", "done")
  /\ Len(seen[p]) >= Len(bytes[input[p]])
  /\ UNCHANGED <<name, bytes, out, input, written, seen, raced, swaps>>

Hash(p) ==
  \/ Look(p, "hashCheck", "hashOpen") \/ OpenToRead(p, "hashOpen", "hash")
  \/ NotThere(p, "hashCheck", "hashOpen")
  \/ ReadBlock(p, "hash") \/ HashEnd(p)

TooLong(p) == Len(bytes[input[p]]) > Limit

Stat(p) ==
  /\ At(p, "stat", IF TooLong(p) THEN "failed" ELSE "load")
  /\ UNCHANGED <<name, bytes, out, input, written, seen, raced, swaps>>

(* take(maximum + 1): one more than the limit shows that the file grew.    *)
Taken(p) == Limit + 1

LoadEnd(p) ==
  /\ At(p, "load", IF Len(seen[p]) > Limit THEN "failed" ELSE "done")
  /\ Len(seen[p]) >= Len(bytes[input[p]]) \/ Len(seen[p]) = Taken(p)
  /\ UNCHANGED <<name, bytes, out, input, written, seen, raced, swaps>>

Load(p) ==
  \/ Look(p, "loadCheck", "loadOpen") \/ OpenToRead(p, "loadOpen", "stat")
  \/ NotThere(p, "loadCheck", "loadOpen")
  \/ Stat(p)
  \/ Len(seen[p]) < Taken(p) /\ ReadBlock(p, "load")
  \/ LoadEnd(p)

Step(p) ==
  \/ p \in Writer /\ Write(p)
  \/ p \in Hasher /\ Hash(p)
  \/ p \in Loader /\ Load(p)

Kill(p) ==
  /\ pc[p] \notin Ended
  /\ pc' = [pc EXCEPT ![p] = "killed"]
  /\ UNCHANGED <<name, bytes, out, input, written, seen, raced, swaps>>

(* Someone else deletes what is at the path, or puts a link there.         *)
Swap ==
  /\ swaps < MaxSwaps /\ swaps' = swaps + 1
  /\ name' \in {Absent, Link} \ {name}
  /\ raced' = (raced \/ (name' = Link /\ \E w \in Forced : pc[w] = "writeOpen"))
  /\ UNCHANGED <<bytes, pc, out, input, written, seen>>

Next == (\E p \in Process : Step(p) \/ Kill(p)) \/ Swap

Spec == Init /\ [][Next]_vars

-----------------------------------------------------------------------------
(* What a file's creator alone would have put into it so far.              *)
Genuine(f) ==
  IF f \in Writer THEN IsPrefix(bytes[f], Contents(f)) ELSE bytes[f] = Untouched(f)

(* Without --force nothing that exists is replaced, whoever races: a file  *)
(* holds a prefix of what its creator writes unless a forced writer opened *)
(* it, even after kills and failed writes (safe_io.rs:110-127).            *)
OnlyForceReplaces ==
  \A f \in Files : Genuine(f) \/ \E w \in Forced \ {f} : out[w] = f

(* A write goes through a link only if the link was put there after a      *)
(* forced write had looked; without --force never (safe_io.rs:163-210).    *)
LinkFollowedOnlyInRace ==
  \A w \in Writer : out[w] = Target => raced /\ w \in Forced

(* The digest `build` reports is that of the manifest it wrote, if nobody  *)
(* else wrote that file or touched the path (commands.rs:428-438).         *)
DigestIsOwn ==
  \A w \in Builder :
    pc[w] = "done" /\ swaps = 0 /\ (\A v \in Writer \ {w} : out[v] # out[w]) =>
      seen[w] = Contents(w)

(* Whoever reads a file while its creator still writes it sees a prefix,   *)
(* never a hole or a mixture; only a forced write can produce those        *)
(* (digest.rs:43-58, safe_io.rs:34-48).                                    *)
ReadsPrefix ==
  \A p \in Process :
    input[p] # None /\ (\A w \in Forced \ {input[p]} : out[w] # input[p]) =>
      IsPrefix(seen[p], IF input[p] \in Writer THEN Contents(input[p])
                                               ELSE Untouched(input[p]))

(* A load is accepted only at the end of the file and within the limit,    *)
(* and takes no more memory than the limit and one block, even if the file *)
(* grows after its size was taken (safe_io.rs:25-47).                      *)
LoadIsWhole ==
  [][\A p \in Loader :
       /\ Len(seen'[p]) <= Limit + 1
       /\ pc[p] = "load" /\ pc'[p] = "done" =>
            Len(seen[p]) >= Len(bytes[input[p]]) /\ Len(seen[p]) <= Limit]_vars
=============================================================================
