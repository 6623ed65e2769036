---------------------------- MODULE ProjectExport ----------------------------
(***************************************************************************)
(* `wta build --target windows-project` (crates/wta/src/project.rs over    *)
(* safe_io.rs): several exports to one output path. An export claims the   *)
(* directory by creating it, writes its files in the order of their names, *)
(* syncs each, and writes the manifest last. A process may be killed, a    *)
(* write may fail, the machine may lose power, and the user may remove the *)
(* directory to try again.                                                 *)
(*                                                                         *)
(* Files 1..N are the generated ones, N + 1 is wta.project.json. Of a      *)
(* file's bytes only their author and how much of them is safe is kept.    *)
(* A directory entry is taken to survive a loss of power.                  *)
(***************************************************************************)
EXTENDS Naturals, FiniteSets

CONSTANTS
  Exporter,      \* the processes
  Eligible,      \* those whose arguments and specification check_preview accepts
  N,             \* how many files project_files() yields
  None,          \* no file, nobody
  MaxRemovals    \* how often the user removes the directory

(* short: an interrupted write left a prefix; full: all bytes are in the   *)
(* page cache; synced: sync_all() returned.                                *)
Contents == [by : Exporter, state : {"short", "full", "synced"}]

ASSUME ExportAssumption ==
  /\ Eligible \subseteq Exporter /\ None \notin Exporter \cup Contents
  /\ N \in Nat /\ MaxRemovals \in Nat

Manifest == N + 1
File == 1..Manifest

VARIABLES
  parent,    \* what is at the parent of the output path
  dir,       \* what is at the output path
  creator,   \* whose create_dir made the directory there
  slot,      \* what is at each file name in it
  pc, at,    \* where each process is, and at which file
  removals,  \* how often the directory was removed
  torn,      \* was it ever removed while an export was writing into it?
  power      \* has the machine not lost power yet?

vars == <<parent, dir, creator, slot, pc, at, removals, torn, power>>

Inside == {"open", "write", "sync"}
Ended == {"done", "failed", "killed"}

TypeOK ==
  /\ parent \in {"absent", "dir", "other"}
  /\ dir \in {"absent", "dir", "other"}
  /\ creator \in Exporter \cup {None}
  /\ slot \in [File -> Contents \cup {None}]
  /\ pc \in [Exporter -> {"start", "parent", "claim"} \cup Inside \cup Ended]
  /\ at \in [Exporter -> File]
  /\ removals \in 0..MaxRemovals
  /\ torn \in BOOLEAN /\ power \in BOOLEAN

Init ==
  /\ parent \in {"absent", "dir", "other"}
  /\ dir \in IF parent = "dir" THEN {"absent", "dir", "other"} ELSE {"absent"}
  /\ creator = None
  /\ slot = [f \in File |-> None]
  /\ pc = [e \in Exporter |-> "start"] /\ at = [e \in Exporter |-> 1]
  /\ removals = 0 /\ torn = FALSE /\ power = TRUE

-----------------------------------------------------------------------------
(* Seeded faults.                                                          *)

FirstManifest(e) == Manifest
ClaimableExisting == dir \in {"absent", "dir"}
CreatesNewOver(f) == TRUE
UnsyncedDurable(c) == [c EXCEPT !.state = "full"]

-----------------------------------------------------------------------------
OnError(e) == pc' = [pc EXCEPT ![e] = "failed"]

(* check_preview and project_files: nothing is touched before both pass.   *)
Check(e) ==
  /\ pc[e] = "start"
  /\ pc' = [pc EXCEPT ![e] = IF e \in Eligible THEN "parent" ELSE "failed"]
  /\ UNCHANGED <<parent, dir, creator, slot, at, removals, torn, power>>

(* ensure_output_directory(parent): create it, or insist that it be a      *)
(* directory.                                                              *)
EnsureParent(e) ==
  /\ pc[e] = "parent"
  /\ \/ parent # "other" /\ parent' = "dir" /\ pc' = [pc EXCEPT ![e] = "claim"]
     \/ parent # "dir" /\ parent' = parent /\ OnError(e)
  /\ UNCHANGED <<dir, creator, slot, at, removals, torn, power>>

Claimable == dir = "absent"

(* The files come in the order of the BTreeMap's keys, then the manifest.  *)
FirstFile(e) == 1

(* fs::create_dir fails on anything that is there.                         *)
Claim(e) ==
  /\ pc[e] = "claim"
  /\ IF Claimable
     THEN /\ dir' = "dir" /\ creator' = e
          /\ pc' = [pc EXCEPT ![e] = "open"]
          /\ at' = [at EXCEPT ![e] = FirstFile(e)]
     ELSE OnError(e) /\ UNCHANGED <<dir, creator, at>>
  /\ UNCHANGED <<parent, slot, removals, torn, power>>

CreatesNew(f) == slot[f] = None

(* write_regular_file without force. It makes missing directories first,   *)
(* even the output directory itself; then create_new.                      *)
OpenFile(e) ==
  /\ pc[e] = "open"
  /\ dir' = "dir"
  /\ IF CreatesNew(at[e])
     THEN /\ slot' = [slot EXCEPT ![at[e]] = [by |-> e, state |-> "short"]]
          /\ pc' = [pc EXCEPT ![e] = "write"]
     ELSE OnError(e) /\ UNCHANGED slot
  /\ UNCHANGED <<parent, creator, at, removals, torn, power>>

(* The open handle leads to the file of that name only if the file is      *)
(* still there; a process opens a name once.                               *)
Holds(e) == slot[at[e]] # None /\ slot[at[e]].by = e

WriteAll(e) ==
  /\ pc[e] = "write"
  /\ slot' = IF Holds(e) THEN [slot EXCEPT ![at[e]].state = "full"] ELSE slot
  /\ pc' = [pc EXCEPT ![e] = "sync"]
  /\ UNCHANGED <<parent, dir, creator, at, removals, torn, power>>

Durable(c) == [c EXCEPT !.state = "synced"]

(* sync_all() returns; on to the next file, or the manifest was the last.  *)
SyncAll(e) ==
  /\ pc[e] = "sync"
  /\ slot' = IF Holds(e) THEN [slot EXCEPT ![at[e]] = Durable(@)] ELSE slot
  /\ IF at[e] = Manifest
     THEN pc' = [pc EXCEPT ![e] = "done"] /\ UNCHANGED at
     ELSE /\ at' = [at EXCEPT ![e] = @ + 1]
          /\ pc' = [pc EXCEPT ![e] = "open"]
  /\ UNCHANGED <<parent, dir, creator, removals, torn, power>>

(* The disk is full, or access is refused: `?` returns at once, nothing is *)
(* cleaned up.                                                             *)
StepFails(e) ==
  /\ pc[e] \in Inside \cup {"claim"}
  /\ OnError(e)
  /\ UNCHANGED <<parent, dir, creator, slot, at, removals, torn, power>>

Step(e) ==
  \/ Check(e) \/ EnsureParent(e) \/ Claim(e)
  \/ OpenFile(e) \/ WriteAll(e) \/ SyncAll(e) \/ StepFails(e)

(* The process is killed; what it wrote stays in the page cache.           *)
Kill(e) ==
  /\ pc[e] \notin Ended
  /\ pc' = [pc EXCEPT ![e] = "killed"]
  /\ UNCHANGED <<parent, dir, creator, slot, at, removals, torn, power>>

(* The machine stops once: every process ends, and a file whose sync_all() *)
(* did not return may be cut short.                                        *)
PowerLoss ==
  /\ power /\ power' = FALSE
  /\ pc' = [e \in Exporter |-> IF pc[e] \in Ended THEN pc[e] ELSE "killed"]
  /\ \E cut \in SUBSET {f \in File : slot[f] # None /\ slot[f].state # "synced"} :
       slot' = [f \in File |-> IF f \in cut THEN [slot[f] EXCEPT !.state = "short"]
                                            ELSE slot[f]]
  /\ UNCHANGED <<parent, dir, creator, at, removals, torn>>

(* The user removes the output directory.                                  *)
Remove ==
  /\ removals < MaxRemovals /\ removals' = removals + 1
  /\ dir = "dir" /\ dir' = "absent"
  /\ creator' = None /\ slot' = [f \in File |-> None]
  /\ torn' = (torn \/ \E e \in Exporter : pc[e] \in Inside)
  /\ UNCHANGED <<parent, pc, at, power>>

Next == (\E e \in Exporter : Step(e) \/ Kill(e)) \/ PowerLoss \/ Remove

Spec == Init /\ [][Next]_vars

-----------------------------------------------------------------------------
(* A directory with a manifest in it, even a short one, is a whole project *)
(* of the manifest's author, and its other files survive a loss of power:  *)
(* an interrupted export is told from a finished one by its manifest       *)
(* (project.rs:38-56). Cleaning up after a dead export keeps this.         *)
ManifestSealsProject ==
  ~torn /\ slot[Manifest] # None =>
    \A f \in 1..N : slot[f] = [by |-> slot[Manifest].by, state |-> "synced"]

(* An export that reported success left all its files behind, durable, and *)
(* no later export, failure or loss of power takes that back; only a       *)
(* removal does (project.rs:57-67).                                        *)
SuccessIsWhole ==
  \A e \in Exporter :
    pc[e] = "done" /\ removals = 0 =>
      \A f \in File : slot[f] = [by |-> e, state |-> "synced"]

(* What lies in the directory was written by the process that created it:  *)
(* an existing directory, even an empty one, is never reused, and two      *)
(* exports never mix (project.rs:32-36).                                   *)
OneAuthor ==
  ~torn => \A f \in File : slot[f] # None => slot[f].by = creator

(* At most one export at a time is past fs::create_dir (project.rs:33-36). *)
OneClaimant ==
  ~torn => Cardinality({e \in Exporter : pc[e] \in Inside}) <= 1

(* Whatever happens to the directory, no export replaces or shortens a     *)
(* file that is there (safe_io.rs:123-127).                                *)
NothingReplaced ==
  [][\A f \in File :
       slot[f] # None /\ removals' = removals =>
         /\ slot'[f] # None /\ slot'[f].by = slot[f].by
         /\ power' = power /\ slot[f].state \in {"full", "synced"} =>
              slot'[f].state \in {slot[f].state, "synced"}]_vars

(* What SealedProject sees of the path. A directory that no export made is *)
(* foreign; one that is there without a manifest is open.                  *)
Phase ==
  IF torn THEN "spoilt"
  ELSE IF dir = "absent" THEN "absent"
  ELSE IF creator = None THEN "foreign"
  ELSE IF slot[Manifest] = None THEN "open" ELSE "sealed"

DurableFiles == {f \in File : slot[f] # None /\ slot[f].state = "synced"}

Sealing ==
  INSTANCE SealedProject
    WITH Nobody <- None, phase <- Phase,
         owner <- IF torn THEN None ELSE creator,
         durable <- IF torn THEN {} ELSE DurableFiles,
         reported <- IF torn THEN {} ELSE {e \in Exporter : pc[e] = "done"}

(* Every step of the exports, a kill, a failed write and a loss of power   *)
(* among them, is a step of SealedProject or invisible to it.              *)
KeepsSeal == Sealing!Spec
=============================================================================
