------------------------- MODULE ProjectExportProofs -------------------------
(***************************************************************************)
(* The invariants of ProjectExport for any number of exports and files.    *)
(*                                                                         *)
(* ManifestSealsProject is not inductive: nothing in it says why the files *)
(* before the manifest are durable when the manifest appears, nor why no   *)
(* other process writes meanwhile. The first is Progress, the state of     *)
(* every slot as a function of where its writer is; the second is that the *)
(* only process inside is the directory's creator (InsideIsCreator), which *)
(* the exclusive create_dir gives as long as nobody removes the directory  *)
(* under an export that runs.                                              *)
(***************************************************************************)
EXTENDS ProjectExport, FiniteSetTheorems, TLAPS

(* Only the creator of the directory that is there writes in it.           *)
InsideIsCreator == \A e \in Exporter : pc[e] \in Inside => creator = e /\ dir = "dir"

(* A file lies in a directory, and is its creator's.                       *)
FilesAreCreators == \A f \in File : slot[f] # None => slot[f].by = creator /\ dir = "dir"

Synced(e) == [by |-> e, state |-> "synced"]

(* What the file its writer is at looks like.                              *)
Current(e) ==
  CASE pc[e] = "open"  -> None
    [] pc[e] = "write" -> [by |-> e, state |-> "short"]
    [] pc[e] = "sync"  -> [by |-> e, state |-> "full"]

(* Files before it are durable, files after it are not there.              *)
Progress ==
  \A e \in Exporter : pc[e] \in Inside =>
    \A f \in File :
      slot[f] = IF f < at[e] THEN Synced(e) ELSE IF f = at[e] THEN Current(e) ELSE None

Sealed ==
  slot[Manifest] # None => \A f \in 1..N : slot[f] = Synced(slot[Manifest].by)

(* What an open handle leads to was not written before.                    *)
WritesOnce == \A e \in Exporter : pc[e] = "write" /\ Holds(e) => slot[at[e]].state = "short"

(* As long as nothing was removed, who finished owns the directory.        *)
DoneIsCreator ==
  \A e \in Exporter : pc[e] = "done" /\ removals = 0 => creator = e /\ dir = "dir"

TornWasRemoved == torn => removals > 0

IInv ==
  /\ TypeOK
  /\ WritesOnce
  /\ TornWasRemoved
  /\ DoneIsCreator
  /\ ~torn => InsideIsCreator /\ FilesAreCreators /\ Progress /\ Sealed
  /\ SuccessIsWhole

-----------------------------------------------------------------------------
LEMMA Files ==
  /\ 1 \in File /\ Manifest \in File
  /\ File \subseteq Nat /\ 1..N \subseteq File
  /\ \A f \in File : f <= Manifest /\ (f # Manifest => f + 1 \in File /\ f \in 1..N)
BY ExportAssumption DEF File, Manifest

LEMMA Before ==
  ASSUME NEW f \in File, NEW g \in File
  PROVE  (f <= g <=> f < g \/ f = g) /\ (f < g + 1 <=> f <= g)
BY Files

(* A written or synced file keeps its author.                              *)
LEMMA Restated ==
  ASSUME NEW c \in Contents, NEW s \in {"short", "full", "synced"}
  PROVE  /\ [c EXCEPT !.state = s] = [by |-> c.by, state |-> s]
         /\ [c EXCEPT !.state = s] \in Contents
BY DEF Contents

LEMMA Initially == Init => IInv
<1> SUFFICES ASSUME Init PROVE IInv
  OBVIOUS
<1>1. TypeOK
  <2>1. dir \in {"absent", "dir", "other"}
    BY DEF Init
  <2>2. removals \in 0..MaxRemovals
    BY ExportAssumption DEF Init
  <2>3. slot \in [File -> Contents \cup {None}] /\ at \in [Exporter -> File]
    BY Files DEF Init
  <2>4. QED
    BY <2>1, <2>2, <2>3 DEF Init, TypeOK
<1>2. WritesOnce /\ TornWasRemoved /\ DoneIsCreator /\ SuccessIsWhole
  BY DEF Init, WritesOnce, TornWasRemoved, DoneIsCreator, SuccessIsWhole
<1>3. InsideIsCreator /\ FilesAreCreators /\ Progress /\ Sealed
  BY Files DEF Init, InsideIsCreator, FilesAreCreators, Progress, Sealed, Inside
<1>4. QED
  BY <1>1, <1>2, <1>3 DEF IInv

(* A process that is not inside before or after, while the directory and   *)
(* its files stay as they are.                                             *)
LEMMA OutsideKeeps ==
  ASSUME IInv, NEW e \in Exporter, NEW p \in {"start", "parent", "claim", "failed", "killed"},
         pc[e] # "done", pc' = [pc EXCEPT ![e] = p],
         parent' \in {"absent", "dir", "other"},
         UNCHANGED <<dir, creator, slot, at, removals, torn, power>>
  PROVE  IInv'
<1>1. /\ p \notin Inside /\ p # "done" /\ p # "write"
      /\ \A d \in Exporter : pc'[d] = IF d = e THEN p ELSE pc[d]
  BY DEF IInv, TypeOK, Inside
<1>2. TypeOK'
  BY <1>1 DEF IInv, TypeOK, Inside, Ended
<1>3. WritesOnce' /\ TornWasRemoved'
  BY <1>1 DEF IInv, WritesOnce, TornWasRemoved, Holds
<1>4. SuccessIsWhole' /\ DoneIsCreator'
  BY <1>1 DEF IInv, SuccessIsWhole, DoneIsCreator
<1>5. ASSUME ~torn' PROVE InsideIsCreator' /\ FilesAreCreators' /\ Progress' /\ Sealed'
  <2>1. \A d \in Exporter : pc'[d] \in Inside => pc[d] \in Inside /\ Current(d)' = Current(d)
    BY <1>1 DEF Current
  <2>2. InsideIsCreator' /\ FilesAreCreators' /\ Sealed'
    BY <1>5, <2>1 DEF IInv, InsideIsCreator, FilesAreCreators, Sealed, Synced
  <2>3. Progress'
    BY <1>5, <2>1 DEF IInv, Progress, Synced
  <2>4. QED
    BY <2>2, <2>3
<1>6. QED
  BY <1>2, <1>3, <1>4, <1>5 DEF IInv

(* The exclusive create_dir: the directory was absent, so nothing lay in   *)
(* it and nobody was inside.                                               *)
LEMMA ClaimKeeps ==
  ASSUME IInv, NEW e \in Exporter, Claim(e) PROVE IInv'
<1>1. CASE dir # "absent"
  BY <1>1, OutsideKeeps DEF Claim, Claimable, OnError, IInv, TypeOK
<1>2. CASE dir = "absent"
  <2>1. /\ dir' = "dir" /\ creator' = e
        /\ pc' = [pc EXCEPT ![e] = "open"] /\ at' = [at EXCEPT ![e] = 1]
        /\ UNCHANGED <<parent, slot, removals, torn, power>>
    BY <1>2 DEF Claim, Claimable, FirstFile
  <2>2. \A d \in Exporter : /\ pc'[d] = IF d = e THEN "open" ELSE pc[d]
                            /\ at'[d] = IF d = e THEN 1 ELSE at[d]
    <3>1. pc \in [Exporter -> {"start", "parent", "claim"} \cup Inside \cup Ended] /\ at \in [Exporter -> File]
      BY DEF IInv, TypeOK
    <3>2. QED
      BY <2>1, <3>1
  <2>3. TypeOK'
    BY <2>1, <2>2, Files DEF IInv, TypeOK, Inside
  <2>4. WritesOnce' /\ TornWasRemoved'
    BY <2>1, <2>2 DEF IInv, WritesOnce, TornWasRemoved, Holds
  <2>5. SuccessIsWhole' /\ DoneIsCreator'
    BY <1>2, <2>1, <2>2 DEF IInv, SuccessIsWhole, DoneIsCreator
  <2>6. ASSUME ~torn' PROVE InsideIsCreator' /\ FilesAreCreators' /\ Progress' /\ Sealed'
    <3>1. /\ \A d \in Exporter : pc[d] \notin Inside
          /\ \A f \in File : slot[f] = None
      BY <1>2, <2>1, <2>6 DEF IInv, InsideIsCreator, FilesAreCreators
    <3>2. InsideIsCreator' /\ FilesAreCreators' /\ Sealed'
      BY <2>1, <2>2, <3>1, Files DEF InsideIsCreator, FilesAreCreators, Sealed
    <3>3. Progress'
      <4>1. \A f \in File : ~(f < 1)
        BY Files DEF File
      <4>2. Current(e)' = None
        BY <2>2 DEF Current
      <4>3. QED
        <5> SUFFICES ASSUME NEW d \in Exporter, pc'[d] \in Inside, NEW f \in File
                     PROVE  slot'[f] = IF f < at'[d] THEN Synced(d)' ELSE IF f = at'[d] THEN Current(d)' ELSE None
          BY DEF Progress
        <5>1. d = e /\ at'[d] = 1
          BY <2>2, <3>1
        <5>2. QED
          BY <2>1, <3>1, <4>1, <4>2, <5>1
    <3>4. QED
      BY <3>2, <3>3
  <2>7. QED
    BY <2>3, <2>4, <2>5, <2>6 DEF IInv
<1>3. QED
  BY <1>1, <1>2

(* What a step of the writer must do for the others to be undisturbed.     *)
LEMMA WriterKeeps ==
  ASSUME IInv, ~torn, NEW e \in Exporter, pc[e] \in Inside,
         NEW p \in Inside \cup {"done", "failed"}, NEW n \in File,
         pc' = [pc EXCEPT ![e] = p], at' = [at EXCEPT ![e] = n],
         dir' = "dir", UNCHANGED <<creator, removals, torn>>,
         p \in Inside =>
           \A f \in File :
             slot'[f] = IF f < n THEN Synced(e) ELSE IF f = n THEN Current(e)' ELSE None,
         p = "done" => \A f \in File : slot'[f] = Synced(e),
         p = "failed" => slot' = slot
  PROVE  InsideIsCreator' /\ FilesAreCreators' /\ Progress' /\ Sealed' /\ DoneIsCreator' /\ SuccessIsWhole'
<1>1. \A d \in Exporter : /\ pc'[d] = IF d = e THEN p ELSE pc[d]
                          /\ at'[d] = IF d = e THEN n ELSE at[d]
  <2>1. pc \in [Exporter -> {"start", "parent", "claim"} \cup Inside \cup Ended] /\ at \in [Exporter -> File]
    BY DEF IInv, TypeOK
  <2>2. QED
    BY <2>1
<1>2. creator = e /\ dir = "dir"
  BY DEF IInv, InsideIsCreator
<1>3. \A d \in Exporter : d # e => pc[d] \notin Inside /\ ~(pc[d] = "done" /\ removals = 0)
  BY <1>2 DEF IInv, InsideIsCreator, DoneIsCreator
<1>4. p \in Inside \/ p = "done" \/ p = "failed"
  OBVIOUS
<1>5. p \in Inside => Current(e)' \in {None, [by |-> e, state |-> "short"], [by |-> e, state |-> "full"]}
  BY <1>1 DEF Current, Inside
<1>6. p # "failed" => \A f \in File : slot'[f] # None => slot'[f].by = e
  BY <1>4, <1>5 DEF Synced
<1>7. InsideIsCreator' /\ DoneIsCreator'
  BY <1>1, <1>2, <1>3 DEF InsideIsCreator, DoneIsCreator
<1>8. FilesAreCreators'
  BY <1>2, <1>4, <1>6 DEF IInv, FilesAreCreators
<1>9. Progress'
  <2> SUFFICES ASSUME NEW d \in Exporter, pc'[d] \in Inside, NEW f \in File
               PROVE  slot'[f] = IF f < at'[d] THEN Synced(d)' ELSE IF f = at'[d] THEN Current(d)' ELSE None
    BY DEF Progress
  <2>1. d = e /\ p \in Inside /\ at'[d] = n
    BY <1>1, <1>3
  <2>2. QED
    BY <2>1 DEF Synced
<1>10. Sealed'
  <2>1. CASE p \in Inside
    <3>1. n = Manifest \/ slot'[Manifest] = None
      BY <2>1, Files
    <3>2. ASSUME n = Manifest, slot'[Manifest] # None, NEW f \in 1..N PROVE slot'[f] = Synced(e)
      <4>1. f \in File /\ f < n
        BY <3>2, Files, ExportAssumption DEF Manifest
      <4>2. QED
        BY <2>1, <4>1
    <3>3. QED
      BY <1>6, <2>1, <3>1, <3>2, Files DEF Sealed, Synced, Inside
  <2>2. CASE p = "done"
    BY <1>6, <2>2, Files DEF Sealed, Synced
  <2>3. CASE p = "failed"
    BY <2>3 DEF IInv, Sealed, Synced
  <2>4. QED
    BY <1>4, <2>1, <2>2, <2>3
<1>11. SuccessIsWhole'
  <2>1. \A d \in Exporter : pc'[d] = "done" /\ removals' = 0 => d = e /\ p = "done"
    BY <1>1, <1>3
  <2>2. QED
    BY <2>1 DEF SuccessIsWhole, Synced
<1>12. QED
  BY <1>7, <1>8, <1>9, <1>10, <1>11

(* Under a removal in mid-export only types and WritesOnce are left to     *)
(* keep: nothing is claimed any more of a directory that was torn.         *)
LEMMA Together ==
  ASSUME IInv, UNCHANGED <<removals, torn>>, TypeOK', WritesOnce',
         ~torn => InsideIsCreator' /\ FilesAreCreators' /\ Progress' /\ Sealed' /\ DoneIsCreator' /\ SuccessIsWhole'
  PROVE  IInv'
<1>1. CASE torn
  <2>1. removals' # 0
    BY <1>1 DEF IInv, TypeOK, TornWasRemoved
  <2>2. QED
    BY <1>1, <2>1 DEF IInv, TornWasRemoved, DoneIsCreator, SuccessIsWhole
<1>2. CASE ~torn
  BY <1>2 DEF IInv, TornWasRemoved
<1>3. QED
  BY <1>1, <1>2

LEMMA OpenFileKeeps ==
  ASSUME IInv, NEW e \in Exporter, OpenFile(e) PROVE IInv'
<1>1. /\ pc[e] = "open" /\ pc[e] \in Inside /\ at[e] \in File
      /\ pc \in [Exporter -> {"start", "parent", "claim"} \cup Inside \cup Ended]
      /\ slot \in [File -> Contents \cup {None}] /\ at \in [Exporter -> File]
      /\ at' = [at EXCEPT ![e] = at[e]]
      /\ dir' = "dir" /\ UNCHANGED <<parent, creator, at, removals, torn, power>>
  BY DEF IInv, TypeOK, OpenFile, Inside
<1>2. CASE CreatesNew(at[e])
  <2>1. /\ slot' = [slot EXCEPT ![at[e]] = [by |-> e, state |-> "short"]]
        /\ pc' = [pc EXCEPT ![e] = "write"]
    BY <1>2 DEF OpenFile
  <2>2. \A f \in File : slot'[f] = IF f = at[e] THEN [by |-> e, state |-> "short"] ELSE slot[f]
    BY <1>1, <2>1
  <2>3. TypeOK'
    BY <1>1, <2>1 DEF IInv, TypeOK, Inside, Contents
  <2>4. WritesOnce'
    <3> SUFFICES ASSUME NEW d \in Exporter, pc'[d] = "write", Holds(d)'
                 PROVE  slot'[at'[d]].state = "short"
      BY DEF WritesOnce
    <3>1. CASE at[d] = at[e]
      BY <1>1, <2>2, <3>1
    <3>2. CASE at[d] # at[e]
      <4>1. slot'[at[d]] = slot[at[d]] /\ at[d] \in File
        BY <1>1, <2>2, <3>2
      <4>2. pc[d] = "write"
        BY <1>1, <2>1, <3>2
      <4>3. QED
        BY <1>1, <4>1, <4>2 DEF IInv, WritesOnce, Holds
    <3>3. QED
      BY <3>1, <3>2
  <2>5. ASSUME ~torn
        PROVE  InsideIsCreator' /\ FilesAreCreators' /\ Progress' /\ Sealed' /\ DoneIsCreator' /\ SuccessIsWhole'
    <3>1. Current(e)' = [by |-> e, state |-> "short"]
      BY <1>1, <2>1 DEF Current
    <3>2. \A f \in File :
            slot'[f] = IF f < at[e] THEN Synced(e) ELSE IF f = at[e] THEN Current(e)' ELSE None
      <4>1. \A f \in File :
              slot[f] = IF f < at[e] THEN Synced(e) ELSE IF f = at[e] THEN Current(e) ELSE None
        BY <1>1, <2>5 DEF IInv, Progress
      <4>2. \A f \in File : f < at[e] => f # at[e]
        BY <1>1, Files
      <4>3. QED
        BY <2>2, <3>1, <4>1, <4>2
    <3>3. "write" \in Inside
      BY DEF Inside
    <3>4. QED
      BY <1>1, <2>1, <2>5, <3>2, <3>3, WriterKeeps
  <2>6. QED
    BY <1>1, <2>3, <2>4, <2>5, Together
<1>3. CASE ~CreatesNew(at[e])
  <2>1. slot' = slot /\ pc' = [pc EXCEPT ![e] = "failed"]
    BY <1>3 DEF OpenFile, OnError
  <2>2. TypeOK' /\ WritesOnce'
    BY <1>1, <2>1 DEF IInv, TypeOK, Ended, WritesOnce, Holds
  <2>3. ASSUME ~torn
        PROVE  InsideIsCreator' /\ FilesAreCreators' /\ Progress' /\ Sealed' /\ DoneIsCreator' /\ SuccessIsWhole'
    <3>1. "failed" \notin Inside
      BY DEF Inside
    <3>2. QED
      BY <1>1, <2>1, <2>3, <3>1, WriterKeeps
  <2>4. QED
    BY <1>1, <2>2, <2>3, Together
<1>4. QED
  BY <1>2, <1>3

LEMMA WriteAllKeeps ==
  ASSUME IInv, NEW e \in Exporter, WriteAll(e) PROVE IInv'
<1>1. /\ pc[e] = "write" /\ pc[e] \in Inside /\ at[e] \in File
      /\ pc \in [Exporter -> {"start", "parent", "claim"} \cup Inside \cup Ended]
      /\ slot \in [File -> Contents \cup {None}] /\ at \in [Exporter -> File]
      /\ pc' = [pc EXCEPT ![e] = "sync"] /\ at' = [at EXCEPT ![e] = at[e]]
      /\ UNCHANGED <<parent, dir, creator, at, removals, torn, power>>
  BY DEF IInv, TypeOK, WriteAll, Inside
<1>2. /\ \A f \in File : slot'[f] = IF f = at[e] /\ Holds(e) THEN [by |-> e, state |-> "full"] ELSE slot[f]
      /\ slot' \in [File -> Contents \cup {None}]
  <2>1. CASE Holds(e)
    <3>1. slot[at[e]] \in Contents /\ slot[at[e]].by = e
      BY <1>1, <2>1 DEF Holds
    <3>2. slot' = [slot EXCEPT ![at[e]] = [slot[at[e]] EXCEPT !.state = "full"]]
      BY <2>1 DEF WriteAll
    <3>3. QED
      BY <1>1, <2>1, <3>1, <3>2, Restated
  <2>2. CASE ~Holds(e)
    BY <1>1, <2>2 DEF WriteAll
  <2>3. QED
    BY <2>1, <2>2
<1>3. TypeOK'
  BY <1>1, <1>2 DEF IInv, TypeOK, Inside
<1>4. WritesOnce'
  <2> SUFFICES ASSUME NEW d \in Exporter, pc'[d] = "write", Holds(d)'
               PROVE  slot'[at'[d]].state = "short"
    BY DEF WritesOnce
  <2>1. d # e /\ pc[d] = "write" /\ at[d] \in File /\ at'[d] = at[d]
    BY <1>1
  <2>2. slot'[at[d]] = slot[at[d]]
    BY <1>2, <2>1 DEF Holds
  <2>3. QED
    BY <2>1, <2>2 DEF IInv, WritesOnce, Holds
<1>5. ASSUME ~torn
      PROVE  InsideIsCreator' /\ FilesAreCreators' /\ Progress' /\ Sealed' /\ DoneIsCreator' /\ SuccessIsWhole'
  <2>0. /\ \A f \in File :
             slot[f] = IF f < at[e] THEN Synced(e) ELSE IF f = at[e] THEN Current(e) ELSE None
        /\ \A f \in File : f < at[e] => f # at[e]
    BY <1>1, <1>5, Files DEF IInv, Progress
  <2>1. slot[at[e]] = [by |-> e, state |-> "short"] /\ Holds(e)
    <3>1. Current(e) = [by |-> e, state |-> "short"]
      BY <1>1 DEF Current
    <3>2. slot[at[e]] = Current(e)
      BY <1>1, <2>0
    <3>3. [by |-> e, state |-> "short"] \in Contents
      BY DEF Contents
    <3>4. QED
      BY <3>1, <3>2, <3>3, ExportAssumption DEF Holds
  <2>2. Current(e)' = [by |-> e, state |-> "full"]
    BY <1>1 DEF Current
  <2>3. \A f \in File :
          slot'[f] = IF f < at[e] THEN Synced(e) ELSE IF f = at[e] THEN Current(e)' ELSE None
    BY <1>2, <2>0, <2>1, <2>2
  <2>4. "sync" \in Inside /\ dir' = "dir"
    BY <1>1, <1>5 DEF Inside, IInv, InsideIsCreator
  <2>5. QED
    BY <1>1, <1>5, <2>3, <2>4, WriterKeeps
<1>6. QED
  BY <1>1, <1>3, <1>4, <1>5, Together

LEMMA SyncAllKeeps ==
  ASSUME IInv, NEW e \in Exporter, SyncAll(e) PROVE IInv'
<1> DEFINE last == at[e] = Manifest
           p == IF last THEN "done" ELSE "open"
           n == IF last THEN at[e] ELSE at[e] + 1
<1>1. /\ pc[e] = "sync" /\ pc[e] \in Inside /\ at[e] \in File
      /\ pc \in [Exporter -> {"start", "parent", "claim"} \cup Inside \cup Ended]
      /\ slot \in [File -> Contents \cup {None}] /\ at \in [Exporter -> File]
      /\ pc' = [pc EXCEPT ![e] = p] /\ at' = [at EXCEPT ![e] = n]
      /\ UNCHANGED <<parent, dir, creator, removals, torn, power>>
  BY DEF IInv, TypeOK, SyncAll, Inside
<1>2. n \in File /\ p \in Inside \cup {"done", "failed"} /\ p # "write"
  BY <1>1, Files DEF Inside
<1>3. /\ \A f \in File : slot'[f] = IF f = at[e] /\ Holds(e) THEN Synced(e) ELSE slot[f]
      /\ slot' \in [File -> Contents \cup {None}]
  <2>1. CASE Holds(e)
    <3>1. slot[at[e]] \in Contents /\ slot[at[e]].by = e
      BY <1>1, <2>1 DEF Holds
    <3>2. slot' = [slot EXCEPT ![at[e]] = [slot[at[e]] EXCEPT !.state = "synced"]]
      BY <2>1 DEF SyncAll, Durable
    <3>3. QED
      BY <1>1, <2>1, <3>1, <3>2, Restated DEF Synced
  <2>2. CASE ~Holds(e)
    BY <1>1, <2>2 DEF SyncAll
  <2>3. QED
    BY <2>1, <2>2
<1>4. TypeOK'
  BY <1>1, <1>2, <1>3 DEF IInv, TypeOK, Inside, Ended
<1>5. WritesOnce'
  <2> SUFFICES ASSUME NEW d \in Exporter, pc'[d] = "write", Holds(d)'
               PROVE  slot'[at'[d]].state = "short"
    BY DEF WritesOnce
  <2>1. d # e /\ pc[d] = "write" /\ at[d] \in File /\ at'[d] = at[d]
    BY <1>1, <1>2
  <2>2. slot'[at[d]] = slot[at[d]]
    BY <1>3, <2>1 DEF Holds, Synced
  <2>3. QED
    BY <2>1, <2>2 DEF IInv, WritesOnce, Holds
<1>6. ASSUME ~torn
      PROVE  InsideIsCreator' /\ FilesAreCreators' /\ Progress' /\ Sealed' /\ DoneIsCreator' /\ SuccessIsWhole'
  <2>1. \A f \in File :
          slot[f] = IF f < at[e] THEN Synced(e) ELSE IF f = at[e] THEN Current(e) ELSE None
    BY <1>1, <1>6 DEF IInv, Progress
  <2>2. Holds(e)
    <3>1. Current(e) = [by |-> e, state |-> "full"] /\ slot[at[e]] = Current(e)
      BY <1>1, <2>1, Files DEF Current
    <3>2. [by |-> e, state |-> "full"] \in Contents
      BY DEF Contents
    <3>3. QED
      BY <3>1, <3>2, ExportAssumption DEF Holds
  <2>3. \A f \in File : slot'[f] = IF f <= at[e] THEN Synced(e) ELSE None
    <3>1. \A f \in File : f <= at[e] <=> f < at[e] \/ f = at[e]
      BY <1>1, Before
    <3>2. QED
      BY <1>3, <2>1, <2>2, <3>1
  <2>4. ASSUME p \in Inside
        PROVE  \A f \in File :
                 slot'[f] = IF f < n THEN Synced(e) ELSE IF f = n THEN Current(e)' ELSE None
    <3>1. n = at[e] + 1 /\ p = "open"
      BY <2>4 DEF Inside
    <3>2. Current(e)' = None
      BY <1>1, <3>1 DEF Current
    <3>3. \A f \in File : f < at[e] + 1 <=> f <= at[e]
      BY <1>1, Before
    <3>4. QED
      BY <2>3, <3>1, <3>2, <3>3
  <2>5. p = "done" => \A f \in File : slot'[f] = Synced(e)
    BY <2>3, Files
  <2>6. dir' = "dir"
    BY <1>1, <1>6 DEF IInv, InsideIsCreator
  <2> HIDE DEF n, p
  <2>7. p # "failed"
    BY DEF p
  <2>8. QED
    BY <1>1, <1>2, <1>6, <2>4, <2>5, <2>6, <2>7, WriterKeeps
<1>7. QED
  BY <1>1, <1>4, <1>5, <1>6, Together

(* A loss of power cuts only what is not durable, and ends every process.  *)
LEMMA PowerLossKeeps ==
  ASSUME IInv, PowerLoss PROVE IInv'
<1>1. PICK cut \in SUBSET {f \in File : slot[f] # None /\ slot[f].state # "synced"} :
        slot' = [f \in File |-> IF f \in cut THEN [slot[f] EXCEPT !.state = "short"] ELSE slot[f]]
  BY DEF PowerLoss
<1>2. /\ pc' = [e \in Exporter |-> IF pc[e] \in Ended THEN pc[e] ELSE "killed"]
      /\ power' = FALSE /\ UNCHANGED <<parent, dir, creator, at, removals, torn>>
      /\ pc \in [Exporter -> {"start", "parent", "claim"} \cup Inside \cup Ended]
      /\ slot \in [File -> Contents \cup {None}]
  BY DEF PowerLoss, IInv, TypeOK
<1>3. \A e \in Exporter :
        /\ pc'[e] \in Ended /\ pc'[e] \notin Inside /\ pc'[e] # "write"
        /\ pc'[e] = "done" => pc[e] = "done"
  BY <1>2 DEF Ended, Inside
<1>4. \A f \in File :
        \/ slot'[f] = slot[f]
        \/ /\ slot[f] \in Contents /\ slot[f].state # "synced" /\ slot[f] # None
           /\ slot'[f] = [by |-> slot[f].by, state |-> "short"] /\ slot'[f] \in Contents
  BY <1>1, <1>2, Restated
<1>5. TypeOK'
  <2>1. slot' \in [File -> Contents \cup {None}]
    BY <1>1, <1>2, <1>4
  <2>2. QED
    BY <1>2, <1>3, <2>1 DEF IInv, TypeOK
<1>6. WritesOnce'
  BY <1>3 DEF WritesOnce
<1>7. ASSUME NEW f \in File, NEW e \in Exporter, slot[f] = Synced(e) PROVE slot'[f] = slot[f]
  <2>1. slot[f].state = "synced"
    BY <1>7 DEF Synced
  <2>2. QED
    BY <1>4, <2>1
<1>8. ASSUME NEW f \in File, slot'[f] # None PROVE slot[f] # None /\ slot'[f].by = slot[f].by
  <2>1. CASE slot'[f] = slot[f]
    BY <1>8, <2>1
  <2>2. CASE slot[f] # None /\ slot'[f] = [by |-> slot[f].by, state |-> "short"]
    BY <2>2
  <2>3. QED
    BY <1>4, <2>1, <2>2
<1>9. ASSUME ~torn
      PROVE  InsideIsCreator' /\ FilesAreCreators' /\ Progress' /\ Sealed' /\ DoneIsCreator' /\ SuccessIsWhole'
  <2>1. InsideIsCreator' /\ Progress'
    BY <1>3 DEF InsideIsCreator, Progress
  <2>2. FilesAreCreators' /\ DoneIsCreator'
    BY <1>2, <1>3, <1>8, <1>9 DEF IInv, FilesAreCreators, DoneIsCreator
  <2>3. Sealed'
    <3> SUFFICES ASSUME slot'[Manifest] # None, NEW f \in 1..N
                 PROVE  slot'[f] = Synced(slot'[Manifest].by)
      BY DEF Sealed, Synced
    <3>1. slot[Manifest] # None /\ slot'[Manifest].by = slot[Manifest].by
      BY <1>8, Files
    <3>2. slot[f] = Synced(slot[Manifest].by) /\ slot[Manifest].by \in Exporter /\ f \in File
      BY <1>2, <1>9, <3>1, Files DEF IInv, Sealed, Contents
    <3>3. QED
      BY <1>7, <3>1, <3>2
  <2>4. SuccessIsWhole'
    BY <1>2, <1>3, <1>7 DEF IInv, SuccessIsWhole, Synced
  <2>5. QED
    BY <2>1, <2>2, <2>3, <2>4
<1>10. QED
  BY <1>2, <1>5, <1>6, <1>9, Together

(* A removal under a running export tears it; else nobody is inside.       *)
LEMMA RemoveKeeps ==
  ASSUME IInv, Remove PROVE IInv'
<1>1. /\ removals' = removals + 1 /\ removals' \in 1..MaxRemovals
      /\ dir' = "absent" /\ creator' = None /\ slot' = [f \in File |-> None]
      /\ torn' = (torn \/ \E e \in Exporter : pc[e] \in Inside)
      /\ UNCHANGED <<parent, pc, at, power>>
  BY ExportAssumption DEF Remove, IInv, TypeOK
<1>2. TypeOK'
  BY <1>1 DEF IInv, TypeOK
<1>3. WritesOnce' /\ TornWasRemoved' /\ DoneIsCreator' /\ SuccessIsWhole'
  <2>1. \A e \in Exporter : ~Holds(e)'
    BY <1>1 DEF IInv, TypeOK, Holds
  <2>2. QED
    BY <1>1, <2>1, ExportAssumption DEF WritesOnce, TornWasRemoved, DoneIsCreator, SuccessIsWhole
<1>4. ASSUME ~torn' PROVE InsideIsCreator' /\ FilesAreCreators' /\ Progress' /\ Sealed'
  BY <1>1, <1>4, Files DEF InsideIsCreator, FilesAreCreators, Progress, Sealed
<1>5. QED
  BY <1>2, <1>3, <1>4 DEF IInv

LEMMA Stays ==
  ASSUME IInv, [Next]_vars PROVE IInv'
<1>1. CASE UNCHANGED vars
  BY <1>1 DEF vars, IInv, TypeOK, WritesOnce, Holds, TornWasRemoved, DoneIsCreator, InsideIsCreator,
     FilesAreCreators, Progress, Current, Synced, Sealed, SuccessIsWhole
<1>2. ASSUME NEW e \in Exporter, Check(e) PROVE IInv'
  <2>1. parent \in {"absent", "dir", "other"} /\ pc[e] = "start"
    BY <1>2 DEF Check, IInv, TypeOK
  <2>2. QED
    BY <1>2, <2>1, OutsideKeeps DEF Check
<1>3. ASSUME NEW e \in Exporter, EnsureParent(e) PROVE IInv'
  <2>1. /\ parent' \in {"absent", "dir", "other"} /\ pc[e] = "parent"
        /\ pc' = [pc EXCEPT ![e] = "claim"] \/ pc' = [pc EXCEPT ![e] = "failed"]
        /\ UNCHANGED <<dir, creator, slot, at, removals, torn, power>>
    BY <1>3 DEF EnsureParent, OnError, IInv, TypeOK
  <2>2. QED
    BY <2>1, OutsideKeeps
<1>4. ASSUME NEW e \in Exporter, StepFails(e) \/ Kill(e) PROVE IInv'
  <2>1. /\ parent' \in {"absent", "dir", "other"} /\ pc[e] # "done"
        /\ pc' = [pc EXCEPT ![e] = "failed"] \/ pc' = [pc EXCEPT ![e] = "killed"]
        /\ UNCHANGED <<dir, creator, slot, at, removals, torn, power>>
    BY <1>4 DEF StepFails, Kill, OnError, IInv, TypeOK, Inside, Ended
  <2>2. QED
    BY <2>1, OutsideKeeps
<1>5. QED
  BY <1>1, <1>2, <1>3, <1>4, ClaimKeeps, OpenFileKeeps, WriteAllKeeps, SyncAllKeeps, PowerLossKeeps,
     RemoveKeeps DEF Next, Step

LEMMA Invariant == Spec => []IInv
BY Initially, Stays, PTL DEF Spec

-----------------------------------------------------------------------------
(* Every variable keeps its type, for any number of exports and files.     *)
THEOREM TypeCorrect == Spec => []TypeOK
<1>1. IInv => TypeOK
  BY DEF IInv
<1>2. QED
  BY <1>1, Invariant, PTL

(* Wherever an export is interrupted, a directory with a manifest is a     *)
(* whole, durable project of one author (project.rs:38-56).                *)
THEOREM ManifestsSeal == Spec => []ManifestSealsProject
<1>1. IInv => ManifestSealsProject
  BY DEF IInv, Sealed, Synced, ManifestSealsProject
<1>2. QED
  BY <1>1, Invariant, PTL

(* A reported success is whole and durable until it is removed             *)
(* (project.rs:57-67).                                                     *)
THEOREM SuccessesAreWhole == Spec => []SuccessIsWhole
<1>1. IInv => SuccessIsWhole
  BY DEF IInv
<1>2. QED
  BY <1>1, Invariant, PTL

(* The files of a directory are those of the process that created it       *)
(* (project.rs:32-36).                                                     *)
THEOREM AuthorsNeverMix == Spec => []OneAuthor
<1>1. IInv => OneAuthor
  BY DEF IInv, FilesAreCreators, OneAuthor
<1>2. QED
  BY <1>1, Invariant, PTL

(* Two exports are never inside one directory (project.rs:33-36).          *)
THEOREM ClaimsExclude == Spec => []OneClaimant
<1>1. ASSUME IInv PROVE OneClaimant
  <2>1. SUFFICES ASSUME ~torn PROVE Cardinality({e \in Exporter : pc[e] \in Inside}) <= 1
    BY DEF OneClaimant
  <2> DEFINE S == {e \in Exporter : pc[e] \in Inside}
  <2>2. S \subseteq {creator}
    BY <1>1, <2>1 DEF IInv, InsideIsCreator
  <2>3. IsFiniteSet({creator}) /\ Cardinality({creator}) = 1
    BY FS_Singleton
  <2>4. Cardinality(S) <= Cardinality({creator})
    BY <2>2, <2>3, FS_Subset
  <2>5. QED
    BY <2>3, <2>4
<1>2. QED
  BY <1>1, Invariant, PTL

(* No export replaces or shortens what lies there, even in a directory     *)
(* that was torn from under it (safe_io.rs:123-127).                       *)
THEOREM FilesStay == Spec => NothingReplaced
<1> DEFINE Kept ==
      \A f \in File :
        slot[f] # None /\ removals' = removals =>
          /\ slot'[f] # None /\ slot'[f].by = slot[f].by
          /\ power' = power /\ slot[f].state \in {"full", "synced"} =>
               slot'[f].state \in {slot[f].state, "synced"}
<1>1. ASSUME IInv, [Next]_vars PROVE Kept
  <2> SUFFICES ASSUME NEW f \in File, slot[f] # None, removals' = removals
               PROVE  /\ slot'[f] # None /\ slot'[f].by = slot[f].by
                      /\ power' = power /\ slot[f].state \in {"full", "synced"} =>
                           slot'[f].state \in {slot[f].state, "synced"}
    OBVIOUS
  <2>1. /\ slot \in [File -> Contents \cup {None}] /\ slot[f] \in Contents
        /\ at \in [Exporter -> File]
    BY <1>1 DEF IInv, TypeOK
  <2>2. CASE slot'[f] = slot[f]
    BY <2>2
  <2>3. ASSUME NEW e \in Exporter, OpenFile(e) PROVE slot'[f] = slot[f]
    BY <2>1, <2>3 DEF OpenFile, CreatesNew
  <2>4. ASSUME NEW e \in Exporter, WriteAll(e), slot'[f] # slot[f]
        PROVE  slot[f].state = "short" /\ slot'[f] = [by |-> slot[f].by, state |-> "full"]
    <3>1. Holds(e) /\ f = at[e] /\ slot'[f] = [slot[f] EXCEPT !.state = "full"] /\ pc[e] = "write"
      BY <2>1, <2>4 DEF WriteAll
    <3>2. QED
      BY <1>1, <2>1, <3>1, Restated DEF IInv, WritesOnce
  <2>5. ASSUME NEW e \in Exporter, SyncAll(e), slot'[f] # slot[f]
        PROVE  slot'[f] = [by |-> slot[f].by, state |-> "synced"]
    <3>1. slot'[f] = [slot[f] EXCEPT !.state = "synced"]
      BY <2>1, <2>5 DEF SyncAll, Durable
    <3>2. QED
      BY <2>1, <3>1, Restated
  <2>6. ASSUME PowerLoss, slot'[f] # slot[f]
        PROVE  power' # power /\ slot'[f] = [by |-> slot[f].by, state |-> "short"]
    <3>1. slot'[f] = [slot[f] EXCEPT !.state = "short"]
      BY <2>1, <2>6 DEF PowerLoss
    <3>2. power = TRUE /\ power' = FALSE
      BY <1>1, <2>6 DEF PowerLoss, IInv, TypeOK
    <3>3. QED
      BY <2>1, <3>1, <3>2, Restated
  <2>7. ~Remove
    BY <1>1 DEF Remove, IInv, TypeOK
  <2>8. CASE slot'[f] # slot[f]
    <3>1. \/ \E e \in Exporter : WriteAll(e) \/ SyncAll(e)
          \/ PowerLoss
      BY <1>1, <2>3, <2>7, <2>8 DEF Next, Step, Check, EnsureParent, Claim, StepFails, Kill, vars
    <3>2. \A s \in {"short", "full", "synced"} : [by |-> slot[f].by, state |-> s] # None
      BY <2>1, ExportAssumption DEF Contents
    <3>3. QED
      BY <2>4, <2>5, <2>6, <2>8, <3>1, <3>2
  <2>9. QED
    BY <2>2, <2>8
<1>2. QED
  BY <1>1, Invariant, PTL DEF Spec, NothingReplaced
-----------------------------------------------------------------------------
(* The refinement of SealedProject. A step is looked at from outside: what *)
(* is at the path, whose it is, which files are durable, who has reported. *)

(* The directory that an export made is there until it is removed.         *)
OwnedIsThere == creator # None => dir = "dir"

LEMMA Owned == Spec => []OwnedIsThere
<1>1. Init => OwnedIsThere
  BY DEF Init, OwnedIsThere
<1>2. OwnedIsThere /\ [Next]_vars => OwnedIsThere'
  BY DEF OwnedIsThere, Next, Step, Check, EnsureParent, Claim, OpenFile, WriteAll, SyncAll,
         StepFails, Kill, PowerLoss, Remove, vars
<1>3. QED BY <1>1, <1>2, PTL DEF Spec

Reported == {e \in Exporter : pc[e] = "done"}

LEMMA NobodyExports == \A e \in Exporter : e # None
BY ExportAssumption

(* What is not seen from outside.                                          *)
LEMMA Unseen ==
  ASSUME dir' = dir, creator' = creator, torn' = torn,
         slot'[Manifest] = None <=> slot[Manifest] = None,
         DurableFiles' = DurableFiles, Reported' = Reported
  PROVE  UNCHANGED Sealing!vars
BY DEF Sealing!vars, Phase, Reported

(* A process that is not inside and does not report is not seen.           *)
LEMMA OutsideUnseen ==
  ASSUME IInv, NEW e \in Exporter, NEW p, pc[e] # "done", p # "done",
         pc' = [pc EXCEPT ![e] = p], UNCHANGED <<dir, creator, slot, torn>>
  PROVE  UNCHANGED Sealing!vars
<1>1. DurableFiles' = DurableFiles
  BY DEF DurableFiles
<1>2. Reported' = Reported
  BY DEF IInv, TypeOK, Reported
<1>3. QED BY <1>1, <1>2, Unseen

(* Where the writer is says how the path looks.                            *)
LEMMA WriterSeen ==
  ASSUME IInv, ~torn, NEW e \in Exporter, pc[e] \in Inside
  PROVE  /\ dir = "dir" /\ creator = e /\ e # None /\ at[e] \in File
         /\ \A f \in File :
              slot[f] = IF f < at[e] THEN Synced(e) ELSE IF f = at[e] THEN Current(e) ELSE None
         /\ DurableFiles = {f \in File : f < at[e]}
         /\ at[e] # Manifest => slot[Manifest] = None
         /\ at[e] = Manifest => DurableFiles = 1..N
<1>1. dir = "dir" /\ creator = e /\ e # None /\ at[e] \in File
  BY NobodyExports DEF IInv, TypeOK, InsideIsCreator
<1>2. \A f \in File :
        slot[f] = IF f < at[e] THEN Synced(e) ELSE IF f = at[e] THEN Current(e) ELSE None
  BY DEF IInv, Progress
<1>3. Synced(e) # None /\ Synced(e).state = "synced"
  <2>1. Synced(e) \in Contents
    BY DEF Synced, Contents
  <2>2. QED BY <2>1, ExportAssumption DEF Synced
<1>4. Current(e) = None \/ Current(e).state # "synced"
  BY DEF Current, Inside
<1>5. DurableFiles = {f \in File : f < at[e]}
  BY <1>2, <1>3, <1>4 DEF DurableFiles
<1>6. at[e] # Manifest => slot[Manifest] = None
  <2>1. Manifest \in File /\ ~(Manifest < at[e])
    BY <1>1, ExportAssumption DEF File, Manifest
  <2>2. QED BY <1>2, <2>1
<1>7. at[e] = Manifest => DurableFiles = 1..N
  BY <1>5, ExportAssumption DEF File, Manifest
<1>8. QED BY <1>1, <1>2, <1>5, <1>6, <1>7

LEMMA ClaimSeen ==
  ASSUME IInv, OwnedIsThere, ~torn, NEW e \in Exporter, Claim(e)
  PROVE  Sealing!Claim(e) \/ UNCHANGED Sealing!vars
<1>1. CASE ~Claimable
  BY <1>1, OutsideUnseen DEF Claim, OnError
<1>2. CASE Claimable
  <2>1. /\ dir = "absent" /\ dir' = "dir" /\ creator' = e /\ e # None /\ creator = None
        /\ pc' = [pc EXCEPT ![e] = "open"] /\ slot' = slot /\ torn' = FALSE /\ pc[e] = "claim"
    BY <1>2, NobodyExports DEF Claim, Claimable, OwnedIsThere
  <2>2. \A f \in File : slot[f] = None
    BY <2>1 DEF IInv, FilesAreCreators
  <2>3. DurableFiles = {} /\ DurableFiles' = {} /\ slot'[Manifest] = None
    BY <2>1, <2>2, Files DEF DurableFiles
  <2>4. Reported' = Reported
    BY <2>1 DEF IInv, TypeOK, Reported
  <2>5. Phase = "absent" /\ Phase' = "open"
    BY <2>1, <2>3 DEF Phase
  <2>6. QED BY <2>1, <2>3, <2>4, <2>5 DEF Sealing!Claim, Reported
<1>3. QED BY <1>1, <1>2

LEMMA OpenFileSeen ==
  ASSUME IInv, ~torn, NEW e \in Exporter, OpenFile(e)
  PROVE  Sealing!Seal \/ UNCHANGED Sealing!vars
<1>1. /\ pc[e] = "open" /\ pc[e] \in Inside /\ dir' = "dir" /\ torn' = FALSE
      /\ UNCHANGED <<creator, at>>
  BY DEF OpenFile, Inside
<1>2. dir = "dir" /\ creator = e /\ e # None /\ at[e] \in File
  BY <1>1, WriterSeen
<1>3. CASE ~CreatesNew(at[e])
  BY <1>1, <1>2, <1>3, OutsideUnseen DEF OpenFile, OnError
<1>4. CASE CreatesNew(at[e])
  <2> DEFINE new == [by |-> e, state |-> "short"]
  <2>1. slot[at[e]] = None /\ slot' = [slot EXCEPT ![at[e]] = new] /\ pc' = [pc EXCEPT ![e] = "write"]
    BY <1>4 DEF OpenFile, CreatesNew
  <2>2. \A f \in File : slot'[f] = IF f = at[e] THEN new ELSE slot[f]
    BY <1>2, <2>1 DEF IInv, TypeOK
  <2>3. new # None /\ new.state # "synced"
    BY ExportAssumption DEF Contents
  <2>4. DurableFiles' = DurableFiles
    BY <2>1, <2>2, <2>3 DEF DurableFiles
  <2>5. Reported' = Reported
    BY <1>1, <2>1 DEF IInv, TypeOK, Reported
  <2>6. CASE at[e] # Manifest
    <3>1. slot'[Manifest] = slot[Manifest]
      BY <2>2, <2>6, Files
    <3>2. dir' = dir /\ creator' = creator /\ torn' = torn
      BY <1>1, <1>2 DEF OpenFile
    <3>3. UNCHANGED Sealing!vars
      BY <2>4, <2>5, <3>1, <3>2, Unseen
    <3>4. QED BY <3>3
  <2>7. CASE at[e] = Manifest
    <3>1. slot[Manifest] = None /\ slot'[Manifest] # None
      BY <2>1, <2>2, <2>3, <2>7, Files
    <3>2. Phase = "open" /\ Phase' = "sealed"
      BY <1>1, <1>2, <3>1 DEF Phase
    <3>3. DurableFiles = 1..N
      BY <1>1, <2>7, WriterSeen
    <3>4. QED BY <1>1, <2>4, <2>5, <3>2, <3>3 DEF Sealing!Seal, Reported
  <2>8. QED BY <2>6, <2>7
<1>5. QED BY <1>3, <1>4

LEMMA WriteAllSeen ==
  ASSUME IInv, ~torn, NEW e \in Exporter, WriteAll(e)
  PROVE  UNCHANGED Sealing!vars
<1>1. /\ pc[e] = "write" /\ pc[e] \in Inside /\ UNCHANGED <<dir, creator, at, torn>>
      /\ pc' = [pc EXCEPT ![e] = "sync"]
      /\ slot' = IF Holds(e) THEN [slot EXCEPT ![at[e]].state = "full"] ELSE slot
  BY DEF WriteAll, Inside
<1>2. at[e] \in File /\ slot[at[e]] = [by |-> e, state |-> "short"]
  <2>1. at[e] \in File /\ ~(at[e] < at[e])
    BY <1>1, WriterSeen, ExportAssumption DEF File, Manifest
  <2>2. slot[at[e]] = Current(e)
    BY <1>1, <2>1, WriterSeen
  <2>3. QED BY <1>1, <2>1, <2>2 DEF Current
<1> DEFINE new == [by |-> e, state |-> "full"]
<1>3. \A f \in File : slot'[f] = slot[f] \/ (f = at[e] /\ slot'[f] = new)
  BY <1>1, <1>2 DEF IInv, TypeOK
<1>4. /\ new # None /\ new.state # "synced"
      /\ slot[at[e]] # None /\ slot[at[e]].state # "synced"
  BY <1>2, ExportAssumption DEF Contents
<1>5. DurableFiles' = DurableFiles
  BY <1>3, <1>4 DEF DurableFiles
<1>6. slot'[Manifest] = None <=> slot[Manifest] = None
  BY <1>3, <1>4, Files
<1>7. Reported' = Reported
  BY <1>1 DEF IInv, TypeOK, Reported
<1>8. QED BY <1>1, <1>5, <1>6, <1>7, Unseen

LEMMA SyncAllSeen ==
  ASSUME IInv, ~torn, NEW e \in Exporter, SyncAll(e)
  PROVE  Sealing!Finish(e) \/ \E f \in 1..N : Sealing!Complete(f)
<1>1. /\ pc[e] = "sync" /\ pc[e] \in Inside /\ UNCHANGED <<dir, creator>> /\ torn' = FALSE
      /\ slot' = IF Holds(e) THEN [slot EXCEPT ![at[e]] = Durable(slot[at[e]])] ELSE slot
      /\ pc' = [pc EXCEPT ![e] = IF at[e] = Manifest THEN "done" ELSE "open"]
  BY DEF SyncAll, Inside
<1>2. dir = "dir" /\ creator = e /\ e # None /\ at[e] \in File
  BY <1>1, WriterSeen
<1>3. slot[at[e]] = [by |-> e, state |-> "full"]
  <2>1. ~(at[e] < at[e])
    BY <1>2, ExportAssumption DEF File, Manifest
  <2>2. slot[at[e]] = Current(e)
    BY <1>1, <1>2, <2>1, WriterSeen
  <2>3. QED BY <1>1, <2>2 DEF Current
<1>4. Synced(e) # None /\ Synced(e).state = "synced"
      /\ slot[at[e]] # None /\ slot[at[e]].state # "synced"
  BY <1>3, ExportAssumption DEF Synced, Contents
<1>5. \A f \in File : slot'[f] = IF f = at[e] THEN Synced(e) ELSE slot[f]
  <2>1. Holds(e) /\ Durable(slot[at[e]]) = Synced(e)
    BY <1>3, <1>4 DEF Holds, Durable, Synced
  <2>2. QED BY <1>1, <1>2, <2>1 DEF IInv, TypeOK
<1>6. at[e] \notin DurableFiles /\ DurableFiles' = DurableFiles \cup {at[e]}
  BY <1>2, <1>4, <1>5 DEF DurableFiles
<1>7. CASE at[e] = Manifest
  <2>1. DurableFiles = 1..N /\ DurableFiles' = 1..(N + 1)
    <3>1. DurableFiles = 1..N
      BY <1>1, <1>7, WriterSeen
    <3>2. 1..(N + 1) = 1..N \cup {N + 1}
      BY ExportAssumption
    <3>3. QED BY <1>6, <1>7, <3>1, <3>2 DEF Manifest
  <2>2. Phase = "sealed" /\ Phase' = "sealed"
    BY <1>1, <1>2, <1>4, <1>5, <1>7 DEF Phase
  <2>3. Reported' = Reported \cup {e}
    BY <1>1, <1>7 DEF Inside, IInv, TypeOK, Reported
  <2>4. QED BY <1>1, <1>2, <2>1, <2>2, <2>3 DEF Sealing!Finish, Reported
<1>8. CASE at[e] # Manifest
  <2>1. slot[Manifest] = None /\ slot'[Manifest] = None
    <3>1. slot[Manifest] = None
      BY <1>1, <1>8, WriterSeen
    <3>2. QED BY <1>5, <1>8, <3>1, Files
  <2>2. Phase = "open" /\ Phase' = "open"
    BY <1>1, <1>2, <2>1 DEF Phase
  <2>3. Reported' = Reported
    BY <1>1, <1>8 DEF IInv, TypeOK, Reported
  <2>4. at[e] \in 1..N
    BY <1>2, <1>8, Files
  <2>5. Sealing!Complete(at[e])
    BY <1>1, <1>6, <2>2, <2>3 DEF Sealing!Complete, Reported
  <2>6. QED BY <2>4, <2>5
<1>9. QED BY <1>7, <1>8

(* Power takes back only what was not durable.                             *)
LEMMA PowerLossUnseen ==
  ASSUME IInv, PowerLoss
  PROVE  UNCHANGED Sealing!vars
<1>1. PICK cut \in SUBSET {f \in File : slot[f] # None /\ slot[f].state # "synced"} :
        slot' = [f \in File |-> IF f \in cut THEN [slot[f] EXCEPT !.state = "short"] ELSE slot[f]]
  BY DEF PowerLoss
<1>2. \A f \in File :
        \/ slot'[f] = slot[f]
        \/ /\ slot[f] # None /\ slot[f].state # "synced"
           /\ slot'[f] # None /\ slot'[f].state # "synced"
  <2>1. ASSUME NEW f \in cut
        PROVE  slot'[f] # None /\ slot'[f].state # "synced"
    <3>1. f \in File /\ slot[f] \in Contents
      BY <1>1 DEF IInv, TypeOK
    <3>2. slot'[f] = [by |-> slot[f].by, state |-> "short"] /\ slot'[f] \in Contents
      BY <1>1, <3>1, Restated
    <3>3. QED BY <3>2, ExportAssumption
  <2>2. QED BY <1>1, <2>1
<1>3. DurableFiles' = DurableFiles
  BY <1>2 DEF DurableFiles
<1>4. slot'[Manifest] = None <=> slot[Manifest] = None
  BY <1>2, Files
<1>5. Reported' = Reported
  BY DEF PowerLoss, IInv, TypeOK, Reported, Ended
<1>6. dir' = dir /\ creator' = creator /\ torn' = torn
  BY DEF PowerLoss
<1>7. QED BY <1>3, <1>4, <1>5, <1>6, Unseen

LEMMA RemoveSeen ==
  ASSUME IInv, ~torn, Remove
  PROVE  Sealing!Discard \/ Sealing!Spoil
<1>1. /\ dir = "dir" /\ dir' = "absent" /\ creator' = None /\ pc' = pc
      /\ slot' = [f \in File |-> None]
      /\ torn' = \E e \in Exporter : pc[e] \in Inside
  BY DEF Remove
<1>2. CASE \E e \in Exporter : pc[e] \in Inside
  <2>1. creator # None
    BY <1>2, WriterSeen
  <2>2. Phase \in {"open", "sealed"} /\ Phase' = "spoilt" /\ torn'
    BY <1>1, <1>2, <2>1 DEF Phase
  <2>3. QED BY <2>2 DEF Sealing!Spoil
<1>3. CASE ~\E e \in Exporter : pc[e] \in Inside
  <2>1. Phase \in {"foreign", "open", "sealed"} /\ Phase' = "absent" /\ ~torn'
    BY <1>1, <1>3 DEF Phase
  <2>2. DurableFiles' = {} /\ Reported' = Reported
    BY <1>1 DEF DurableFiles, Reported
  <2>3. QED BY <1>1, <2>1, <2>2 DEF Sealing!Discard, Reported
<1>4. QED BY <1>2, <1>3

LEMMA StepSeen ==
  ASSUME IInv, OwnedIsThere, [Next]_vars
  PROVE  [Sealing!Next]_Sealing!vars
<1>1. CASE torn
  <2>1. torn'
    BY <1>1 DEF Next, Step, Check, EnsureParent, Claim, OpenFile, WriteAll, SyncAll, StepFails, Kill,
                PowerLoss, Remove, vars
  <2>2. QED BY <1>1, <2>1 DEF Sealing!vars, Phase
<1>2. CASE ~torn
  <2>1. CASE UNCHANGED vars
    <3>1. DurableFiles' = DurableFiles /\ Reported' = Reported
      BY <2>1 DEF vars, DurableFiles, Reported
    <3>2. QED BY <2>1, <3>1, Unseen DEF vars
  <2>2. ASSUME NEW e \in Exporter, Check(e) \/ EnsureParent(e) \/ StepFails(e) \/ Kill(e)
        PROVE  UNCHANGED Sealing!vars
    <3>1. PICK p \in {"parent", "claim", "failed", "killed"} : pc' = [pc EXCEPT ![e] = p]
      BY <2>2 DEF Check, EnsureParent, StepFails, Kill, OnError
    <3>2. pc[e] # "done" /\ UNCHANGED <<dir, creator, slot, torn>>
      BY <2>2 DEF Check, EnsureParent, StepFails, Kill, Inside, Ended
    <3>3. QED BY <3>1, <3>2, OutsideUnseen
  <2>3. QED
    BY <1>2, <2>1, <2>2, ClaimSeen, OpenFileSeen, WriteAllSeen, SyncAllSeen, PowerLossUnseen, RemoveSeen
       DEF Next, Step, Sealing!Next
<1>3. QED BY <1>1, <1>2

(* Seen from outside, exports that race, fail, are killed or lose power do *)
(* nothing but what SealedProject allows.                                  *)
THEOREM ImplementsSealedProject == Spec => KeepsSeal
<1>1. Init => Sealing!Init
  <2> SUFFICES ASSUME Init PROVE Sealing!Init
    OBVIOUS
  <2>1. torn = FALSE /\ creator = None /\ \A f \in File : slot[f] = None
    BY DEF Init
  <2>2. Phase \in {"absent", "foreign"}
    BY <2>1 DEF Phase
  <2>3. DurableFiles = {} /\ {e \in Exporter : pc[e] = "done"} = {}
    BY <2>1 DEF Init, DurableFiles
  <2>4. QED BY <2>1, <2>2, <2>3 DEF Sealing!Init
<1>2. IInv /\ OwnedIsThere /\ [Next]_vars => [Sealing!Next]_Sealing!vars
  BY StepSeen
<1>3. QED BY <1>1, <1>2, Invariant, Owned, PTL DEF Spec, KeepsSeal, Sealing!Spec
=============================================================================
