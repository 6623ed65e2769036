--------------------------- MODULE OutputFileProofs ---------------------------
(***************************************************************************)
(* Proofs about OutputFile, for any writers, readers, contents and limits. *)
(*                                                                         *)
(* A file is identified with its creator: whoever has opened w knows that  *)
(* w created it, and whoever opened it without being its creator was given *)
(* --force (Opened). What a file holds is then determined by how far its   *)
(* creator has come, unless somebody forced (Whole); a reader's blocks are *)
(* a prefix of that (PrefixesRead).                                        *)
(***************************************************************************)
EXTENDS OutputFile, TLAPS

(* The first n blocks of a writer, or of a file nobody here creates.       *)
Run(f, n) == [k \in 1..n |-> Block(f, k)]

(* How many blocks the creator of a file has put into it.                  *)
Size(f) == IF f \in Writer THEN (IF out[f] = f THEN written[f] ELSE 0) ELSE 1

(* Has somebody truncated a file of another's?                             *)
Overwritten(f) == \E w \in Forced \ {f} : out[w] = f

(* Where a writer is tells what it has opened and written.                 *)
Progress ==
  \A w \in Writer :
    /\ pc[w] \in {"writeCheck", "writeOpen"} => out[w] = None
    /\ out[w] = None => written[w] = 0
    /\ pc[w] = "write" => out[w] # None /\ written[w] < Length[w]
    /\ pc[w] \in {"sync", "hashCheck", "hashOpen", "hash"} =>
         out[w] # None /\ written[w] = Length[w]

(* Who has a file open.                                                    *)
Opened ==
  /\ name # Target
  /\ name \in Writer => out[name] = name
  /\ \A w \in Writer :
       /\ out[w] \notin {None, w} => w \in Forced
       /\ out[w] \in Writer => out[out[w]] = out[w]

Whole == \A f \in Files : Overwritten(f) \/ bytes[f] = Run(f, Size(f))

(* A link is at the path of a forced write, or was opened by one, only     *)
(* after a race.                                                           *)
Raced ==
  /\ name = Link /\ (\E w \in Forced : pc[w] = "writeOpen") => raced
  /\ \A w \in Writer : out[w] = Target => raced /\ w \in Forced

IInv == TypeOK /\ Progress /\ Opened /\ Whole /\ Raced

(* Where a reader is tells whether it has opened and read something.       *)
Reading ==
  \A p \in Process :
    /\ pc[p] \in {"hash", "stat", "load"} => input[p] # None
    /\ pc[p] \notin {"hash", "stat", "load"} \cup Ended => input[p] = None
    /\ input[p] = None => seen[p] = <<>>

-----------------------------------------------------------------------------
LEMMA RunFacts ==
  ASSUME NEW f \in Files, NEW n \in Nat
  PROVE  /\ Run(f, n) \in Seq(Blocks) /\ Len(Run(f, n)) = n
         /\ Append(Run(f, n), Block(f, n + 1)) = Run(f, n + 1)
         /\ Put(Run(f, n), n + 1, Block(f, n + 1)) = Run(f, n + 1)
<1>1. \A k \in 1..n + 1 : Block(f, k) \in Blocks
  BY DEF Block, Blocks, Files
<1>2. Run(f, n) \in Seq(Blocks) /\ Len(Run(f, n)) = n
  BY <1>1 DEF Run
<1>3. Append(Run(f, n), Block(f, n + 1)) = Run(f, n + 1)
  BY <1>1, <1>2 DEF Run
<1>4. Put(Run(f, n), n + 1, Block(f, n + 1)) = Run(f, n + 1)
  BY <1>2 DEF Put, Run
<1>5. QED BY <1>2, <1>3, <1>4

LEMMA FirstBlock ==
  ASSUME NEW f \in {Old, Target}
  PROVE  f \in Files /\ f \notin Writer /\ Untouched(f) = Run(f, 1)
<1>1. f \in Files /\ f \notin Writer
  BY FileAssumption DEF Files
<1>2. Run(f, 1) = <<Block(f, 1)>>
  BY DEF Run
<1>3. QED BY <1>1, <1>2 DEF Untouched

LEMMA PutType ==
  ASSUME NEW s \in Seq(Blocks), NEW n \in Nat \ {0}, NEW b \in Blocks
  PROVE  Put(s, n, b) \in Seq(Blocks)
<1>1. Hole \in Blocks
  BY DEF Blocks
<1>2. \A k \in 1..Len(s) : s[k] \in Blocks
  OBVIOUS
<1>3. CASE n > Len(s)
  BY <1>1, <1>2, <1>3 DEF Put
<1>4. CASE ~(n > Len(s))
  BY <1>1, <1>2, <1>4 DEF Put
<1>5. QED BY <1>3, <1>4

-----------------------------------------------------------------------------
LEMMA InitInv == Init => IInv
<1> SUFFICES ASSUME Init PROVE IInv
  OBVIOUS
<1>1. \A f \in {Old, Target} : Untouched(f) = Run(f, 1) /\ Run(f, 1) \in Seq(Blocks)
  BY FirstBlock, RunFacts
<1>2. \A f \in Writer : Untouched(f) = <<>> /\ Run(f, 0) = <<>>
  BY FileAssumption DEF Untouched, Run
<1>3. <<>> \in Seq(Blocks)
  OBVIOUS
<1>4. TypeOK
  <2>1. bytes \in [Files -> Seq(Blocks)]
    BY <1>1, <1>2, <1>3 DEF Init, Files
  <2>2. name \in Files \cup {Absent, Link} /\ input \in [Process -> Files \cup {None}]
        /\ out \in [Writer -> Files \cup {None}] /\ seen \in [Process -> Seq(Blocks)]
    BY <1>3 DEF Init, Files
  <2>3. written \in [Writer -> Nat] /\ swaps \in 0..MaxSwaps
    BY FileAssumption DEF Init
  <2>4. raced \in BOOLEAN
    BY DEF Init
  <2>5. \A w \in Writer : written[w] <= Length[w]
    BY FileAssumption DEF Init
  <2>6. pc \in [Process -> Places]
    BY DEF Init, Places, Ended
  <2>7. QED BY <2>1, <2>2, <2>3, <2>6, <2>5, <2>4 DEF TypeOK
<1>5. Progress /\ Opened /\ Raced
  BY FileAssumption DEF Init, Progress, Opened, Raced, Process, Files
<1>6. Whole
  BY <1>1, <1>2, FileAssumption DEF Init, Whole, Size, Files
<1>7. QED BY <1>4, <1>5, <1>6 DEF IInv

(* A step that changes neither the path nor the files nor who has one open *)
(* keeps everything that does not depend on where processes are.           *)
LEMMA Aside ==
  ASSUME IInv, UNCHANGED <<name, bytes, out, written, raced>>
  PROVE  Opened' /\ Whole' /\ (\A w \in Writer : out'[w] = Target => raced' /\ w \in Forced)
BY DEF IInv, Opened, Whole, Raced, Overwritten, Size

LEMMA OpenNewInv ==
  ASSUME IInv, NEW w \in Writer, OpenNew(w)
  PROVE  IInv'
<1> USE FileAssumption DEF IInv
<1>1. /\ w \in Process /\ w \in Files /\ pc[w] = "writeOpen" /\ out[w] = None
      /\ pc' = [pc EXCEPT ![w] = "write"] /\ out' = [out EXCEPT ![w] = w] /\ name' = w
      /\ UNCHANGED <<bytes, input, written, seen, raced, swaps>> /\ written[w] = 0
  BY DEF OpenNew, At, Process, Files, Progress
<1>2. TypeOK'
  BY <1>1 DEF TypeOK, Places
<1>3. out'[w] = w /\ (\A v \in Writer \ {w} : out'[v] = out[v]) /\ w # None /\ w # Target
  BY <1>1 DEF TypeOK
<1>4. Progress'
  BY <1>1, <1>3 DEF TypeOK, Progress, Process
<1>5. Opened'
  BY <1>1, <1>3 DEF Opened
<1>6. Whole'
  <2> SUFFICES ASSUME NEW f \in Files, ~Overwritten(f)'
               PROVE  bytes'[f] = Run(f, Size(f)')
    BY DEF Whole
  <2>1. ~Overwritten(f)
    BY <1>1, <1>3 DEF Overwritten, Files
  <2>2. bytes[f] = Run(f, Size(f))
    BY <2>1 DEF Whole
  <2>3. Size(f)' = Size(f)
    BY <1>1, <1>3 DEF Size
  <2>4. QED BY <1>1, <2>2, <2>3
<1>7. Raced'
  BY <1>1, <1>3 DEF Raced
<1>8. QED BY <1>2, <1>4, <1>5, <1>6, <1>7

LEMMA OpenTruncatedInv ==
  ASSUME IInv, NEW w \in Writer, OpenTruncated(w)
  PROVE  IInv'
<1> USE FileAssumption DEF IInv
<1>1. /\ w \in Process /\ w \in Forced /\ pc[w] = "writeOpen" /\ out[w] = None
      /\ pc' = [pc EXCEPT ![w] = "write"] /\ out' = [out EXCEPT ![w] = Reached]
      /\ bytes' = [bytes EXCEPT ![Reached] = <<>>] /\ name # Absent
      /\ UNCHANGED <<name, input, written, seen, raced, swaps>> /\ written[w] = 0
  BY DEF OpenTruncated, NewOnly, At, Process, Progress
<1>2. Reached \in Files /\ Reached # w /\ Reached # None /\ (Reached = Target => name = Link)
      /\ (Reached \in Writer => out[Reached] = Reached)
  BY <1>1 DEF Reached, TypeOK, Opened, Files
<1>3. out'[w] = Reached /\ (\A v \in Writer \ {w} : out'[v] = out[v])
  BY <1>1 DEF TypeOK
<1>4. TypeOK'
  <2>1. <<>> \in Seq(Blocks)
    OBVIOUS
  <2>2. QED BY <1>1, <1>2, <2>1 DEF TypeOK, Places
<1>5. Progress'
  BY <1>1, <1>2, <1>3 DEF TypeOK, Progress, Process
<1>6. Opened'
  BY <1>1, <1>2, <1>3 DEF Opened
<1>7. Whole'
  <2> SUFFICES ASSUME NEW f \in Files, ~Overwritten(f)'
               PROVE  bytes'[f] = Run(f, Size(f)')
    BY DEF Whole
  <2>1. \A v \in Forced \ {f} : out'[v] # f
    BY DEF Overwritten
  <2>2. f # Reached /\ ~Overwritten(f)
    <3>1. f # Reached
      BY <1>1, <1>2, <1>3, <2>1
    <3>2. ~Overwritten(f)
      BY <1>1, <1>2, <1>3, <2>1 DEF Overwritten, Files
    <3>3. QED BY <3>1, <3>2
  <2>3. bytes'[f] = Run(f, Size(f))
    BY <1>1, <2>2 DEF Whole, TypeOK
  <2>4. Size(f)' = Size(f)
    BY <1>1, <1>2, <1>3, <2>2 DEF Size
  <2>5. QED BY <2>3, <2>4
<1>8. Raced'
  BY <1>1, <1>2, <1>3 DEF Raced
<1>9. QED BY <1>4, <1>5, <1>6, <1>7, <1>8

LEMMA WriteBlockInv ==
  ASSUME IInv, NEW w \in Writer, WriteBlock(w)
  PROVE  IInv'
<1> USE FileAssumption DEF IInv
<1> DEFINE o == out[w]
           b == Block(w, written[w] + 1)
           c == Put(bytes[o], Place(w), b)
<1>1. /\ w \in Process /\ pc[w] = "write" /\ o \in Files /\ o # None
      /\ written[w] \in Nat /\ Length[w] \in Nat /\ written[w] < Length[w]
  BY DEF WriteBlock, At, Process, Progress, TypeOK
<1>2. /\ bytes' = [bytes EXCEPT ![o] = c] /\ written' = [written EXCEPT ![w] = @ + 1]
      /\ UNCHANGED <<name, out, input, seen, raced, swaps>>
  BY DEF WriteBlock, TypeOK
<1>3. pc' = [pc EXCEPT ![w] = IF WroteAll(w) THEN "sync" ELSE "write"]
  BY DEF WriteBlock, At
<1>4. TypeOK'
  <2>1. b \in Blocks /\ Place(w) \in Nat \ {0} /\ bytes[o] \in Seq(Blocks)
    BY <1>1 DEF Blocks, Block, Place, TypeOK
  <2>2. c \in Seq(Blocks)
    BY <2>1, PutType
  <2>3. bytes' \in [Files -> Seq(Blocks)]
    BY <1>1, <1>2, <2>2 DEF TypeOK
  <2>4. written' \in [Writer -> Nat] /\ \A v \in Writer : written'[v] <= Length[v]
    BY <1>1, <1>2 DEF TypeOK
  <2>5. pc' \in [Process -> Places]
    BY <1>3 DEF TypeOK, Places, Ended
  <2>6. QED BY <1>2, <2>3, <2>4, <2>5 DEF TypeOK
<1>5. /\ (\A v \in Writer \ {w} : written'[v] = written[v]) /\ written'[w] = written[w] + 1
      /\ \A p \in Process \ {w} : pc'[p] = pc[p]
      /\ pc'[w] = IF written'[w] = Length[w] THEN "sync" ELSE "write"
  BY <1>1, <1>2, <1>3 DEF TypeOK, WroteAll
<1>6. Progress'
  <2> SUFFICES ASSUME NEW v \in Writer
               PROVE  /\ pc'[v] \in {"writeCheck", "writeOpen"} => out'[v] = None
                      /\ out'[v] = None => written'[v] = 0
                      /\ pc'[v] = "write" => out'[v] # None /\ written'[v] < Length[v]
                      /\ pc'[v] \in {"sync", "hashCheck", "hashOpen", "hash"} =>
                           out'[v] # None /\ written'[v] = Length[v]
    BY DEF Progress
  <2>1. CASE v = w
    BY <1>1, <1>2, <1>5, <2>1
  <2>2. CASE v # w
    BY <1>2, <1>5, <2>2 DEF Progress, Process
  <2>3. QED BY <2>1, <2>2
<1>7. Opened'
  BY <1>2 DEF Opened
<1>8. Whole'
  <2> SUFFICES ASSUME NEW f \in Files, ~Overwritten(f)'
               PROVE  bytes'[f] = Run(f, Size(f)')
    BY DEF Whole
  <2>1. ~Overwritten(f) /\ bytes[f] = Run(f, Size(f))
    BY <1>2 DEF Overwritten, Whole
  <2>2. CASE f # o
    <3>1. f = w => out[w] # f
      BY <2>2
    <3>2. Size(f)' = Size(f)
      BY <1>2, <1>5, <3>1 DEF Size
    <3>3. bytes'[f] = bytes[f]
      BY <1>1, <1>2, <2>2 DEF TypeOK
    <3>4. QED BY <2>1, <3>2, <3>3
  <2>3. CASE f = o
    <3>1. f = w
      BY <1>1, <2>1, <2>3 DEF Opened, Overwritten
    <3>2. Size(f) = written[w] /\ Size(f)' = written[w] + 1
      BY <1>2, <1>5, <2>3, <3>1 DEF Size
    <3>3. Put(Run(w, written[w]), written[w] + 1, b) = Run(w, written[w] + 1)
      BY <1>1, <2>3, <3>1, RunFacts
    <3>4. c = Run(w, written[w] + 1)
      BY <2>1, <2>3, <3>1, <3>2, <3>3 DEF Place
    <3>5. bytes'[f] = c
      BY <1>1, <1>2, <2>3 DEF TypeOK
    <3>6. QED BY <3>1, <3>2, <3>4, <3>5
  <2>4. QED BY <2>2, <2>3
<1>9. Raced'
  <2>1. \A v \in Forced : pc'[v] = "writeOpen" => pc[v] = "writeOpen"
    BY <1>5 DEF Process
  <2>2. QED BY <1>2, <2>1 DEF Raced
<1>10. QED BY <1>4, <1>6, <1>7, <1>8, <1>9

(* A process that only goes from one step to another.                      *)
LEMMA Moves ==
  ASSUME IInv, TypeOK', NEW p \in Process, NEW there,
         pc' = [pc EXCEPT ![p] = there], UNCHANGED <<name, bytes, out, written, raced>>,
         there \notin {"writeCheck", "write"},
         there = "writeOpen" => pc[p] = "writeCheck" /\ name # Link,
         there \in {"sync", "hashCheck", "hashOpen", "hash"} /\ p \in Writer =>
           pc[p] \in {"sync", "hashCheck", "hashOpen", "hash"}
  PROVE  IInv'
<1> USE FileAssumption DEF IInv
<1>1. pc'[p] = there /\ \A q \in Process \ {p} : pc'[q] = pc[q]
  BY DEF TypeOK
<1>2. Progress'
  <2> SUFFICES ASSUME NEW v \in Writer
               PROVE  /\ pc'[v] \in {"writeCheck", "writeOpen"} => out'[v] = None
                      /\ out'[v] = None => written'[v] = 0
                      /\ pc'[v] = "write" => out'[v] # None /\ written'[v] < Length[v]
                      /\ pc'[v] \in {"sync", "hashCheck", "hashOpen", "hash"} =>
                           out'[v] # None /\ written'[v] = Length[v]
    BY DEF Progress
  <2>1. QED BY <1>1 DEF Progress, Process
<1>3. Raced'
  <2>1. name = Link => \A v \in Forced : pc'[v] = "writeOpen" => pc[v] = "writeOpen"
    BY <1>1 DEF Process
  <2>2. QED BY <2>1 DEF Raced
<1>4. QED BY <1>2, <1>3, Aside

(* The types after a step that changes only where a process is and what it *)
(* has read.                                                               *)
LEMMA StepType ==
  ASSUME TypeOK, NEW p \in Process, NEW there \in Places,
         pc' = [pc EXCEPT ![p] = there],
         UNCHANGED <<name, bytes, out, written, raced, swaps>>,
         input' \in [Process -> Files \cup {None}], seen' \in [Process -> Seq(Blocks)]
  PROVE  TypeOK'
BY DEF TypeOK

LEMMA RefuseInv ==
  ASSUME IInv, NEW p \in Process, NEW here, Refuse(p, here)
  PROVE  IInv'
<1>1. pc' = [pc EXCEPT ![p] = "failed"] /\ "failed" \in Places
      /\ UNCHANGED <<name, bytes, out, input, written, seen, raced, swaps>>
  BY DEF Refuse, At, Places, Ended
<1>2. TypeOK'
  BY <1>1, StepType DEF IInv, TypeOK
<1>3. QED BY <1>1, <1>2, Moves

LEMMA WriteInv ==
  ASSUME IInv, NEW w \in Writer, Write(w)
  PROVE  IInv'
<1>0. w \in Process
  BY DEF Process
<1>1. CASE WriteCheck(w)
  <2>1. pc[w] = "writeCheck" /\ name # Link /\ pc' = [pc EXCEPT ![w] = "writeOpen"]
        /\ UNCHANGED <<name, bytes, out, input, written, seen, raced, swaps>>
    BY <1>1 DEF WriteCheck, RefusesLink, At
  <2>2. TypeOK'
    BY <1>0, <2>1, StepType DEF IInv, TypeOK, Places
  <2>3. QED BY <1>0, <2>1, <2>2, Moves
<1>2. CASE SyncAll(w)
  <2> DEFINE there == IF w \in Builder THEN "hashCheck" ELSE "done"
  <2>1. pc[w] = "sync" /\ pc' = [pc EXCEPT ![w] = there]
        /\ UNCHANGED <<name, bytes, out, input, written, seen, raced, swaps>>
    BY <1>2 DEF SyncAll, At
  <2>2. there \in {"hashCheck", "done"} /\ there \in Places
    BY DEF Places, Ended
  <2> HIDE DEF there
  <2>3. TypeOK'
    BY <1>0, <2>1, <2>2, StepType DEF IInv, TypeOK
  <2>4. QED BY <1>0, <2>1, <2>2, <2>3, Moves
<1>3. QED
  BY <1>0, <1>1, <1>2, RefuseInv, OpenNewInv, OpenTruncatedInv, WriteBlockInv
     DEF Write, WriteRefused, OpenExclusiveFails, WriteFails

LEMMA ReaderMoves ==
  ASSUME IInv, NEW p \in Process, NEW here, NEW there \in Places, At(p, here, there),
         UNCHANGED <<name, bytes, out, written, raced, swaps>>,
         input' \in [Process -> Files \cup {None}], seen' \in [Process -> Seq(Blocks)],
         there \notin {"writeCheck", "writeOpen", "write", "sync"},
         there \in {"hashCheck", "hashOpen", "hash"} => here \in {"hashCheck", "hashOpen", "hash"}
  PROVE  IInv'
<1>1. pc[p] = here /\ pc' = [pc EXCEPT ![p] = there]
  BY DEF At
<1>2. TypeOK'
  BY <1>1, StepType DEF IInv
<1>3. QED BY <1>1, <1>2, Moves

LEMMA OpenToReadInv ==
  ASSUME IInv, NEW p \in Process, NEW here, NEW there, OpenToRead(p, here, there),
         <<here, there>> \in {<<"hashOpen", "hash">>, <<"loadOpen", "stat">>}
  PROVE  IInv'
<1>1. Reached \in Files
  BY DEF OpenToRead, Reached, IInv, TypeOK, Files
<1>2. input' \in [Process -> Files \cup {None}] /\ seen' \in [Process -> Seq(Blocks)]
  BY <1>1 DEF OpenToRead, IInv, TypeOK
<1>3. there \in Places
  BY DEF Places
<1>4. QED BY <1>2, <1>3, ReaderMoves DEF OpenToRead

LEMMA ReadBlockInv ==
  ASSUME IInv, Reading, NEW p \in Process, NEW here \in {"hash", "load"}, ReadBlock(p, here)
  PROVE  IInv'
<1>1. input[p] \in Files /\ seen[p] \in Seq(Blocks)
  BY DEF ReadBlock, At, Reading, IInv, TypeOK
<1>2. bytes[input[p]] \in Seq(Blocks)
  BY <1>1 DEF IInv, TypeOK
<1>3. bytes[input[p]][Len(seen[p]) + 1] \in Blocks
  BY <1>1, <1>2 DEF ReadBlock
<1>4. input' \in [Process -> Files \cup {None}] /\ seen' \in [Process -> Seq(Blocks)]
  BY <1>1, <1>3 DEF ReadBlock, IInv, TypeOK
<1>5. here \in Places
  BY DEF Places
<1>6. QED BY <1>4, <1>5, ReaderMoves DEF ReadBlock

LEMMA ReadInv ==
  ASSUME IInv, Reading, NEW p \in Process, Hash(p) \/ Load(p)
  PROVE  IInv'
<1>1. input \in [Process -> Files \cup {None}] /\ seen \in [Process -> Seq(Blocks)]
  BY DEF IInv, TypeOK
<1>2. {"hashCheck", "hashOpen", "hash", "loadCheck", "loadOpen", "stat", "load", "done", "failed"}
         \subseteq Places
  BY DEF Places, Ended
<1>3. CASE Look(p, "hashCheck", "hashOpen") \/ Look(p, "loadCheck", "loadOpen")
  BY <1>1, <1>2, <1>3, ReaderMoves DEF Look
<1>4. CASE HashEnd(p)
  BY <1>1, <1>2, <1>4, ReaderMoves DEF HashEnd
<1>5. CASE Stat(p)
  <2> DEFINE there == IF TooLong(p) THEN "failed" ELSE "load"
  <2>1. there \in {"failed", "load"} /\ there \in Places
    BY <1>2
  <2>2. At(p, "stat", there) /\ UNCHANGED <<name, bytes, out, input, written, seen, raced, swaps>>
    BY <1>5 DEF Stat
  <2> HIDE DEF there
  <2>3. QED BY <1>1, <2>1, <2>2, ReaderMoves
<1>6. CASE LoadEnd(p)
  <2> DEFINE there == IF Len(seen[p]) > Limit THEN "failed" ELSE "done"
  <2>1. there \in {"failed", "done"} /\ there \in Places
    BY <1>2
  <2>2. At(p, "load", there) /\ UNCHANGED <<name, bytes, out, input, written, seen, raced, swaps>>
    BY <1>6 DEF LoadEnd
  <2> HIDE DEF there
  <2>3. QED BY <1>1, <2>1, <2>2, ReaderMoves
<1>7. QED
  BY <1>3, <1>4, <1>5, <1>6, RefuseInv, OpenToReadInv, ReadBlockInv DEF Hash, Load, NotThere

LEMMA KillInv ==
  ASSUME IInv, NEW p \in Process, Kill(p)
  PROVE  IInv'
<1>1. pc' = [pc EXCEPT ![p] = "killed"] /\ "killed" \in Places
      /\ UNCHANGED <<name, bytes, out, input, written, seen, raced, swaps>>
  BY DEF Kill, Places, Ended
<1>2. TypeOK'
  BY <1>1, StepType DEF IInv, TypeOK
<1>3. QED BY <1>1, <1>2, Moves

LEMMA SwapInv ==
  ASSUME IInv, Swap
  PROVE  IInv'
<1> USE FileAssumption DEF IInv
<1>1. name' \in {Absent, Link} /\ (name' = Link => name # Link)
      /\ UNCHANGED <<bytes, pc, out, input, written, seen>>
  BY DEF Swap
<1>2. raced => raced'
  BY DEF Swap
<1>3. TypeOK'
  <2>1. raced' \in BOOLEAN
    BY DEF Swap
  <2>2. swaps' \in 0..MaxSwaps
    BY DEF Swap, TypeOK
  <2>3. QED BY <1>1, <2>1, <2>2 DEF TypeOK
<1>4. Progress'
  BY <1>1 DEF Progress
<1>5. Opened'
  BY <1>1 DEF Opened
<1>6. Whole'
  BY <1>1 DEF Whole, Overwritten, Size
<1>7. Raced'
  BY <1>1, <1>2 DEF Swap, Raced
<1>8. QED BY <1>3, <1>4, <1>5, <1>6, <1>7

LEMMA ReadingInv ==
  ASSUME IInv, Reading, [Next]_vars
  PROVE  Reading'
<1> USE FileAssumption
<1> SUFFICES ASSUME NEW q \in Process
             PROVE  /\ pc'[q] \in {"hash", "stat", "load"} => input'[q] # None
                    /\ pc'[q] \notin {"hash", "stat", "load"} \cup Ended => input'[q] = None
                    /\ input'[q] = None => seen'[q] = <<>>
  BY DEF Reading
<1>1. CASE \E p \in Process : p \in Writer /\ Write(p)
  <2>1. PICK p \in Writer : p \in Process /\ Write(p)
    BY <1>1
  <2>2. UNCHANGED <<input, seen>>
    BY <2>1 DEF Write, WriteCheck, WriteRefused, OpenNew, OpenTruncated, OpenExclusiveFails,
                WriteBlock, SyncAll, WriteFails, Refuse
  <2>3. pc[p] \in {"writeCheck", "writeOpen", "write", "sync"}
        /\ \E there \in {"writeOpen", "write", "sync", "hashCheck", "done", "failed"} :
              pc' = [pc EXCEPT ![p] = there]
    BY <2>1 DEF Write, WriteCheck, WriteRefused, OpenNew, OpenTruncated, OpenExclusiveFails,
                WriteBlock, SyncAll, WriteFails, Refuse, At
  <2>4. (q # p => pc'[q] = pc[q]) /\ pc'[p] \notin {"hash", "stat", "load"}
    BY <2>1, <2>3 DEF IInv, TypeOK
  <2>5. QED BY <2>2, <2>3, <2>4 DEF Reading, Ended
<1>2. CASE \E p \in Process : Kill(p)
  BY <1>2 DEF Kill, Reading, IInv, TypeOK, Ended
<1>3. CASE Swap \/ UNCHANGED vars
  BY <1>3 DEF Swap, vars, Reading
<1>4. ASSUME NEW p \in Process, Hash(p) \/ Load(p)
      PROVE  /\ pc'[q] \in {"hash", "stat", "load"} => input'[q] # None
             /\ pc'[q] \notin {"hash", "stat", "load"} \cup Ended => input'[q] = None
             /\ input'[q] = None => seen'[q] = <<>>
  <2>1. CASE Look(p, "hashCheck", "hashOpen") \/ Look(p, "loadCheck", "loadOpen")
             \/ NotThere(p, "hashCheck", "hashOpen") \/ NotThere(p, "loadCheck", "loadOpen")
    BY <2>1 DEF Look, NotThere, Refuse, At, Reading, IInv, TypeOK, Ended
  <2>2. CASE OpenToRead(p, "hashOpen", "hash") \/ OpenToRead(p, "loadOpen", "stat")
    <3>1. Reached # None
      BY <2>2 DEF OpenToRead, Reached, IInv, TypeOK, Files
    <3>2. QED BY <2>2, <3>1 DEF OpenToRead, At, Reading, IInv, TypeOK, Ended
  <2>3. CASE ReadBlock(p, "hash") \/ ReadBlock(p, "load")
    BY <2>3 DEF ReadBlock, At, Reading, IInv, TypeOK, Ended
  <2>4. CASE HashEnd(p) \/ Stat(p) \/ LoadEnd(p)
    BY <2>4 DEF HashEnd, Stat, LoadEnd, At, Reading, IInv, TypeOK, Ended
  <2>5. QED BY <1>4, <2>1, <2>2, <2>3, <2>4 DEF Hash, Load
<1>5. QED BY <1>1, <1>2, <1>3, <1>4 DEF Next, Step

LEMMA NextInv ==
  ASSUME IInv, Reading, [Next]_vars
  PROVE  IInv' /\ Reading'
<1>1. CASE \E p \in Process : Step(p) \/ Kill(p)
  BY <1>1, WriteInv, ReadInv, KillInv, ReadingInv DEF Step
<1>2. CASE UNCHANGED vars
  <2>1. UNCHANGED <<name, bytes, pc, out, input, written, seen, raced, swaps>>
    BY <1>2 DEF vars
  <2>2. IInv'
    BY <2>1, Aside DEF IInv, TypeOK, Progress, Raced
  <2>3. QED BY <2>2, ReadingInv
<1>3. QED BY <1>1, <1>2, SwapInv, ReadingInv DEF Next

(* The invariant of the files and their writers, which every step of every *)
(* process keeps (write_regular_file).                                     *)
THEOREM Invariant == Spec => [](IInv /\ Reading)
<1>1. Init => Reading
  BY FileAssumption DEF Init, Reading, Ended
<1>2. QED BY <1>1, InitInv, NextInv, PTL DEF Spec

(* Every value has its type.                                               *)
THEOREM TypeCorrect == Spec => []TypeOK
<1>1. IInv => TypeOK
  BY DEF IInv
<1>2. QED BY <1>1, Invariant, PTL

-----------------------------------------------------------------------------
LEMMA RunPrefix ==
  ASSUME NEW f \in Files, NEW n \in Nat, NEW m \in Nat, m <= n
  PROVE  IsPrefix(Run(f, m), Run(f, n))
<1>1. /\ Run(f, m) \in Seq(Blocks) /\ Len(Run(f, m)) = m
      /\ Run(f, n) \in Seq(Blocks) /\ Len(Run(f, n)) = n
  BY RunFacts
<1>2. SubSeq(Run(f, m), 1, m) = SubSeq(Run(f, n), 1, m)
  BY <1>1 DEF Run
<1>3. QED BY <1>1, <1>2 DEF IsPrefix

(* What the creator of a file has put there is no more than it writes.     *)
LEMMA SizeBound ==
  ASSUME IInv, NEW f \in Files
  PROVE  /\ Size(f) \in Nat
         /\ f \in Writer => Contents(f) = Run(f, Length[f]) /\ Size(f) <= Length[f]
         /\ f \notin Writer => Untouched(f) = Run(f, 1) /\ Size(f) = 1
BY FileAssumption, FirstBlock DEF IInv, TypeOK, Size, Contents, Run, Files

(* Without --force nothing that exists is replaced, whoever races.         *)
THEOREM ForceAlone == Spec => []OnlyForceReplaces
<1>1. IInv => OnlyForceReplaces
  <2> SUFFICES ASSUME IInv, NEW f \in Files, ~Overwritten(f)
               PROVE  Genuine(f)
    BY DEF OnlyForceReplaces, Overwritten
  <2>1. bytes[f] = Run(f, Size(f))
    BY DEF IInv, Whole
  <2>2. CASE f \in Writer
    <3>1. IsPrefix(Run(f, Size(f)), Run(f, Length[f]))
      BY <2>2, SizeBound, RunPrefix, FileAssumption
    <3>2. QED BY <2>1, <2>2, <3>1, SizeBound DEF Genuine
  <2>3. CASE f \notin Writer
    BY <2>1, <2>3, SizeBound DEF Genuine
  <2>4. QED BY <2>2, <2>3
<1>2. QED BY <1>1, Invariant, PTL

(* A link is followed only if it was put there after a forced write had    *)
(* looked.                                                                 *)
THEOREM LinkNeedsRace == Spec => []LinkFollowedOnlyInRace
<1>1. IInv => LinkFollowedOnlyInRace
  BY DEF IInv, Raced, LinkFollowedOnlyInRace
<1>2. QED BY <1>1, Invariant, PTL

-----------------------------------------------------------------------------
(* What has been read of a file nobody overwrote.                          *)
PrefixesRead ==
  \A p \in Process :
    \/ input[p] = None \/ Overwritten(input[p])
    \/ seen[p] = Run(input[p], Len(seen[p])) /\ Len(seen[p]) <= Size(input[p])

(* A writer opens one file, once, and what it has written only grows.      *)
LEMMA Monotone ==
  ASSUME IInv, [Next]_vars
  PROVE  /\ \A w \in Writer : written'[w] = written[w] \/ written'[w] = written[w] + 1
         /\ \A w \in Writer : out[w] = None \/ out'[w] = out[w]
<1>1. CASE \E w \in Writer : Write(w)
  <2>1. PICK w \in Writer : Write(w)
    BY <1>1
  <2>2. CASE OpenNew(w) \/ OpenTruncated(w)
    <3>1. out[w] = None
      BY <2>2 DEF OpenNew, OpenTruncated, At, IInv, Progress
    <3>2. QED BY <2>2, <3>1 DEF OpenNew, OpenTruncated, IInv, TypeOK
  <2>3. CASE WriteBlock(w)
    BY <2>3 DEF WriteBlock, IInv, TypeOK
  <2>4. QED BY <2>1, <2>2, <2>3 DEF Write, WriteCheck, WriteRefused, OpenExclusiveFails,
                                   SyncAll, WriteFails, Refuse
<1>2. CASE (\E p \in Process : Hash(p) \/ Load(p) \/ Kill(p)) \/ Swap \/ UNCHANGED vars
  BY <1>2 DEF Hash, Load, Look, OpenToRead, NotThere, Refuse, ReadBlock, HashEnd, Stat, LoadEnd,
              Kill, Swap, vars
<1>3. QED BY <1>1, <1>2 DEF Next, Step

(* Files only grow, and what was overwritten stays so.                     *)
LEMMA Grows ==
  ASSUME IInv, [Next]_vars, NEW f \in Files
  PROVE  (Overwritten(f) => Overwritten(f)') /\ Size(f) <= Size(f)'
<1> USE FileAssumption
<1>1. /\ \A w \in Writer : written'[w] = written[w] \/ written'[w] = written[w] + 1
      /\ \A w \in Writer : out[w] = None \/ out'[w] = out[w]
  BY Monotone
<1>2. \A w \in Writer : written[w] \in Nat
  BY DEF IInv, TypeOK
<1>3. f # None
  BY DEF Files
<1>4. Overwritten(f) => Overwritten(f)'
  BY <1>1, <1>3 DEF Overwritten
<1>5. Size(f) <= Size(f)'
  <2>1. CASE f \in Writer /\ out[f] = f
    BY <1>1, <1>2, <1>3, <2>1 DEF Size
  <2>2. CASE ~(f \in Writer /\ out[f] = f)
    BY <1>1, <1>2, <2>2 DEF Size
  <2>3. QED BY <2>1, <2>2
<1>6. QED BY <1>4, <1>5

(* A step either leaves a reader alone, or opens its file, or reads one    *)
(* block that is there.                                                    *)
LEMMA Reads ==
  ASSUME IInv, Reading, [Next]_vars, NEW q \in Process
  PROVE  \/ input'[q] = input[q] /\ seen'[q] = seen[q]
         \/ input[q] = None /\ input'[q] = Reached /\ name # Absent /\ seen'[q] = <<>>
            /\ UNCHANGED <<name, bytes, out, written, swaps>>
            /\ (pc[q] = "hashOpen" \/ q \in Loader) /\ pc'[q] \in {"hash", "stat"}
         \/ /\ input[q] # None /\ input'[q] = input[q] /\ Len(seen[q]) < Len(bytes[input[q]])
            /\ seen'[q] = Append(seen[q], bytes[input[q]][Len(seen[q]) + 1])
            /\ pc[q] \in {"hash", "load"} /\ pc' = pc
            /\ (pc[q] = "load" => Len(seen[q]) < Limit + 1)
            /\ UNCHANGED <<name, bytes, out, written, swaps>>
<1> DEFINE Goal ==
         \/ input'[q] = input[q] /\ seen'[q] = seen[q]
         \/ input[q] = None /\ input'[q] = Reached /\ name # Absent /\ seen'[q] = <<>>
            /\ UNCHANGED <<name, bytes, out, written, swaps>>
            /\ (pc[q] = "hashOpen" \/ q \in Loader) /\ pc'[q] \in {"hash", "stat"}
         \/ /\ input[q] # None /\ input'[q] = input[q] /\ Len(seen[q]) < Len(bytes[input[q]])
            /\ seen'[q] = Append(seen[q], bytes[input[q]][Len(seen[q]) + 1])
            /\ pc[q] \in {"hash", "load"} /\ pc' = pc
            /\ (pc[q] = "load" => Len(seen[q]) < Limit + 1)
            /\ UNCHANGED <<name, bytes, out, written, swaps>>
<1>1. CASE UNCHANGED <<input, seen>>
  BY <1>1
<1>2. ASSUME NEW p \in Process,
             OpenToRead(p, "hashOpen", "hash")
               \/ (p \in Loader /\ OpenToRead(p, "loadOpen", "stat"))
      PROVE  Goal
  <2>1. CASE p = q
    <3>1. input[q] = None /\ seen[q] = <<>>
      BY <1>2, <2>1 DEF OpenToRead, At, Reading, Ended
    <3>2. input'[q] = Reached /\ pc'[q] \in {"hash", "stat"}
      BY <1>2, <2>1 DEF OpenToRead, At, IInv, TypeOK
    <3>3. QED BY <1>2, <2>1, <3>1, <3>2 DEF OpenToRead, At
  <2>2. CASE p # q
    BY <1>2, <2>2 DEF OpenToRead, IInv, TypeOK
  <2>3. QED BY <2>1, <2>2
<1>3. ASSUME NEW p \in Process,
             ReadBlock(p, "hash") \/ (Len(seen[p]) < Taken(p) /\ ReadBlock(p, "load"))
      PROVE  Goal
  <2>1. CASE p = q
    <3>1. input[q] # None
      BY <1>3, <2>1 DEF ReadBlock, At, Reading
    <3>2. pc' = pc
      BY <1>3 DEF ReadBlock, At, IInv, TypeOK
    <3>3. seen'[q] = Append(seen[q], bytes[input[q]][Len(seen[q]) + 1])
      BY <1>3, <2>1 DEF ReadBlock, IInv, TypeOK
    <3>4. QED BY <1>3, <2>1, <3>1, <3>2, <3>3 DEF ReadBlock, At, Taken
  <2>2. CASE p # q
    BY <1>3, <2>2 DEF ReadBlock, IInv, TypeOK
  <2>3. QED BY <2>1, <2>2
<1>4. CASE \E p \in Process : Hash(p) \/ (p \in Loader /\ Load(p))
  BY <1>1, <1>2, <1>3, <1>4 DEF Hash, Load, Look, NotThere, Refuse, HashEnd, Stat, LoadEnd
<1>5. CASE (\E w \in Writer : Write(w)) \/ (\E p \in Process : Kill(p)) \/ Swap \/ UNCHANGED vars
  BY <1>1, <1>5 DEF Write, WriteCheck, WriteRefused, OpenNew, OpenTruncated, OpenExclusiveFails,
                    WriteBlock, SyncAll, WriteFails, Refuse, Kill, Swap, vars
<1>6. QED BY <1>4, <1>5 DEF Next, Step

LEMMA PrefixesInv ==
  ASSUME IInv, Reading, PrefixesRead, [Next]_vars
  PROVE  PrefixesRead'
<1>1. IInv' /\ \A q \in Process : seen'[q] \in Seq(Blocks) /\ seen[q] \in Seq(Blocks)
  BY NextInv DEF IInv, TypeOK
<1> SUFFICES ASSUME NEW q \in Process, NEW f \in Files, f = input'[q], ~Overwritten(f)'
             PROVE  seen'[q] = Run(f, Len(seen'[q])) /\ Len(seen'[q]) <= Size(f)'
  BY <1>1 DEF PrefixesRead, Overwritten, Size, IInv, TypeOK
<1> DEFINE g == input[q]
<1>2. Size(f) \in Nat /\ Size(f)' \in Nat /\ Size(f) <= Size(f)' /\ ~Overwritten(f) /\ f # None
  <2>1. Size(f) \in Nat /\ Size(f)' \in Nat
    BY <1>1 DEF IInv, TypeOK, Size
  <2>2. f # None
    BY FileAssumption DEF Files
  <2>3. QED BY <2>1, <2>2, Grows
<1>3. CASE f = g /\ seen'[q] = seen[q]
  BY <1>1, <1>2, <1>3 DEF PrefixesRead
<1>4. CASE g = None /\ seen'[q] = <<>>
  <2>1. Run(f, 0) = <<>>
    BY DEF Run
  <2>2. QED BY <1>2, <1>4, <2>1
<1>5. CASE /\ f = g /\ Len(seen[q]) < Len(bytes[g])
           /\ seen'[q] = Append(seen[q], bytes[g][Len(seen[q]) + 1])
  <2> DEFINE n == Len(seen[q])
  <2>1. n \in Nat /\ seen[q] = Run(f, n) /\ n <= Size(f)
    BY <1>1, <1>2, <1>5 DEF PrefixesRead
  <2>2. bytes[f] = Run(f, Size(f)) /\ Len(Run(f, Size(f))) = Size(f)
    BY <1>1, <1>2, RunFacts DEF IInv, Whole
  <2>3. n + 1 \in 1..Size(f)
    BY <1>2, <1>5, <2>1, <2>2
  <2>4. bytes[f][n + 1] = Block(f, n + 1)
    BY <2>2, <2>3 DEF Run
  <2>5. seen'[q] = Append(seen[q], bytes[f][n + 1])
    BY <1>5
  <2> HIDE DEF n
  <2>6. Append(Run(f, n), Block(f, n + 1)) = Run(f, n + 1) /\ Len(Run(f, n + 1)) = n + 1
    <3>1. n \in Nat /\ n + 1 \in Nat
      BY <2>1
    <3>2. Append(Run(f, n), Block(f, n + 1)) = Run(f, n + 1)
      BY <3>1, RunFacts
    <3>3. Len(Run(f, n + 1)) = n + 1
      BY <3>1, RunFacts
    <3>4. QED BY <3>2, <3>3
  <2>7. QED BY <1>2, <2>1, <2>3, <2>4, <2>5, <2>6
<1>6. QED BY <1>3, <1>4, <1>5, Reads

(* Reading on keeps what was read a prefix (sha256_file,                   *)
(* read_regular_file_limited).                                             *)
THEOREM PrefixInvariant == Spec => []PrefixesRead
<1>1. Init => PrefixesRead
  BY DEF Init, PrefixesRead
<1>2. QED BY <1>1, PrefixesInv, Invariant, PTL DEF Spec

(* Whoever reads a file while its creator writes it sees a prefix.         *)
THEOREM ReadersSeePrefix == Spec => []ReadsPrefix
<1>1. IInv /\ PrefixesRead => ReadsPrefix
  <2> SUFFICES ASSUME IInv, PrefixesRead, NEW p \in Process, input[p] # None, ~Overwritten(input[p])
               PROVE  IsPrefix(seen[p], IF input[p] \in Writer THEN Contents(input[p])
                                                               ELSE Untouched(input[p]))
    BY DEF ReadsPrefix, Overwritten
  <2> DEFINE f == input[p]
             n == Len(seen[p])
  <2>1. f \in Files /\ n \in Nat /\ seen[p] = Run(f, n) /\ n <= Size(f)
    BY DEF IInv, TypeOK, PrefixesRead
  <2> HIDE DEF n
  <2>2. CASE f \in Writer
    <3>1. Size(f) \in Nat /\ Size(f) <= Length[f] /\ Length[f] \in Nat
          /\ Contents(f) = Run(f, Length[f])
      BY <2>1, <2>2, SizeBound, FileAssumption
    <3>2. n <= Length[f]
      BY <2>1, <3>1
    <3>3. QED BY <2>1, <2>2, <3>1, <3>2, RunPrefix
  <2>3. CASE f \notin Writer
    <3>1. n <= 1 /\ Untouched(f) = Run(f, 1)
      BY <2>1, <2>3, SizeBound
    <3>2. QED BY <2>1, <2>3, <3>1, RunPrefix
  <2>4. QED BY <2>2, <2>3
<1>2. QED BY <1>1, PrefixInvariant, Invariant, PTL

-----------------------------------------------------------------------------
(* A loader never hashes, and takes no more than the limit and one block.  *)
TakesLittle ==
  \A p \in Loader :
    pc[p] \notin {"hash", "hashCheck", "hashOpen"} /\ Len(seen[p]) <= Limit + 1

LEMMA TakesLittleInv ==
  ASSUME IInv, Reading, TakesLittle, [Next]_vars
  PROVE  TakesLittle'
<1> USE FileAssumption
<1> SUFFICES ASSUME NEW p \in Loader
             PROVE  /\ pc'[p] \notin {"hash", "hashCheck", "hashOpen"}
                    /\ Len(seen'[p]) <= Limit + 1
  BY DEF TakesLittle
<1>1. p \in Process /\ p \notin Writer /\ p \notin Hasher /\ seen[p] \in Seq(Blocks)
  BY DEF Process, Hasher, IInv, TypeOK
<1>2. pc'[p] \notin {"hash", "hashCheck", "hashOpen"}
  <2>1. \A q \in Process \ {p} : pc'[p] = pc[p] \/ ~(Step(q) \/ Kill(q))
    BY <1>1 DEF Step, Write, WriteCheck, WriteRefused, OpenNew, OpenTruncated, OpenExclusiveFails,
                WriteBlock, SyncAll, WriteFails, Refuse, Hash, Load, Look, OpenToRead, NotThere,
                ReadBlock, HashEnd, Stat, LoadEnd, At, Kill, IInv, TypeOK
  <2>2. Load(p) \/ Kill(p) => pc'[p] \notin {"hash", "hashCheck", "hashOpen"}
    BY <1>1 DEF Refuse, Load, Look, OpenToRead, NotThere, ReadBlock, Stat, LoadEnd, At, Kill,
                IInv, TypeOK
  <2>3. Swap \/ UNCHANGED vars => pc' = pc
    BY DEF Swap, vars
  <2>4. QED BY <1>1, <2>1, <2>2, <2>3 DEF Next, Step, TakesLittle
<1>3. CASE seen'[p] = seen[p] \/ seen'[p] = <<>>
  BY <1>1, <1>2, <1>3 DEF TakesLittle
<1>4. CASE pc[p] = "load" /\ Len(seen[p]) < Limit + 1
           /\ \E b \in Blocks : seen'[p] = Append(seen[p], b)
  BY <1>1, <1>2, <1>4
<1>5. QED
  <2>1. CASE /\ input[p] # None /\ Len(seen[p]) < Len(bytes[input[p]])
             /\ seen'[p] = Append(seen[p], bytes[input[p]][Len(seen[p]) + 1])
             /\ pc[p] \in {"hash", "load"} /\ (pc[p] = "load" => Len(seen[p]) < Limit + 1)
    <3>1. bytes[input[p]] \in Seq(Blocks)
      BY <1>1, <2>1 DEF IInv, TypeOK
    <3>2. bytes[input[p]][Len(seen[p]) + 1] \in Blocks
      BY <1>1, <2>1, <3>1
    <3>3. pc[p] = "load"
      BY <2>1 DEF TakesLittle
    <3>4. QED BY <1>2, <1>4, <2>1, <3>2, <3>3
  <2>2. QED BY <1>1, <1>2, <1>3, <2>1, Reads

(* take(maximum + 1) bounds what a load takes.                             *)
THEOREM LoaderInvariant == Spec => []TakesLittle
<1>1. Init => TakesLittle
  BY FileAssumption DEF Init, TakesLittle, Process
<1>2. QED BY <1>1, TakesLittleInv, Invariant, PTL DEF Spec

(* A load is accepted only at the end of the file and within the limit.    *)
THEOREM LoadsWhole == Spec => LoadIsWhole
<1> DEFINE Takes == \A p \in Loader :
              /\ Len(seen'[p]) <= Limit + 1
              /\ pc[p] = "load" /\ pc'[p] = "done" =>
                   Len(seen[p]) >= Len(bytes[input[p]]) /\ Len(seen[p]) <= Limit
<1>1. IInv /\ TakesLittle /\ TakesLittle' /\ [Next]_vars => Takes
  <2> SUFFICES ASSUME IInv, TakesLittle, TakesLittle', [Next]_vars, NEW p \in Loader,
                      pc[p] = "load", pc'[p] = "done"
               PROVE  Len(seen[p]) >= Len(bytes[input[p]]) /\ Len(seen[p]) <= Limit
    BY DEF TakesLittle
  <2>1. p \in Process /\ p \notin Writer /\ p \notin Hasher
    BY FileAssumption DEF Process, Hasher
  <2>2. \A q \in Process \ {p} : ~(Step(q) \/ Kill(q))
    BY <2>1 DEF Step, Write, WriteCheck, WriteRefused, OpenNew, OpenTruncated, OpenExclusiveFails,
                WriteBlock, SyncAll, WriteFails, Refuse, Hash, Load, Look, OpenToRead, NotThere,
                ReadBlock, HashEnd, Stat, LoadEnd, At, Kill, IInv, TypeOK
  <2>3. ~(Kill(p) \/ Swap \/ UNCHANGED vars)
    BY <2>1 DEF Kill, Swap, vars, IInv, TypeOK
  <2>4. Load(p)
    BY <2>1, <2>2, <2>3 DEF Next, Step
  <2>5. LoadEnd(p)
    BY <2>1, <2>4 DEF Load, Look, OpenToRead, NotThere, Refuse, Stat, ReadBlock, At, IInv, TypeOK
  <2>6. Len(seen[p]) \in Nat /\ Limit \in Nat
    BY <2>1, FileAssumption DEF IInv, TypeOK
  <2>7. ~(Len(seen[p]) > Limit)
    BY <2>1, <2>5 DEF LoadEnd, At, IInv, TypeOK
  <2>8. QED BY <2>5, <2>6, <2>7 DEF LoadEnd, Taken
<1>2. QED BY <1>1, LoaderInvariant, Invariant, PTL DEF Spec, LoadIsWhole

-----------------------------------------------------------------------------
(* Has nobody else opened the file of a writer?                            *)
Alone(w) == \A v \in Writer \ {w} : out[v] # out[w]

(* While nobody interferes, the path leads to what writers have opened.    *)
Stays == swaps = 0 => \A w \in Writer : out[w] # None => Reached = out[w]

Filled ==
  \A w \in Writer : out[w] # None /\ Alone(w) => bytes[out[w]] = Run(w, written[w])

(* What a builder hashes.                                                  *)
Hashed ==
  \A w \in Writer :
    /\ input[w] # None => out[w] # None /\ written[w] = Length[w]
    /\ w \in Builder /\ pc[w] = "done" => input[w] # None
    /\ swaps = 0 /\ input[w] # None =>
         /\ input[w] = out[w]
         /\ Alone(w) =>
              /\ seen[w] = Run(w, Len(seen[w])) /\ Len(seen[w]) <= Length[w]
              /\ w \in Builder /\ pc[w] = "done" => Len(seen[w]) = Length[w]

Own == Stays /\ Filled /\ Hashed

LEMMA StaysInv ==
  ASSUME IInv, Reading, Stays, [Next]_vars
  PROVE  Stays'
<1> USE FileAssumption
<1>1. CASE \E w \in Writer : OpenNew(w)
  <2>1. PICK w \in Writer : OpenNew(w)
    BY <1>1
  <2>2. swaps = 0 => \A v \in Writer : out[v] = None
    BY <2>1 DEF OpenNew, Stays, Reached, IInv, TypeOK, Files
  <2>3. \A v \in Writer : out'[v] = IF v = w THEN w ELSE out[v]
    BY <2>1 DEF OpenNew, IInv, TypeOK
  <2>4. Reached' = w /\ swaps' = swaps
    BY <2>1 DEF OpenNew, Reached
  <2>5. QED BY <2>2, <2>3, <2>4 DEF Stays
<1>2. CASE \E w \in Writer : OpenTruncated(w)
  <2>1. PICK w \in Writer : OpenTruncated(w)
    BY <1>2
  <2>2. \A v \in Writer : out'[v] = IF v = w THEN Reached ELSE out[v]
    BY <2>1 DEF OpenTruncated, IInv, TypeOK
  <2>3. Reached' = Reached /\ swaps' = swaps
    BY <2>1 DEF OpenTruncated, Reached
  <2>4. QED BY <2>2, <2>3 DEF Stays
<1>3. CASE Swap
  BY <1>3 DEF Swap, Stays, IInv, TypeOK
<1>4. CASE UNCHANGED <<name, out, swaps>>
  BY <1>4 DEF Stays, Reached
<1>5. QED
  BY <1>1, <1>2, <1>3, <1>4 DEF Next, Step, Write, WriteCheck, WriteRefused, OpenExclusiveFails,
     WriteBlock, SyncAll, WriteFails, Refuse, Hash, Load, Look, OpenToRead, NotThere, ReadBlock,
     HashEnd, Stat, LoadEnd, Kill, vars

(* Whoever has its file alone after a step had it alone before.            *)
LEMMA AloneBefore ==
  ASSUME IInv, [Next]_vars, NEW w \in Writer, out[w] # None, Alone(w)'
  PROVE  Alone(w)
BY Monotone DEF Alone

LEMMA FilledInv ==
  ASSUME IInv, Reading, Filled, [Next]_vars
  PROVE  Filled'
<1> USE FileAssumption
<1> SUFFICES ASSUME NEW v \in Writer, out'[v] # None, Alone(v)'
             PROVE  bytes'[out'[v]] = Run(v, written'[v])
  BY DEF Filled
<1>1. out[v] \in Files \cup {None} /\ v \in Files /\ written[v] \in Nat
  BY DEF IInv, TypeOK, Files
<1>2. out[v] # None => out'[v] = out[v] /\ bytes[out[v]] = Run(v, written[v])
  BY Monotone, AloneBefore DEF Filled
<1>3. ASSUME NEW w \in Writer, OpenNew(w) PROVE bytes'[out'[v]] = Run(v, written'[v])
  <2>1. out[w] = None /\ written[w] = 0 /\ UNCHANGED <<bytes, written>>
        /\ out' = [out EXCEPT ![w] = w]
    BY <1>3 DEF OpenNew, At, IInv, Progress
  <2>2. CASE v = w
    <3>1. ~Overwritten(w) /\ Size(w) = 0 /\ out'[w] = w
      BY <1>1, <2>1, <2>2 DEF Overwritten, Size, IInv, Opened, TypeOK, Files
    <3>2. bytes[w] = Run(w, 0)
      BY <1>1, <2>2, <3>1 DEF IInv, Whole
    <3>3. QED BY <2>1, <2>2, <3>1, <3>2
  <2>3. CASE v # w
    BY <1>1, <1>2, <2>1, <2>3 DEF IInv, TypeOK
  <2>4. QED BY <2>2, <2>3
<1>4. ASSUME NEW w \in Writer, OpenTruncated(w) PROVE bytes'[out'[v]] = Run(v, written'[v])
  <2>1. out[w] = None /\ written[w] = 0 /\ UNCHANGED written /\ Reached \in Files
        /\ out' = [out EXCEPT ![w] = Reached] /\ bytes' = [bytes EXCEPT ![Reached] = <<>>]
    BY <1>4 DEF OpenTruncated, At, Reached, IInv, Progress, TypeOK, Files
  <2>2. CASE v = w
    <3>1. Run(v, 0) = <<>>
      BY DEF Run
    <3>2. QED BY <2>1, <2>2, <3>1 DEF IInv, TypeOK
  <2>3. CASE v # w
    <3>1. out'[w] = Reached /\ out'[v] = out[v]
      BY <2>1, <2>3 DEF IInv, TypeOK
    <3>2. out[v] # Reached
      BY <2>3, <3>1 DEF Alone
    <3>3. QED BY <1>1, <1>2, <2>1, <3>1, <3>2 DEF IInv, TypeOK
  <2>4. QED BY <2>2, <2>3
<1>5. ASSUME NEW w \in Writer, WriteBlock(w) PROVE bytes'[out'[v]] = Run(v, written'[v])
  <2>1. out[w] # None /\ out[w] \in Files /\ UNCHANGED out /\ written[w] \in Nat
        /\ written' = [written EXCEPT ![w] = @ + 1]
        /\ bytes' = [bytes EXCEPT ![out[w]] = Put(@, written[w] + 1, Block(w, written[w] + 1))]
    BY <1>5 DEF WriteBlock, Place, At, IInv, Progress, TypeOK
  <2>2. CASE v = w
    <3>1. Put(Run(w, written[w]), written[w] + 1, Block(w, written[w] + 1))
            = Run(w, written[w] + 1)
      BY <1>1, <2>1, <2>2, RunFacts
    <3>2. bytes'[out[w]] = Put(bytes[out[w]], written[w] + 1, Block(w, written[w] + 1))
          /\ written'[w] = written[w] + 1
      BY <2>1 DEF IInv, TypeOK
    <3>3. QED BY <1>2, <2>1, <2>2, <3>1, <3>2
  <2>3. CASE v # w
    <3>1. out[v] # out[w] /\ written'[v] = written[v]
      BY <2>1, <2>3 DEF Alone, IInv, TypeOK
    <3>2. QED BY <1>1, <1>2, <2>1, <3>1 DEF IInv, TypeOK
  <2>4. QED BY <2>2, <2>3
<1>6. CASE UNCHANGED <<bytes, out, written>>
  BY <1>2, <1>6
<1>7. QED
  BY <1>3, <1>4, <1>5, <1>6 DEF Next, Step, Write, WriteCheck, WriteRefused, OpenExclusiveFails,
     SyncAll, WriteFails, Refuse, Hash, Load, Look, OpenToRead, NotThere, ReadBlock,
     HashEnd, Stat, LoadEnd, Kill, Swap, vars

LEMMA HashedInv ==
  ASSUME IInv, Reading, Own, [Next]_vars
  PROVE  Hashed'
<1> USE FileAssumption
<1>1. IInv' /\ Reading' /\ (swaps' = 0 => swaps = 0)
  <2>1. swaps' = 0 => swaps = 0
    BY DEF Next, Step, Write, WriteCheck, WriteRefused, OpenNew, OpenTruncated, OpenExclusiveFails,
           WriteBlock, SyncAll, WriteFails, Refuse, Hash, Load, Look, OpenToRead, NotThere,
           ReadBlock, HashEnd, Stat, LoadEnd, Kill, Swap, vars, IInv, TypeOK
  <2>2. QED BY <2>1, NextInv
<1> DEFINE Good(w) ==
    /\ input'[w] # None => out'[w] # None /\ written'[w] = Length[w]
    /\ w \in Builder /\ pc'[w] = "done" => input'[w] # None
    /\ swaps' = 0 /\ input'[w] # None =>
         /\ input'[w] = out'[w]
         /\ Alone(w)' =>
              /\ seen'[w] = Run(w, Len(seen'[w])) /\ Len(seen'[w]) <= Length[w]
              /\ w \in Builder /\ pc'[w] = "done" => Len(seen'[w]) = Length[w]
<1> SUFFICES ASSUME NEW w \in Writer PROVE Good(w)
  BY DEF Hashed
<1> DEFINE n == Len(seen[w])
<1>2. /\ w \in Process /\ w \in Files /\ w \notin Loader /\ Length[w] \in Nat
      /\ written[w] \in Nat /\ written'[w] \in Nat /\ written'[w] <= Length[w]
      /\ seen[w] \in Seq(Blocks) /\ n \in Nat /\ out[w] \in Files \cup {None}
  <2>1. w \in Process /\ w \in Files /\ w \notin Loader /\ Length[w] \in Nat
    BY DEF Process, Files
  <2>2. seen[w] \in Seq(Blocks) /\ n \in Nat /\ out[w] \in Files \cup {None}
    BY <2>1 DEF IInv, TypeOK
  <2>3. written[w] \in Nat /\ written'[w] \in Nat /\ written'[w] <= Length[w]
    BY <1>1 DEF IInv, TypeOK
  <2>4. QED BY <2>1, <2>2, <2>3
<1>3. out[w] # None => out'[w] = out[w] /\ (written[w] = Length[w] => written'[w] = Length[w])
  BY <1>1, <1>2, Monotone
<1>4. out[w] # None /\ written[w] = Length[w] /\ Alone(w)' =>
        Alone(w) /\ bytes[out[w]] = Run(w, Length[w]) /\ Len(Run(w, Length[w])) = Length[w]
  BY <1>2, AloneBefore, RunFacts DEF Own, Filled
<1>5. w \in Builder /\ pc'[w] = "done" => pc[w] = "done" \/ HashEnd(w)
  BY <1>2 DEF Next, Step, Write, WriteCheck, WriteRefused, OpenNew, OpenTruncated,
     OpenExclusiveFails, WriteBlock, SyncAll, WriteFails, Refuse, Hash, Load, Look, OpenToRead,
     NotThere, ReadBlock, HashEnd, Stat, LoadEnd, At, Kill, Swap, vars, IInv, TypeOK
<1>6. CASE input'[w] = input[w] /\ seen'[w] = seen[w]
  <2>1. HashEnd(w) => input[w] # None /\ n >= Len(bytes[input[w]])
    BY <1>2 DEF HashEnd, At, Reading
  <2>2. input'[w] # None => out'[w] # None /\ written'[w] = Length[w]
    BY <1>3, <1>6 DEF Own, Hashed
  <2>3. w \in Builder /\ pc'[w] = "done" => input'[w] # None
    BY <1>5, <1>6, <2>1 DEF Own, Hashed
  <2>4. ASSUME swaps' = 0, input'[w] # None
        PROVE  /\ input'[w] = out'[w]
               /\ Alone(w)' =>
                    /\ seen'[w] = Run(w, Len(seen'[w])) /\ Len(seen'[w]) <= Length[w]
                    /\ w \in Builder /\ pc'[w] = "done" => Len(seen'[w]) = Length[w]
    <3>1. /\ out[w] # None /\ written[w] = Length[w] /\ input[w] = out[w] /\ input'[w] = out'[w]
          /\ Alone(w) => /\ seen[w] = Run(w, n) /\ n <= Length[w]
                         /\ w \in Builder /\ pc[w] = "done" => n = Length[w]
      BY <1>1, <1>3, <1>6, <2>4 DEF Own, Hashed
    <3>2. Alone(w)' /\ HashEnd(w) => n >= Length[w]
      BY <1>4, <2>1, <3>1
    <3> HIDE DEF n
    <3>3. Alone(w)' /\ w \in Builder /\ pc'[w] = "done" => n = Length[w]
      BY <1>2, <1>4, <1>5, <3>1, <3>2
    <3>4. n = Len(seen'[w])
      BY <1>6 DEF n
    <3>5. QED BY <1>4, <1>6, <3>1, <3>3, <3>4
  <2>5. QED BY <2>2, <2>3, <2>4
<1>7. CASE /\ input[w] = None /\ input'[w] = Reached /\ seen'[w] = <<>>
           /\ UNCHANGED <<name, bytes, out, written, swaps>>
           /\ pc[w] = "hashOpen" /\ pc'[w] \in {"hash", "stat"}
  <2>1. out[w] # None /\ written[w] = Length[w]
    BY <1>7 DEF IInv, Progress
  <2>2. swaps = 0 => Reached = out[w]
    BY <2>1 DEF Own, Stays
  <2>3. Run(w, 0) = <<>>
    BY DEF Run
  <2>4. QED BY <1>1, <1>2, <1>7, <2>1, <2>2, <2>3
<1>8. CASE /\ input[w] # None /\ input'[w] = input[w] /\ n < Len(bytes[input[w]])
           /\ seen'[w] = Append(seen[w], bytes[input[w]][n + 1])
           /\ pc[w] \in {"hash", "load"} /\ pc' = pc
           /\ UNCHANGED <<name, bytes, out, written, swaps>>
  <2>1. out[w] # None /\ written[w] = Length[w] /\ (swaps = 0 => input[w] = out[w])
    BY <1>8 DEF Own, Hashed
  <2>2. ASSUME swaps = 0, Alone(w)'
        PROVE  seen'[w] = Run(w, Len(seen'[w])) /\ Len(seen'[w]) <= Length[w]
    <3>1. seen[w] = Run(w, n) /\ bytes[input[w]] = Run(w, Length[w]) /\ n < Length[w]
      BY <1>4, <1>8, <2>1, <2>2 DEF Own, Hashed
    <3>2. bytes[input[w]][n + 1] = Block(w, n + 1)
      BY <1>2, <3>1 DEF Run
    <3>3. seen'[w] = Append(seen[w], bytes[input[w]][n + 1])
      BY <1>8
    <3>4. n \in Nat /\ w \in Files
      BY <1>2
    <3> HIDE DEF n
    <3>5. Append(Run(w, n), Block(w, n + 1)) = Run(w, n + 1) /\ Len(Run(w, n + 1)) = n + 1
      <4>1. Append(Run(w, n), Block(w, n + 1)) = Run(w, n + 1)
        BY <3>4, RunFacts
      <4>2. n + 1 \in Nat
        BY <3>4
      <4>3. Len(Run(w, n + 1)) = n + 1
        BY <3>4, <4>2, RunFacts
      <4>4. QED BY <4>1, <4>3
    <3>6. seen'[w] = Run(w, n + 1)
      BY <3>1, <3>2, <3>3, <3>5
    <3>7. n + 1 <= Length[w]
      BY <1>2, <3>1
    <3>8. QED BY <3>5, <3>6, <3>7
  <2>3. QED BY <1>8, <2>1, <2>2
<1>9. QED BY <1>2, <1>6, <1>7, <1>8, Reads

(* What a builder that is alone writes and hashes.                         *)
THEOREM OwnInvariant == Spec => []Own
<1>1. Init => Own
  BY DEF Init, Own, Stays, Filled, Hashed, Process
<1>2. IInv /\ Reading /\ Own /\ [Next]_vars => Own'
  BY StaysInv, FilledInv, HashedInv DEF Own
<1>3. QED BY <1>1, <1>2, Invariant, PTL DEF Spec

(* The digest `build` reports is that of the manifest it wrote.            *)
THEOREM DigestOfOwn == Spec => []DigestIsOwn
<1>1. Own /\ IInv => DigestIsOwn
  BY FileAssumption DEF Own, Hashed, Alone, DigestIsOwn, Contents, Run, IInv, TypeOK
<1>2. QED BY <1>1, OwnInvariant, Invariant, PTL
=============================================================================
