--------------------------- MODULE ZipInspectProofs ---------------------------
(***************************************************************************)
(* What inspectZip() accepts is a tree that was read and verified, and it  *)
(* expands no more than the limit and a chunk, for all archives and limits.*)
(***************************************************************************)
EXTENDS ZipInspect, WellFoundedInduction, TLAPS

-----------------------------------------------------------------------------
(* Induction on numbers, in the form of sets: what Declared() computes is   *)
(* known of every prefix because it is known of the empty one and carries   *)
(* over to the next.                                                        *)

(* A set of numbers that is not empty has a least one.                     *)
LEMMA LeastElement ==
  ASSUME NEW S \in SUBSET Nat, S # {}
  PROVE  \E n \in S : \A m \in S : n <= m
<1> DEFINE R == OpToRel(<, Nat)
<1>1. IsWellFoundedOn(R, Nat)
  BY NatLessThanWellFounded
<1>2. \A m, n \in Nat : <<m, n>> \in R <=> m < n
  BY DEF OpToRel
<1> HIDE DEF R
<1>3. PICK n \in S : \A m \in S : <<m, n>> \notin R
  BY <1>1, WFMin
<1>4. ASSUME NEW m \in S PROVE n <= m
  <2>1. m \in Nat /\ n \in Nat /\ ~(m < n)
    BY <1>2, <1>3
  <2>2. QED BY <2>1
<1>5. QED BY <1>4

(* A set with 0 and the successor of each member has all numbers.          *)
LEMMA Climb ==
  ASSUME NEW S \in SUBSET Nat, 0 \in S, \A n \in S : n + 1 \in S
  PROVE  S = Nat
<1>1. SUFFICES ASSUME Nat \ S # {} PROVE FALSE
  OBVIOUS
<1>2. PICK n \in Nat \ S : \A m \in Nat \ S : n <= m
  BY <1>1, LeastElement
<1>3. n - 1 \in S
  BY <1>2
<1>4. QED BY <1>2, <1>3

(* f adds up the sizes of the first n entries of a.                        *)
AddsUp(a, n, f) ==
  /\ f \in [0..n -> Nat] /\ f[0] = 0
  /\ \A k \in 1..n : f[k] = f[k - 1] + a[k].size

(* Such a function exists for every prefix, hence Declared(a) is one.      *)
LEMMA DeclaredAddsUp ==
  ASSUME NEW a \in Seq(Entries)
  PROVE  AddsUp(a, Len(a), Declared(a))
<1>1. Len(a) \in Nat /\ \A k \in 1..Len(a) : a[k].size \in Nat
  <2>1. Len(a) \in Nat /\ \A k \in 1..Len(a) : a[k] \in Entries
    OBVIOUS
  <2>2. \A e \in Entries : e.size \in Nat
    BY DEF Entries
  <2>3. QED BY <2>1, <2>2
<1>2. \E f : AddsUp(a, Len(a), f)
  <2> DEFINE S == {n \in Nat : n <= Len(a) => \E f : AddsUp(a, n, f)}
  <2>1. 0 \in S
    <3>1. AddsUp(a, 0, [k \in 0..0 |-> 0])
      BY DEF AddsUp
    <3>2. QED BY <3>1
  <2>2. ASSUME NEW n \in S PROVE n + 1 \in S
    <3>1. SUFFICES ASSUME n + 1 <= Len(a) PROVE \E f : AddsUp(a, n + 1, f)
      OBVIOUS
    <3>2. PICK f : AddsUp(a, n, f)
      BY <1>1, <3>1
    <3> DEFINE g == [k \in 0..(n + 1) |-> IF k = n + 1 THEN f[n] + a[n + 1].size ELSE f[k]]
    <3>3. g \in [0..(n + 1) -> Nat] /\ g[0] = 0
      BY <1>1, <3>1, <3>2 DEF AddsUp
    <3>4. ASSUME NEW k \in 1..(n + 1) PROVE g[k] = g[k - 1] + a[k].size
      <4>1. CASE k = n + 1
        BY <4>1
      <4>2. CASE k \in 1..n
        BY <3>2, <4>2 DEF AddsUp
      <4>3. QED BY <4>1, <4>2
    <3>5. AddsUp(a, n + 1, g)
      BY <3>3, <3>4 DEF AddsUp
    <3>6. QED BY <3>5
  <2>3. S \in SUBSET Nat
    OBVIOUS
  <2>4. Len(a) \in S
    <3> HIDE DEF S
    <3>1. S = Nat
      BY <2>1, <2>2, <2>3, Climb
    <3>2. QED BY <1>1, <3>1
  <2>5. QED BY <1>1, <2>4
<1>3. PICK f : AddsUp(a, Len(a), f)
  BY <1>2
<1>4. f = [n \in 0..Len(a) |-> IF n = 0 THEN 0 ELSE f[n - 1] + a[n].size]
  BY <1>1, <1>3 DEF AddsUp
<1> DEFINE h == Declared(a)
<1>5. h = [n \in 0..Len(a) |-> IF n = 0 THEN 0 ELSE h[n - 1] + a[n].size]
  BY <1>4 DEF Declared
<1> HIDE DEF h
<1>6. h[0] = 0 /\ \A k \in 1..Len(a) : h[k] = h[k - 1] + a[k].size
  BY <1>1, <1>5
<1>7. \A n \in Nat : n <= Len(a) => h[n] \in Nat
  <2> DEFINE T == {n \in Nat : n <= Len(a) => h[n] \in Nat}
  <2>1. 0 \in T /\ T \in SUBSET Nat
    BY <1>6
  <2>2. \A n \in T : n + 1 \in T
    BY <1>1, <1>6
  <2>3. T = Nat
    <3> HIDE DEF T
    <3>1. QED BY <2>1, <2>2, Climb
  <2>4. QED BY <2>3
<1>8. h \in [0..Len(a) -> Nat]
  <2>1. h = [n \in 0..Len(a) |-> h[n]]
    BY <1>5
  <2>2. QED BY <1>1, <1>7, <2>1
<1>9. QED BY <1>6, <1>8 DEF AddsUp, h

(* What a reader of the model wants of Declared(): it starts at 0 and      *)
(* grows by each entry's size.                                             *)
LEMMA DeclaredStep ==
  ASSUME NEW a \in Seq(Entries)
  PROVE  /\ Declared(a)[0] = 0
         /\ \A k \in 0..Len(a) : Declared(a)[k] \in Nat
         /\ \A k \in 1..Len(a) : Declared(a)[k] = Declared(a)[k - 1] + a[k].size
BY DeclaredAddsUp DEF AddsUp

-----------------------------------------------------------------------------
(* The invariant.                                                          *)

(* The sets of names are those of the entries so far.                      *)
NamesKept ==
  /\ names = {archive[n].path : n \in 1..cursor}
  /\ fileNames = {archive[n].path : n \in {m \in 1..cursor : ~archive[m].dir}}

(* No two entries so far collide, in whatever order they came.             *)
TreeSoFar ==
  \A j, k \in 1..cursor : j # k =>
    /\ archive[j].path # archive[k].path
    /\ ProperPrefix(archive[j].path, archive[k].path) => archive[j].dir

(* The entries so far passed their checks, the last one if it was read.    *)
CheckedSoFar ==
  /\ files = cursor /\ files <= MaxFiles
  /\ \A n \in 1..cursor :
       LET e == archive[n] IN
       /\ e.safeName /\ e.ok /\ e.size <= MaxEntry
       /\ n < cursor \/ phase \in {"reading", "idle"} => e.crcMatches

(* Between entries the total is what the entries so far declare; while one *)
(* is being read, what the earlier ones declare and its chunks so far.     *)
CountedSoFar ==
  /\ phase \in {"unread", "reading", "idle"} => total = Declared(archive)[cursor]
  /\ phase = "opening" => total = Declared(archive)[cursor - 1]
  /\ phase = "streaming" => total = Declared(archive)[cursor - 1] + bytes

Inv ==
  /\ TypeOK
  /\ result # "rejected" => NamesKept /\ TreeSoFar /\ CheckedSoFar /\ CountedSoFar
  /\ phase \in {"opening", "streaming", "destroyed"} => cursor > 0
  /\ phase = "unread" => result = "none" /\ ~armed /\ cursor = 0 /\ total = 0
  /\ phase = "idle" => result # "none"
  /\ total <= MaxTotal \/ (phase \in {"destroyed", "idle"} /\ total = MaxTotal + 1)
  /\ result = "accepted" =>
       phase = "idle" /\ cursor = Len(archive) /\ total <= MaxTotal /\ Index \in fileNames

LEMMA InitInv == Init => Inv
<1> SUFFICES ASSUME Init PROVE Inv
  OBVIOUS
<1>1. archive \in Seq(Entries) /\ Len(archive) \in Nat
  BY LimitsAssumption DEF Init
<1>2. TypeOK
  <2>1. archive \in Archive /\ cursor \in 0..Len(archive)
    BY <1>1 DEF Init
  <2>2. bytes \in Nat /\ files \in Nat /\ total \in Nat
    BY DEF Init
  <2>3. QED BY <2>1, <2>2 DEF Init, TypeOK, Phases
<1>3. NamesKept /\ TreeSoFar /\ CheckedSoFar
  BY LimitsAssumption DEF Init, NamesKept, TreeSoFar, CheckedSoFar
<1>4. CountedSoFar
  BY <1>1, DeclaredStep DEF Init, CountedSoFar
<1>5. QED BY <1>2, <1>3, <1>4, LimitsAssumption DEF Init, Inv

(* fail() keeps the invariant wherever it is called.                       *)
LEMMA AbandonInv ==
  ASSUME Inv, Abandon, phase # "unread", phase # "idle",
         UNCHANGED <<archive, cursor, bytes, files, total, names, fileNames>>
  PROVE  Inv'
<1>1. result' = "rejected" /\ phase' = "idle"
  BY DEF Abandon, Failed, Inv, TypeOK
<1>2. TypeOK'
  BY <1>1 DEF Abandon, Disarmed, Inv, TypeOK, Phases
<1>3. QED BY <1>1, <1>2 DEF Inv

LEMMA EntryInv ==
  ASSUME Inv, EntryArrives
  PROVE  Inv'
<1> DEFINE e == archive[cursor + 1]
           clash == ~e.safeName \/ e.path \in names \/ Collides(e)
           refused == clash \/ ~e.ok \/ OverLimits(files', e) \/ Closed
<1>1. /\ phase = "reading" /\ cursor < Len(archive) /\ cursor' = cursor + 1
      /\ archive' = archive /\ bytes' = bytes /\ total' = total
      /\ names' = NamesAfter(e, clash)
      /\ fileNames' = IF clash \/ e.dir THEN fileNames ELSE fileNames \cup {e.path}
      /\ files' = IF clash \/ ~e.ok THEN files ELSE files + 1
      /\ IF refused THEN Abandon ELSE phase' = "opening" /\ UNCHANGED <<armed, result>>
  BY DEF EntryArrives
<1>2. /\ archive \in Seq(Entries) /\ cursor \in Nat /\ Len(archive) \in Nat
      /\ cursor' \in 0..Len(archive) /\ cursor + 1 \in 1..Len(archive)
      /\ files' \in Nat /\ e \in Entries
  BY <1>1, LimitsAssumption DEF Inv, TypeOK
<1>3. CASE refused
  <2>1. result' = "rejected" /\ phase' = "idle"
    BY <1>1, <1>3 DEF Abandon, Failed, Inv, TypeOK
  <2>2. names' \in {names, names \cup {e.path}} /\ fileNames' \subseteq names'
    BY <1>1 DEF NamesAfter, Inv, TypeOK
  <2>3. names' \subseteq {archive'[n].path : n \in 1..cursor'}
    <3> HIDE DEF clash, refused
    <3>1. {archive[n].path : n \in 1..cursor} \cup {e.path}
            \subseteq {archive[n].path : n \in 1..cursor'}
      BY <1>1, <1>2
    <3>2. names \subseteq {archive[n].path : n \in 1..cursor}
      BY DEF Inv, TypeOK
    <3>3. archive' = archive
      BY <1>1
    <3>4. QED BY <2>2, <3>1, <3>2, <3>3
  <2>4. armed' = FALSE
    BY <1>1, <1>3 DEF Abandon, Disarmed
  <2>5. TypeOK'
    BY <1>1, <1>2, <2>1, <2>2, <2>3, <2>4 DEF Inv, TypeOK, Phases
  <2>6. QED BY <1>1, <2>1, <2>5 DEF Inv
<1>4. CASE ~refused
  <2>1. /\ phase' = "opening" /\ result' = result /\ armed' = armed
        /\ names' = names \cup {e.path}
        /\ fileNames' = IF e.dir THEN fileNames ELSE fileNames \cup {e.path}
        /\ files' = files + 1 /\ e.safeName /\ e.ok /\ e.path \notin names /\ ~Collides(e)
        /\ files' <= MaxFiles /\ e.size <= MaxEntry
    BY <1>1, <1>2, <1>4, LimitsAssumption DEF OverLimits, NamesAfter, Entries
  <2>2. TypeOK'
    BY <1>1, <1>2, <2>1 DEF Inv, TypeOK, Phases
  <2>3. \A n : n \in 1..cursor' <=> n \in 1..cursor \/ n = cursor + 1
    BY <1>1, <1>2
  <2>4. ASSUME result # "rejected"
        PROVE  NamesKept' /\ TreeSoFar' /\ CheckedSoFar' /\ CountedSoFar'
    <3>1. NamesKept /\ TreeSoFar /\ CheckedSoFar /\ CountedSoFar
      BY <2>4 DEF Inv
    <3>2. NamesKept'
      BY <1>1, <2>1, <2>3, <3>1 DEF NamesKept
    <3>3. /\ \A n \in 1..cursor : archive[n].path # e.path
          /\ \A n \in 1..cursor : ProperPrefix(archive[n].path, e.path) => archive[n].dir
          /\ \A n \in 1..cursor : ProperPrefix(e.path, archive[n].path) => e.dir
      BY <2>1, <3>1 DEF NamesKept, Collides
    <3>4. TreeSoFar'
      BY <1>1, <2>3, <3>1, <3>3 DEF TreeSoFar
    <3>5. ASSUME NEW n \in 1..cursor'
          PROVE  /\ archive[n].safeName /\ archive[n].ok /\ archive[n].size <= MaxEntry
                 /\ n < cursor' => archive[n].crcMatches
      <4>1. CASE n = cursor + 1
        BY <4>1, <1>1, <1>2, <2>1
      <4>2. CASE n \in 1..cursor
        BY <4>2, <1>1, <3>1 DEF CheckedSoFar
      <4>3. QED BY <2>3, <4>1, <4>2
    <3>6. CheckedSoFar'
      BY <1>1, <2>1, <3>1, <3>5 DEF CheckedSoFar
    <3>7. CountedSoFar'
      BY <1>1, <1>2, <2>1, <3>1 DEF CountedSoFar
    <3>8. QED BY <3>2, <3>4, <3>6, <3>7
  <2>5. total' <= MaxTotal /\ cursor' > 0
    BY <1>1, <1>2 DEF Inv
  <2>6. result # "accepted"
    BY <1>1 DEF Inv
  <2>7. QED BY <2>1, <2>2, <2>4, <2>5, <2>6 DEF Inv
<1>5. QED BY <1>3, <1>4

(* Steps that leave the entries alone.                                     *)
LEMMA DataInv ==
  ASSUME Inv, Data
  PROVE  Inv'
<1>1. /\ phase = "streaming" /\ bytes' = bytes + 1 /\ total' = total + 1
      /\ phase' = IF Expanded(total', bytes') THEN "destroyed" ELSE "streaming"
      /\ UNCHANGED <<archive, cursor, files, names, fileNames, armed, result>>
  BY DEF Data
<1>2. TypeOK'
  BY <1>1 DEF Inv, TypeOK, Phases
<1>3. NamesKept /\ TreeSoFar /\ CheckedSoFar => NamesKept' /\ TreeSoFar' /\ CheckedSoFar'
  BY <1>1 DEF NamesKept, TreeSoFar, CheckedSoFar
<1>4. total <= MaxTotal /\ total \in Nat /\ bytes \in Nat
  BY <1>1 DEF Inv, TypeOK
<1>5. total' <= MaxTotal \/ (phase' = "destroyed" /\ total' = MaxTotal + 1)
  BY <1>1, <1>4, LimitsAssumption DEF Expanded
<1>6. result # "accepted" /\ cursor' > 0
  BY <1>1 DEF Inv
<1>7. CountedSoFar => CountedSoFar'
  <2>1. cursor' - 1 \in 0..Len(archive) /\ archive \in Seq(Entries)
    BY <1>1, <1>6, LimitsAssumption DEF Inv, TypeOK
  <2>2. Declared(archive)[cursor - 1] \in Nat
    BY <1>1, <2>1, DeclaredStep
  <2>3. QED BY <1>1, <1>4, <2>2 DEF CountedSoFar
<1>8. QED BY <1>1, <1>2, <1>3, <1>5, <1>6, <1>7 DEF Inv

LEMMA StreamEndInv ==
  ASSUME Inv, StreamEnd
  PROVE  Inv'
<1>1. /\ phase = "streaming"
      /\ UNCHANGED <<archive, cursor, bytes, files, total, names, fileNames>>
  BY DEF StreamEnd
<1>2. CASE ~Entry.crcMatches
  BY <1>1, <1>2, AbandonInv DEF StreamEnd
<1>3. CASE Entry.crcMatches
  <2>1. phase' = NextPhase /\ armed' = armed /\ result' = result
    BY <1>3 DEF StreamEnd
  <2>2. TypeOK'
    BY <1>1, <2>1 DEF NextPhase, Inv, TypeOK, Phases
  <2>3. NamesKept /\ TreeSoFar => NamesKept' /\ TreeSoFar'
    BY <1>1 DEF NamesKept, TreeSoFar
  <2>4. CheckedSoFar => CheckedSoFar'
    <3>1. cursor \in Nat
      BY DEF Inv, TypeOK
    <3>2. \A n \in 1..cursor : n < cursor \/ n = cursor
      BY <3>1
    <3>3. QED BY <1>1, <1>3, <3>2 DEF CheckedSoFar, Entry
  <2>5. total' <= MaxTotal /\ result # "accepted"
    BY <1>1 DEF Inv
  <2>6. CountedSoFar => CountedSoFar'
    <3>1. cursor \in 1..Len(archive) /\ archive \in Seq(Entries)
      BY <1>1, LimitsAssumption DEF Inv, TypeOK
    <3>2. bytes = archive[cursor].size
      BY DEF StreamEnd, Entry
    <3>3. Declared(archive)[cursor] = Declared(archive)[cursor - 1] + bytes
      BY <3>1, <3>2, DeclaredStep
    <3>4. QED BY <1>1, <2>1, <3>3 DEF NextPhase, CountedSoFar
  <2>7. QED BY <1>1, <2>1, <2>2, <2>3, <2>4, <2>5, <2>6 DEF NextPhase, Inv
<1>4. QED BY <1>2, <1>3

LEMMA ArchiveEndInv ==
  ASSUME Inv, ArchiveEnd
  PROVE  Inv'
<1>1. /\ phase = "reading" /\ cursor = Len(archive) /\ phase' = "idle" /\ armed' = FALSE
      /\ result' = Completed
      /\ UNCHANGED <<archive, cursor, bytes, files, total, names, fileNames>>
  BY DEF ArchiveEnd, Disarmed
<1>2. /\ result' \in {"accepted", "rejected"}
      /\ result' = "accepted" => result = "none" /\ Index \in fileNames
  BY <1>1 DEF Completed, Failed, Inv, TypeOK
<1>3. TypeOK'
  BY <1>1, <1>2 DEF Inv, TypeOK, Phases
<1>4. NamesKept /\ TreeSoFar /\ CheckedSoFar => NamesKept' /\ TreeSoFar' /\ CheckedSoFar'
  BY <1>1 DEF NamesKept, TreeSoFar, CheckedSoFar
<1>5. CountedSoFar => CountedSoFar'
  BY <1>1 DEF CountedSoFar
<1>6. QED BY <1>1, <1>2, <1>3, <1>4, <1>5 DEF Inv

LEMMA OtherInv ==
  ASSUME Inv, Open \/ OpenFails \/ StreamOpens \/ Deadline \/ UNCHANGED vars
  PROVE  Inv'
<1>1. UNCHANGED <<archive, cursor, files, total, names, fileNames>>
  BY DEF Open, OpenFails, StreamOpens, Deadline, vars
<1>2. TypeOK'
  <2>1. phase' \in Phases /\ result' \in {"none", "accepted", "rejected"} /\ armed' \in BOOLEAN
    BY DEF Open, OpenFails, StreamOpens, Deadline, DeadlineFail, Failed, vars, Inv, TypeOK, Phases
  <2>2. bytes' \in Nat
    BY DEF Open, OpenFails, StreamOpens, Deadline, vars, Inv, TypeOK
  <2>3. QED BY <1>1, <2>1, <2>2 DEF Inv, TypeOK
<1>3. NamesKept /\ TreeSoFar => NamesKept' /\ TreeSoFar'
  BY <1>1 DEF NamesKept, TreeSoFar
<1>4. CASE Open
  <2>1. cursor = 0 /\ phase' = "reading" /\ result' = "none" /\ result = "none"
        /\ total' <= MaxTotal
    BY <1>1, <1>4, LimitsAssumption DEF Open, Inv
  <2>2. CheckedSoFar /\ CountedSoFar => CheckedSoFar' /\ CountedSoFar'
    BY <1>1, <1>4, <2>1 DEF Open, CheckedSoFar, CountedSoFar
  <2>3. QED BY <1>2, <1>3, <2>1, <2>2 DEF Inv
<1>5. CASE OpenFails
  BY <1>1, <1>2, <1>5, LimitsAssumption DEF OpenFails, Inv
<1>6. CASE StreamOpens
  <2>1. CheckedSoFar /\ CountedSoFar => CheckedSoFar' /\ CountedSoFar'
    <3>1. total \in Nat
      BY DEF Inv, TypeOK
    <3>2. QED
      BY <1>1, <1>6, <3>1 DEF StreamOpens, CheckedSoFar, CountedSoFar
  <2>2. QED BY <1>1, <1>2, <1>3, <1>6, <2>1 DEF StreamOpens, Inv
<1>7. CASE Deadline
  <2>1. phase' = phase /\ result' \in {result, "rejected"} /\ (result = "none" => result' = "rejected")
    BY <1>7 DEF Deadline, DeadlineFail, Failed, Inv, TypeOK
  <2>2. phase # "unread" /\ ~armed'
    BY <1>7 DEF Deadline, Inv
  <2>3. CheckedSoFar /\ CountedSoFar => CheckedSoFar' /\ CountedSoFar'
    BY <1>1, <1>7, <2>1 DEF Deadline, CheckedSoFar, CountedSoFar
  <2>4. QED BY <1>1, <1>2, <1>3, <2>1, <2>2, <2>3 DEF Inv
<1>8. CASE UNCHANGED vars
  BY <1>8 DEF vars, Inv, TypeOK, NamesKept, TreeSoFar, CheckedSoFar, CountedSoFar
<1>9. QED BY <1>4, <1>5, <1>6, <1>7, <1>8

LEMMA NextInv ==
  ASSUME Inv, [Next]_vars
  PROVE  Inv'
<1>1. CASE ZipError \/ StreamOpenFails \/ StreamError
  BY <1>1, AbandonInv DEF ZipError, StreamOpenFails, StreamError
<1>2. QED
  BY <1>1, EntryInv, DataInv, StreamEndInv, ArchiveEndInv, OtherInv DEF Next, Terminated

(* Every listener of inspectZip() keeps the invariant.                     *)
THEOREM Invariant == Spec => []Inv
BY InitInv, NextInv, PTL DEF Spec

(* The variables have their types, and the names are those of entries.     *)
THEOREM TypeCorrect == Spec => []TypeOK
<1>1. Inv => TypeOK
  BY DEF Inv
<1>2. QED BY <1>1, Invariant, PTL

(* What is accepted is a tree, in whatever order its entries are listed.   *)
THEOREM Trees == Spec => []AcceptedIsTree
<1>1. Inv => AcceptedIsTree
  BY DEF Inv, TreeSoFar, AcceptedIsTree
<1>2. QED BY <1>1, Invariant, PTL

(* What is accepted was read to its end, verified, and within the limits,  *)
(* and the total is the sum of what its entries declare.                   *)
THEOREM Complete == Spec => []AcceptedIsComplete
<1>1. Inv => AcceptedIsVerified
  <2> SUFFICES ASSUME Inv, result = "accepted"
               PROVE  /\ cursor = Len(archive) /\ files = cursor /\ files <= MaxFiles
                      /\ \A n \in 1..cursor :
                           LET e == archive[n] IN
                           e.safeName /\ e.ok /\ e.crcMatches /\ e.size <= MaxEntry
                      /\ total <= MaxTotal
                      /\ \E n \in 1..cursor : archive[n].path = Index /\ ~archive[n].dir
    BY DEF AcceptedIsVerified
  <2>1. phase = "idle" /\ cursor = Len(archive) /\ total <= MaxTotal /\ Index \in fileNames
    BY DEF Inv
  <2>2. NamesKept /\ CheckedSoFar
    BY DEF Inv
  <2>3. \E n \in 1..cursor : archive[n].path = Index /\ ~archive[n].dir
    BY <2>1, <2>2 DEF NamesKept
  <2>4. QED BY <2>1, <2>2, <2>3 DEF CheckedSoFar
<1>2. Inv /\ result = "accepted" => total = Declared(archive)[Len(archive)]
  BY DEF Inv, CountedSoFar
<1>3. QED BY <1>1, <1>2, Invariant, PTL DEF AcceptedIsComplete

(* However much an archive expands to, one chunk too many is the most.     *)
THEOREM Bounded == Spec => []ExpansionBounded
<1>1. Inv => ExpansionBounded
  BY LimitsAssumption DEF Inv, TypeOK, ExpansionBounded
<1>2. QED BY <1>1, Invariant, PTL

(* Once the promise is settled no further entry is asked for and no        *)
(* further stream: at most the entry at hand is read to its end.           *)
THEOREM NoReads == Spec => NoEntryAfterSettling
<1>1. ASSUME Inv, [Next]_vars, result # "none"
      PROVE  /\ phase' \in {"reading", "opening"} => phase' = phase
             /\ phase' = "streaming" => phase \in {"opening", "streaming"} /\ cursor' = cursor
  <2>1. phase # "unread"
    BY <1>1 DEF Inv
  <2>2. CASE EntryArrives
    <3>1. phase' = "idle"
      BY <1>1, <2>2 DEF EntryArrives, Closed, Abandon
    <3>2. QED BY <3>1
  <2>3. CASE StreamOpens \/ Data \/ Deadline \/ Terminated \/ UNCHANGED vars
    BY <2>3 DEF StreamOpens, Data, Deadline, Terminated, vars
  <2>4. CASE ZipError \/ StreamOpenFails \/ StreamError \/ StreamEnd \/ ArchiveEnd
    BY <1>1, <2>4 DEF ZipError, StreamOpenFails, StreamError, StreamEnd, NextPhase, Abandon,
       ArchiveEnd
  <2>5. QED BY <1>1, <2>1, <2>2, <2>3, <2>4 DEF Next, Open, OpenFails
<1>2. Inv /\ [Next]_vars =>
        [result # "none" =>
           /\ phase' \in {"reading", "opening"} => phase' = phase
           /\ phase' = "streaming" => phase \in {"opening", "streaming"} /\ cursor' = cursor]_vars
  BY <1>1
<1>3. QED BY <1>2, Invariant, PTL DEF Spec, NoEntryAfterSettling
=============================================================================
