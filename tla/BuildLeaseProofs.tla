--------------------------- MODULE BuildLeaseProofs ---------------------------
(***************************************************************************)
(* What the worker's tasks do to leases and verifications, for any number  *)
(* of them and of overlapping runs, and every duration.                    *)
(***************************************************************************)
EXTENDS BuildLease, TLAPS

LEMMA StagesAreStatuses ==
  /\ Len(Stages) = 9 /\ \A n \in 1..9 : Stages[n] \in BuildStatus
  /\ {"queued", "failed", "cancelled", "expired"} \subseteq BuildStatus
BY DEF Stages, BuildStatus

(* The task's list of statuses is the function's.                          *)
LEMMA SameList ==
  \A t, time : Expirable(t, time) <=> status[t] \in LeaseHolding /\ lease[t] # None /\ lease[t] <= time
BY DEF Expirable, LeaseHolding

-----------------------------------------------------------------------------
(* Types.                                                                  *)

LeaseRun == [task : {"leases"}, at : Nat, picked : SUBSET Target]
VerificationRun == [task : {"verifications"}, at : Nat, picked : SUBSET Verification]
Runs == [task : {"none"}] \cup LeaseRun \cup VerificationRun

LEMMA RunType == TypeOK => run \in [Run -> Runs]
BY DEF TypeOK, Runs, LeaseRun, VerificationRun

LEMMA RunShapes ==
  ASSUME TypeOK, NEW r \in Run
  PROVE  /\ run[r].task = "leases" => run[r] \in LeaseRun
         /\ run[r].task = "verifications" => run[r] \in VerificationRun
         /\ Idle \in Runs /\ Idle.task = "none"
BY RunType DEF Runs, LeaseRun, VerificationRun, Idle

LEMMA InitType == Init => TypeOK
BY StagesAreStatuses, LeaseAssumption DEF Init, TypeOK, Idle

(* What runs do to themselves.                                             *)
LEMMA BeginType ==
  ASSUME TypeOK, NEW r \in Run, BeginLeases(r) \/ BeginVerifications(r)
  PROVE  TypeOK'
<1>1. UNCHANGED <<now, rowVars, bypass>>
  BY DEF BeginLeases, BeginVerifications
<1>2. PICK f \in LeaseRun \cup VerificationRun : run' = [run EXCEPT ![r] = f]
  <2>1. CASE BeginLeases(r)
    <3> DEFINE f == [task |-> "leases", at |-> now,
                     picked |-> {t \in Visible(Target) : Expirable(t, now)}]
    <3>1. now \in Nat /\ {t \in Visible(Target) : Expirable(t, now)} \in SUBSET Target
      BY LeaseAssumption DEF TypeOK, Visible
    <3>2. f \in LeaseRun
      BY <3>1 DEF LeaseRun
    <3>3. QED BY <2>1, <3>2 DEF BeginLeases
  <2>2. CASE BeginVerifications(r)
    <3> DEFINE f == [task |-> "verifications", at |-> now,
                     picked |-> {v \in Visible(Verification) : Lapsed(v, now)}]
    <3>1. now \in Nat /\ {v \in Visible(Verification) : Lapsed(v, now)} \in SUBSET Verification
      BY LeaseAssumption DEF TypeOK, Visible
    <3>2. f \in VerificationRun
      BY <3>1 DEF VerificationRun
    <3>3. QED BY <2>2, <3>2 DEF BeginVerifications
  <2>3. QED BY <2>1, <2>2
<1>3. run' \in [Run -> Runs]
  BY <1>2, RunType DEF Runs
<1>4. QED
  BY <1>1, <1>3 DEF TypeOK, rowVars, Runs, LeaseRun, VerificationRun

LEMMA EndType ==
  ASSUME TypeOK, NEW r \in Run,
         ExpireBuildLeases(r) \/ ExpireDomainVerifications(r) \/ RunFails(r)
  PROVE  TypeOK'
<1>1. /\ run' = [run EXCEPT ![r] = Idle]
      /\ UNCHANGED <<now, lease, until, bypass>>
  BY DEF ExpireBuildLeases, ExpireDomainVerifications, RunFails, rowVars
<1>2. run' \in [Run -> Runs]
  BY <1>1, RunType, RunShapes
<1>3. status' \in [Target -> BuildStatus]
  BY StagesAreStatuses DEF TypeOK, ExpireBuildLeases, ExpireDomainVerifications, RunFails, rowVars
<1>4. proof' \in [Verification -> {"pending", "verified", "expired", "revoked"}]
  BY DEF TypeOK, ExpireBuildLeases, ExpireDomainVerifications, RunFails, rowVars
<1>5. QED
  BY <1>1, <1>2, <1>3, <1>4 DEF TypeOK, Runs, LeaseRun, VerificationRun

(* What the others do.                                                     *)
LEMMA OtherType ==
  ASSUME TypeOK,
         \/ Tick
         \/ \E t \in Target : Renew(t) \/ Advance(t) \/ Stop(t)
         \/ \E v \in Verification : Verify(v) \/ Revoke(v)
  PROVE  TypeOK'
<1> USE LeaseAssumption
<1>1. now + Duration \in Nat
  BY DEF TypeOK
<1>2. CASE Tick
  BY <1>2 DEF Tick, TypeOK
<1>3. ASSUME NEW t \in Target, Renew(t) PROVE TypeOK'
  BY <1>1, <1>3 DEF Renew, TypeOK
<1>4. ASSUME NEW t \in Target, Advance(t) PROVE TypeOK'
  <2>1. PICK n \in 1..Len(Stages) - 1 :
          /\ status' = [status EXCEPT ![t] = Stages[n + 1]]
          /\ lease' = IF n = 1 THEN [lease EXCEPT ![t] = now + Duration] ELSE lease
    BY <1>4 DEF Advance
  <2>2. Stages[n + 1] \in BuildStatus
    BY StagesAreStatuses
  <2>3. status' \in [Target -> BuildStatus]
    BY <2>1, <2>2 DEF TypeOK
  <2>4. lease' \in [Target -> Nat \cup {None}]
    BY <1>1, <2>1 DEF TypeOK
  <2>5. QED BY <1>4, <2>3, <2>4 DEF Advance, TypeOK
<1>5. ASSUME NEW t \in Target, Stop(t) PROVE TypeOK'
  BY <1>5, StagesAreStatuses DEF Stop, TypeOK
<1>6. ASSUME NEW v \in Verification, Verify(v) \/ Revoke(v) PROVE TypeOK'
  BY <1>1, <1>6 DEF Verify, Revoke, TypeOK
<1>7. QED BY <1>2, <1>3, <1>4, <1>5, <1>6

LEMMA NextType == TypeOK /\ [Next]_vars => TypeOK'
<1>1. CASE UNCHANGED vars
  BY <1>1 DEF vars, TypeOK
<1>2. QED BY <1>1, BeginType, EndType, OtherType DEF Next

(* Statuses, leases and verifications have their types, whatever runners   *)
(* and owners do.                                                          *)
THEOREM TypeCorrect == Spec => []TypeOK
BY InitType, NextType, PTL DEF Spec

-----------------------------------------------------------------------------
(* What had run out when a run began is among the rows it picked, or is    *)
(* lapsed no longer.                                                       *)
PickedAll ==
  \A r \in Run, time \in Nat :
    /\ run[r].task = "leases" /\ run[r].at = time =>
         /\ time <= now
         /\ bypass => \A t \in Target : Expirable(t, time) => t \in run[r].picked
    /\ run[r].task = "verifications" /\ run[r].at = time =>
         /\ time <= now
         /\ bypass => \A v \in Verification : Lapsed(v, time) => v \in run[r].picked

(* Nothing new lapses at a time that is past.                              *)
NothingLapsesInThePast ==
  \A time \in 0..now :
    /\ \A t \in Target : Expirable(t, time)' => Expirable(t, time)
    /\ \A v \in Verification : Lapsed(v, time)' => Lapsed(v, time)

LEMMA PickedStays ==
  ASSUME TypeOK, PickedAll, NothingLapsesInThePast, now' >= now, now' \in Nat, bypass' = bypass,
         \A r \in Run : run'[r] \in {run[r], Idle}
  PROVE  PickedAll'
<1>1. now \in Nat /\ Idle.task = "none"
  BY LeaseAssumption DEF TypeOK, Idle
<1>2. ASSUME NEW r \in Run, NEW time \in Nat, run'[r].task = "leases", run'[r].at = time
      PROVE  /\ time <= now'
             /\ bypass' => \A t \in Target : Expirable(t, time)' => t \in run'[r].picked
  <2>1. run'[r] = run[r]
    BY <1>1, <1>2
  <2>2. time <= now /\ (bypass => \A t \in Target : Expirable(t, time) => t \in run[r].picked)
    BY <1>2, <2>1 DEF PickedAll
  <2>3. \A t \in Target : Expirable(t, time)' => Expirable(t, time)
    BY <1>1, <2>2 DEF NothingLapsesInThePast
  <2>4. QED BY <1>1, <2>1, <2>2, <2>3
<1>3. ASSUME NEW r \in Run, NEW time \in Nat, run'[r].task = "verifications", run'[r].at = time
      PROVE  /\ time <= now'
             /\ bypass' => \A v \in Verification : Lapsed(v, time)' => v \in run'[r].picked
  <2>1. run'[r] = run[r]
    BY <1>1, <1>3
  <2>2. time <= now /\ (bypass => \A v \in Verification : Lapsed(v, time) => v \in run[r].picked)
    BY <1>3, <2>1 DEF PickedAll
  <2>3. \A v \in Verification : Lapsed(v, time)' => Lapsed(v, time)
    BY <1>1, <2>2 DEF NothingLapsesInThePast
  <2>4. QED BY <1>1, <2>1, <2>2, <2>3
<1>4. QED BY <1>2, <1>3 DEF PickedAll

(* A renewed lease, or one just taken, runs out later than now.            *)
LEMMA OthersLapseNothing ==
  ASSUME TypeOK,
         \/ Tick
         \/ \E t \in Target : Renew(t) \/ Advance(t) \/ Stop(t)
         \/ \E v \in Verification : Verify(v) \/ Revoke(v)
  PROVE  /\ NothingLapsesInThePast /\ now' >= now /\ now' \in Nat
         /\ bypass' = bypass /\ run' = run
<1> USE LeaseAssumption
<1>1. now \in Nat /\ \A time \in 0..now : ~(now + Duration <= time)
  BY DEF TypeOK
<1>2. CASE Tick
  BY <1>1, <1>2 DEF Tick, NothingLapsesInThePast, Expirable, Lapsed
<1>3. ASSUME NEW t \in Target, Renew(t) PROVE NothingLapsesInThePast
  BY <1>1, <1>3 DEF Renew, NothingLapsesInThePast, Expirable, Lapsed, TypeOK
<1>4. ASSUME NEW t \in Target, Advance(t) PROVE NothingLapsesInThePast
  <2>0. 1..Len(Stages) - 1 = 1..8
    BY StagesAreStatuses
  <2>1. PICK n \in 1..8 :
          /\ status[t] = Stages[n] /\ status' = [status EXCEPT ![t] = Stages[n + 1]]
          /\ lease' = IF n = 1 THEN [lease EXCEPT ![t] = now + Duration] ELSE lease
          /\ proof' = proof /\ until' = until
    BY <1>4, <2>0, Zenon DEF Advance
  <2>2. \A v \in Verification, time \in 0..now : Lapsed(v, time)' => Lapsed(v, time)
    BY <2>1 DEF Lapsed
  <2>3. ASSUME NEW time \in 0..now, NEW u \in Target, Expirable(u, time)'
        PROVE  Expirable(u, time)
    <3>1. status'[u] \in LeaseHolding /\ lease'[u] # None /\ lease'[u] <= time
      BY <2>3 DEF Expirable, LeaseHolding
    <3>2. CASE u # t
      BY <2>1, <3>1, <3>2, SameList DEF TypeOK
    <3>3. CASE u = t /\ n = 1
      BY <1>1, <2>1, <3>1, <3>3 DEF TypeOK
    <3>4. CASE u = t /\ n # 1
      <4>1. status'[t] = Stages[n + 1] /\ lease' = lease
        BY <2>1, <3>4 DEF TypeOK
      <4>2. Stages[n] \in LeaseHolding
        BY <3>4 DEF Stages, LeaseHolding
      <4>3. QED BY <2>1, <3>1, <3>4, <4>1, <4>2, SameList
    <3>5. QED BY <3>2, <3>3, <3>4
  <2>4. QED BY <2>2, <2>3 DEF NothingLapsesInThePast
<1>5. ASSUME NEW t \in Target, Stop(t) PROVE NothingLapsesInThePast
  BY <1>5 DEF Stop, NothingLapsesInThePast, Expirable, Lapsed, TypeOK
<1>6. ASSUME NEW v \in Verification, Verify(v) PROVE NothingLapsesInThePast
  BY <1>1, <1>6 DEF Verify, NothingLapsesInThePast, Expirable, Lapsed, TypeOK
<1>7. ASSUME NEW v \in Verification, Revoke(v) PROVE NothingLapsesInThePast
  BY <1>7 DEF Revoke, NothingLapsesInThePast, Expirable, Lapsed, TypeOK
<1>8. now' >= now /\ now' \in Nat /\ bypass' = bypass /\ run' = run
  BY <1>1 DEF Tick, Renew, Advance, Stop, Verify, Revoke
<1>9. QED BY <1>2, <1>3, <1>4, <1>5, <1>6, <1>7, <1>8

LEMMA NextPicked ==
  ASSUME TypeOK, PickedAll, [Next]_vars
  PROVE  PickedAll'
<1>1. ASSUME NEW r \in Run, BeginLeases(r) PROVE PickedAll'
  <2>1. /\ run' = [run EXCEPT ![r] = [task |-> "leases", at |-> now,
                                     picked |-> {t \in Visible(Target) : Expirable(t, now)}]]
        /\ UNCHANGED <<now, status, lease, proof, until, bypass>> /\ now \in Nat
    BY <1>1, LeaseAssumption DEF BeginLeases, rowVars, TypeOK
  <2>2. \A q \in Run \ {r} : run'[q] = run[q]
    BY <2>1, RunType
  <2>3. /\ run'[r].task = "leases" /\ run'[r].at = now
        /\ run'[r].picked = {t \in Visible(Target) : Expirable(t, now)}
    BY <2>1, RunType
  <2>4. /\ \A t, time : Expirable(t, time)' <=> Expirable(t, time)
        /\ \A v, time : Lapsed(v, time)' <=> Lapsed(v, time)
    BY <2>1 DEF Expirable, Lapsed
  <2>5. bypass => \A t \in Target : Expirable(t, now) => t \in run'[r].picked
    BY <2>3 DEF Visible
  <2>6. QED BY <2>1, <2>2, <2>3, <2>4, <2>5 DEF PickedAll
<1>2. ASSUME NEW r \in Run, BeginVerifications(r) PROVE PickedAll'
  <2>1. /\ run' = [run EXCEPT ![r] = [task |-> "verifications", at |-> now,
                                     picked |-> {v \in Visible(Verification) : Lapsed(v, now)}]]
        /\ UNCHANGED <<now, status, lease, proof, until, bypass>> /\ now \in Nat
    BY <1>2, LeaseAssumption DEF BeginVerifications, rowVars, TypeOK
  <2>2. \A q \in Run \ {r} : run'[q] = run[q]
    BY <2>1, RunType
  <2>3. /\ run'[r].task = "verifications" /\ run'[r].at = now
        /\ run'[r].picked = {v \in Visible(Verification) : Lapsed(v, now)}
    BY <2>1, RunType
  <2>4. /\ \A t, time : Expirable(t, time)' <=> Expirable(t, time)
        /\ \A v, time : Lapsed(v, time)' <=> Lapsed(v, time)
    BY <2>1 DEF Expirable, Lapsed
  <2>5. bypass => \A v \in Verification : Lapsed(v, now) => v \in run'[r].picked
    BY <2>3 DEF Visible
  <2>6. QED BY <2>1, <2>2, <2>3, <2>4, <2>5 DEF PickedAll
<1>3. ASSUME NEW r \in Run,
             ExpireBuildLeases(r) \/ ExpireDomainVerifications(r) \/ RunFails(r)
      PROVE  PickedAll'
  <2>1. /\ run' = [run EXCEPT ![r] = Idle] /\ now' = now /\ bypass' = bypass
        /\ lease' = lease /\ until' = until /\ now \in Nat
    BY <1>3, LeaseAssumption DEF ExpireBuildLeases, ExpireDomainVerifications, RunFails, rowVars, TypeOK
  <2>2. /\ \A t \in Target : status'[t] \in {status[t], "expired"}
        /\ \A v \in Verification : proof'[v] \in {proof[v], "expired"}
    BY <1>3 DEF ExpireBuildLeases, ExpireDomainVerifications, RunFails, rowVars
  <2>3. NothingLapsesInThePast
    BY <2>1, <2>2 DEF NothingLapsesInThePast, Expirable, Lapsed
  <2>4. \A q \in Run : run'[q] \in {run[q], Idle}
    BY <2>1, RunType
  <2>5. QED BY <2>1, <2>3, <2>4, PickedStays
<1>4. CASE \/ Tick
           \/ \E t \in Target : Renew(t) \/ Advance(t) \/ Stop(t)
           \/ \E v \in Verification : Verify(v) \/ Revoke(v)
  BY <1>4, OthersLapseNothing, PickedStays
<1>5. CASE UNCHANGED vars
  BY <1>5 DEF vars, PickedAll, Expirable, Lapsed
<1>6. QED BY <1>1, <1>2, <1>3, <1>4, <1>5 DEF Next

LEMMA Picked == Spec => [](TypeOK /\ PickedAll)
<1>1. Init => PickedAll
  BY DEF Init, PickedAll, Idle
<1>2. QED BY <1>1, InitType, NextType, NextPicked, PTL DEF Spec

-----------------------------------------------------------------------------
(* What a run picks is exactly what shouldExpireLease, the function the    *)
(* tests check, selects.                                                   *)
THEOREM TaskIsFunction == Spec => TaskAgreesWithFunction
<1>1. ASSUME TypeOK, NEW r \in Run, bypass, BeginLeases(r)
      PROVE  run'[r].picked = {t \in Target : ShouldExpireLease(t)}
  <2>1. run'[r].picked = {t \in Target : Expirable(t, now)}
    BY <1>1, RunType DEF BeginLeases, Visible
  <2>2. QED BY <2>1, SameList DEF ShouldExpireLease
<1>2. TypeOK => [\A r \in Run : bypass /\ BeginLeases(r) =>
                   run'[r].picked = {t \in Target : ShouldExpireLease(t)}]_vars
  BY <1>1
<1>3. QED BY <1>2, Picked, PTL DEF Spec, TaskAgreesWithFunction

(* A run ends nothing that is live, although it picked its rows earlier,   *)
(* and leaves nothing behind that had run out when it began, whatever was  *)
(* renewed, moved on or ended by another run meanwhile.                    *)
THEOREM RunsAreExact == Spec => LapsedAndOnlyLapsed
<1>1. ASSUME TypeOK, PickedAll, NEW r \in Run, ExpireBuildLeases(r)
      PROVE  /\ \A t \in Target : status'[t] # status[t] => Expirable(t, now)
             /\ bypass => \A time \in 0..run[r].at : (\A t \in Target : ~Expirable(t, time))'
  <2>1. /\ run[r].task = "leases" /\ lease' = lease
        /\ \A t \in Target : status'[t] = IF t \in Expiring(r) THEN "expired" ELSE status[t]
    BY <1>1 DEF ExpireBuildLeases
  <2>2. run[r].at \in Nat /\ now \in Nat /\ run[r].at <= now
    BY <1>1, <2>1, RunShapes, LeaseAssumption DEF LeaseRun, PickedAll, TypeOK
  <2>3. \A t \in Target : lease[t] # None => lease[t] \in Nat
    BY <1>1 DEF TypeOK
  <2>4. \A t \in Target : t \in Expiring(r) => Expirable(t, run[r].at)
    BY DEF Expiring
  <2>5. \A t \in Target, m, n \in Nat : m <= n /\ Expirable(t, m) => Expirable(t, n)
    BY <2>3 DEF Expirable
  <2>6. \A t \in Target : status'[t] # status[t] => Expirable(t, now)
    BY <2>1, <2>2, <2>4, <2>5
  <2>7. ASSUME bypass, NEW time \in 0..run[r].at, NEW t \in Target, Expirable(t, time)'
        PROVE  FALSE
    <3>1. t \notin Expiring(r) /\ status'[t] = status[t]
      BY <2>1, <2>7 DEF Expirable
    <3>2. Expirable(t, time) /\ time \in Nat /\ time <= run[r].at
      BY <2>1, <2>2, <2>7, <3>1 DEF Expirable
    <3>3. Expirable(t, run[r].at)
      BY <2>2, <2>5, <3>2
    <3>4. QED BY <1>1, <2>1, <2>2, <2>7, <3>1, <3>3 DEF PickedAll, Expiring
  <2>8. QED BY <2>6, <2>7
<1>2. ASSUME TypeOK, PickedAll, NEW r \in Run, ExpireDomainVerifications(r)
      PROVE  /\ \A v \in Verification : proof'[v] # proof[v] => Lapsed(v, now)
             /\ bypass => \A time \in 0..run[r].at : (\A v \in Verification : ~Lapsed(v, time))'
  <2>1. /\ run[r].task = "verifications" /\ until' = until
        /\ \A v \in Verification :
             proof'[v] = IF v \in run[r].picked /\ Lapsed(v, run[r].at) THEN "expired" ELSE proof[v]
    BY <1>2 DEF ExpireDomainVerifications
  <2>2. run[r].at \in Nat /\ now \in Nat /\ run[r].at <= now
    BY <1>2, <2>1, RunShapes, LeaseAssumption DEF VerificationRun, PickedAll, TypeOK
  <2>3. \A v \in Verification, m, n \in Nat : m <= n /\ Lapsed(v, m) => Lapsed(v, n)
    BY <1>2 DEF Lapsed, TypeOK
  <2>4. \A v \in Verification : proof'[v] # proof[v] => Lapsed(v, now)
    BY <2>1, <2>2, <2>3
  <2>5. ASSUME bypass, NEW time \in 0..run[r].at, NEW v \in Verification, Lapsed(v, time)'
        PROVE  FALSE
    <3>1. ~(v \in run[r].picked /\ Lapsed(v, run[r].at)) /\ proof'[v] = proof[v]
      BY <2>1, <2>5 DEF Lapsed
    <3>2. Lapsed(v, time) /\ time \in Nat /\ time <= run[r].at
      BY <2>1, <2>2, <2>5, <3>1 DEF Lapsed
    <3>3. Lapsed(v, run[r].at)
      BY <2>2, <2>3, <3>2
    <3>4. QED BY <1>2, <2>1, <2>2, <2>5, <3>1, <3>3 DEF PickedAll
  <2>6. QED BY <2>4, <2>5
<1>3. TypeOK /\ PickedAll =>
        [\A r \in Run :
           /\ ExpireBuildLeases(r) =>
                /\ \A t \in Target : status'[t] # status[t] => Expirable(t, now)
                /\ bypass => \A time \in 0..run[r].at : (\A t \in Target : ~Expirable(t, time))'
           /\ ExpireDomainVerifications(r) =>
                /\ \A v \in Verification : proof'[v] # proof[v] => Lapsed(v, now)
                /\ bypass => \A time \in 0..run[r].at : (\A v \in Verification : ~Lapsed(v, time))']_vars
  BY <1>1, <1>2
<1>4. QED BY <1>3, Picked, PTL DEF Spec, LapsedAndOnlyLapsed
=============================================================================
