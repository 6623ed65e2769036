----------------------------- MODULE BuildLease -----------------------------
(***************************************************************************)
(* The job worker (apps/jobs/src/tasks.ts): a task that expires the leases *)
(* of build targets and one that expires domain verifications. Each run is *)
(* one UPDATE in a transaction of its own, read committed: it picks rows   *)
(* and the time when it begins, waits for rows that others are changing,   *)
(* tests these again as it finds them, and commits. Runs may overlap.      *)
(*                                                                         *)
(* When a run begins, or that one ever does, is left open: what becomes of *)
(* the crontab is up to a library, a run that fails is not tried again,    *)
(* and the worker may be down. Runners and the verification flow are not   *)
(* in the repository: their actions here are what the columns and the      *)
(* status type allow. The worker sets no app.organization_id: in a role    *)
(* that row security applies to, an UPDATE finds no row.                   *)
(***************************************************************************)
EXTENDS Naturals, Sequences

CONSTANTS
  Target,        \* build targets
  Verification,  \* domain verifications
  Run,           \* runs of tasks that may overlap
  Duration,      \* how long a lease or a verification lasts
  MaxTime,       \* where the clock stops (a bound)
  None           \* NULL

ASSUME LeaseAssumption ==
  Duration \in Nat \ {0} /\ MaxTime \in Nat

VARIABLES
  now,           \* the clock
  status, lease, \* status and lease_expires_at of each target
  proof, until,  \* status and expires_at of each verification
  run,           \* the task of each run, its NOW() and the rows it picked
  bypass         \* does the worker's role bypass row security?

rowVars == <<status, lease, proof, until>>
vars == <<now, status, lease, proof, until, run, bypass>>

(* The order of a build; and how it may end.                               *)
Stages == <<"queued", "leased", "preparing", "building", "validating",
            "awaiting_signing", "signing", "verifying", "completed">>
BuildStatus == {Stages[n] : n \in DOMAIN Stages} \cup {"failed", "cancelled", "expired"}

TypeOK ==
  /\ now \in 0..MaxTime
  /\ status \in [Target -> BuildStatus]
  /\ lease \in [Target -> Nat \cup {None}]
  /\ proof \in [Verification -> {"pending", "verified", "expired", "revoked"}]
  /\ until \in [Verification -> Nat]
  /\ run \in [Run -> [task : {"none"}] \cup
                      [task : {"leases"}, at : Nat, picked : SUBSET Target] \cup
                      [task : {"verifications"}, at : Nat, picked : SUBSET Verification]]
  /\ bypass \in BOOLEAN

Idle == [task |-> "none"]

Init ==
  /\ now = 0
  /\ status = [t \in Target |-> "queued"] /\ lease = [t \in Target |-> None]
  /\ proof = [v \in Verification |-> "pending"]
  /\ until = [v \in Verification |-> Duration]
  /\ run = [r \in Run |-> Idle]
  /\ bypass \in BOOLEAN

(* lease.ts: what should expire.                                           *)
LeaseHolding == {"leased", "preparing", "building", "validating",
                 "awaiting_signing", "signing", "verifying"}

ShouldExpireLease(t) ==
  status[t] \in LeaseHolding /\ lease[t] # None /\ lease[t] <= now

-----------------------------------------------------------------------------
(* Seeded faults.                                                          *)

ExpirableLate(t, time) == status[t] \in LeaseHolding /\ lease[t] # None /\ lease[t] < time
ExpiringUntested(r) == run[r].picked

-----------------------------------------------------------------------------
(* tasks.ts: what the UPDATE statements select at a time.                  *)
Expirable(t, time) ==
  /\ status[t] \in {"leased", "preparing", "building", "validating",
                    "awaiting_signing", "signing", "verifying"}
  /\ lease[t] # None /\ lease[t] <= time

Lapsed(v, time) == proof[v] \in {"pending", "verified"} /\ until[v] <= time

(* Without a tenant the policies of a role they apply to select nothing.   *)
Visible(rows) == IF bypass THEN rows ELSE {}

BeginLeases(r) ==
  /\ run[r] = Idle
  /\ run' = [run EXCEPT ![r] = [task |-> "leases", at |-> now,
                                picked |-> {t \in Visible(Target) : Expirable(t, now)}]]
  /\ UNCHANGED <<now, rowVars, bypass>>

BeginVerifications(r) ==
  /\ run[r] = Idle
  /\ run' = [run EXCEPT ![r] = [task |-> "verifications", at |-> now,
                                picked |-> {v \in Visible(Verification) : Lapsed(v, now)}]]
  /\ UNCHANGED <<now, rowVars, bypass>>

(* A row that changed since it was picked is tested again.                 *)
Expiring(r) == {t \in run[r].picked : Expirable(t, run[r].at)}

ExpireBuildLeases(r) ==
  /\ run[r].task = "leases"
  /\ status' = [t \in Target |-> IF t \in Expiring(r) THEN "expired" ELSE status[t]]
  /\ run' = [run EXCEPT ![r] = Idle]
  /\ UNCHANGED <<now, lease, proof, until, bypass>>

ExpireDomainVerifications(r) ==
  /\ run[r].task = "verifications"
  /\ proof' = [v \in Verification |->
                 IF v \in run[r].picked /\ Lapsed(v, run[r].at) THEN "expired" ELSE proof[v]]
  /\ run' = [run EXCEPT ![r] = Idle]
  /\ UNCHANGED <<now, status, lease, until, bypass>>

(* A lost connection, a deadlock of two runs, a worker that is killed.     *)
RunFails(r) ==
  /\ run[r] # Idle
  /\ run' = [run EXCEPT ![r] = Idle]
  /\ UNCHANGED <<now, rowVars, bypass>>

-----------------------------------------------------------------------------
(* The rest of the world.                                                  *)

Tick ==
  /\ now < MaxTime /\ now' = now + 1
  /\ UNCHANGED <<status, lease, proof, until, run, bypass>>

(* A runner takes a queued target, heartbeats, and moves it on; a build    *)
(* may fail or be cancelled at any stage.                                  *)
Renew(t) ==
  /\ status[t] \in LeaseHolding
  /\ lease' = [lease EXCEPT ![t] = now + Duration]
  /\ UNCHANGED <<now, status, proof, until, run, bypass>>

Advance(t) ==
  /\ \E n \in 1..Len(Stages) - 1 :
       /\ status[t] = Stages[n]
       /\ status' = [status EXCEPT ![t] = Stages[n + 1]]
       /\ lease' = IF n = 1 THEN [lease EXCEPT ![t] = now + Duration] ELSE lease
  /\ UNCHANGED <<now, proof, until, run, bypass>>

Stop(t) ==
  /\ status[t] \in LeaseHolding \cup {"queued"}
  /\ \E s \in {"failed", "cancelled"} : status' = [status EXCEPT ![t] = s]
  /\ UNCHANGED <<now, lease, proof, until, run, bypass>>

Verify(v) ==
  /\ proof[v] = "pending" /\ now < until[v]
  /\ proof' = [proof EXCEPT ![v] = "verified"]
  /\ until' = [until EXCEPT ![v] = now + Duration]
  /\ UNCHANGED <<now, status, lease, run, bypass>>

Revoke(v) ==
  /\ proof[v] \in {"pending", "verified"}
  /\ proof' = [proof EXCEPT ![v] = "revoked"]
  /\ UNCHANGED <<now, status, lease, until, run, bypass>>

Next ==
  \/ \E r \in Run :
       \/ BeginLeases(r) \/ BeginVerifications(r)
       \/ ExpireBuildLeases(r) \/ ExpireDomainVerifications(r) \/ RunFails(r)
  \/ Tick
  \/ \E t \in Target : Renew(t) \/ Advance(t) \/ Stop(t)
  \/ \E v \in Verification : Verify(v) \/ Revoke(v)

Spec == Init /\ [][Next]_vars

-----------------------------------------------------------------------------
(* Properties                                                              *)

(* The statement of the task and the function the tests check agree: in a  *)
(* role that sees the rows, a run picks exactly the targets which          *)
(* shouldExpireLease selects (tasks.ts:14-23, lease.ts:25-34).             *)
TaskAgreesWithFunction ==
  [][\A r \in Run :
       bypass /\ BeginLeases(r) => run'[r].picked = {t \in Target : ShouldExpireLease(t)}]_vars

(* However runners and owners renew, finish or stop while a run waits for  *)
(* their rows, and other runs end them: a run ends only what has run out,  *)
(* and where its role sees the rows it leaves nothing behind that had run  *)
(* out when it began (tasks.ts:14-37).                                     *)
LapsedAndOnlyLapsed ==
  [][\A r \in Run :
       /\ ExpireBuildLeases(r) =>
            /\ \A t \in Target : status'[t] # status[t] => Expirable(t, now)
            /\ bypass => \A time \in 0..run[r].at : (\A t \in Target : ~Expirable(t, time))'
       /\ ExpireDomainVerifications(r) =>
            /\ \A v \in Verification : proof'[v] # proof[v] => Lapsed(v, now)
            /\ bypass => \A time \in 0..run[r].at : (\A v \in Verification : ~Lapsed(v, time))']_vars
=============================================================================
