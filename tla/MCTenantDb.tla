----------------------------- MODULE MCTenantDb -----------------------------
(* Keys of each table for two instances: the chain of a build, and the      *)
(* tables that refer to users.                                              *)
EXTENDS TenantDb, TLC

CONSTANTS o1, o2, u1, p1, p2, r1, n1, b1, t1, a1, m1, e1

MCTableOf ==
  (p1 :> "projects") @@ (p2 :> "projects") @@ (r1 :> "app_spec_revisions") @@
  (n1 :> "runners") @@ (b1 :> "builds") @@ (t1 :> "build_targets") @@
  (a1 :> "artifacts") @@ (m1 :> "memberships") @@ (e1 :> "audit_events")

MCSymmetry == Permutations({o1, o2}) \cup Permutations({p1, p2})
=============================================================================
