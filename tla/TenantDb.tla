------------------------------ MODULE TenantDb ------------------------------
(***************************************************************************)
(* The control plane's database: the tables of drizzle/0000_foundation.sql *)
(* and the tenant security of 0001_tenant_security.sql. Sessions send any  *)
(* statements on rows, and TRUNCATE; PostgreSQL applies row security,      *)
(* foreign keys, their cascades and the revision trigger. A statement is   *)
(* atomic. Statements that change the schema, or switch triggers off, are  *)
(* left out.                                                               *)
(*                                                                         *)
(* The rows of all tenant tables are one function over keys; a row is its  *)
(* organization and its references. Other columns, and the unique indexes  *)
(* over them, are left out. That a role which owns no bypass is subject to *)
(* the forced policies, while the foreign keys' own checks and cascades    *)
(* are not, is PostgreSQL's rule.                                          *)
(***************************************************************************)
EXTENDS Naturals, FiniteSets

CONSTANTS
  Org, User,   \* keys of organizations and users
  Row,         \* keys of the rows of tenant tables
  TableOf,     \* the table of each such key
  None         \* NULL, no row, no tenant

(* The tables under tenant_isolation that have an organization_id.         *)
TenantTables ==
  { "memberships", "projects", "domain_verifications", "app_spec_revisions", "runners",
    "builds", "build_targets", "artifacts", "audit_events" }

(* "projects": REFERENCES, and ON DELETE, of the columns of each table     *)
(* besides organization_id, which every table has and which cascades.      *)
Reference(child, column, parent, onDelete) ==
  [child |-> child, column |-> column, parent |-> parent, onDelete |-> onDelete]

ForeignKey ==
  { Reference("memberships", "user_id", "users", "cascade"),
    Reference("domain_verifications", "project_id", "projects", "cascade"),
    Reference("app_spec_revisions", "project_id", "projects", "cascade"),
    Reference("app_spec_revisions", "created_by", "users", "setNull"),
    Reference("builds", "project_id", "projects", "cascade"),
    Reference("builds", "app_spec_revision_id", "app_spec_revisions", "restrict"),
    Reference("builds", "requested_by", "users", "setNull"),
    Reference("build_targets", "build_id", "builds", "cascade"),
    Reference("build_targets", "runner_id", "runners", "setNull"),
    Reference("artifacts", "build_target_id", "build_targets", "cascade"),
    Reference("audit_events", "actor_id", "users", "setNull") }

(* A seeded fault: the composite reference of runners is forgotten.        *)
CompositeWithoutRunner ==
  {<<fk.child, fk.column>> : fk \in {f \in ForeignKey : f.parent \notin {"users", "runners"}}}

(* The composite references: the parent's organization must be the child's.*)
Composite ==
  { <<"domain_verifications", "project_id">>, <<"app_spec_revisions", "project_id">>,
    <<"builds", "project_id">>, <<"builds", "app_spec_revision_id">>,
    <<"build_targets", "build_id">>, <<"build_targets", "runner_id">>,
    <<"artifacts", "build_target_id">> }

KeysOf(table) == {fk \in ForeignKey : fk.child = table}
Columns(table) == {fk.column : fk \in KeysOf(table)}

(* What a column may hold: only the columns set to null on delete are      *)
(* nullable.                                                               *)
Domain(fk) ==
  (IF fk.parent = "users" THEN User ELSE {k \in Row : TableOf[k] = fk.parent})
    \cup (IF fk.onDelete = "setNull" THEN {None} ELSE {})

Values(table) == UNION {Domain(fk) : fk \in KeysOf(table)}
Refs(table) ==
  {ref \in [Columns(table) -> Values(table)] :
     \A fk \in KeysOf(table) : ref[fk.column] \in Domain(fk)}
Tuples(table) == [org : Org, ref : Refs(table)]

ASSUME KeysAssumption ==
  /\ TableOf \in [Row -> TenantTables] /\ Row \cap User = {} /\ None \notin Row \cup User
  /\ \A k \in Row : None \notin Tuples(TableOf[k])

VARIABLES
  orgs, users,  \* the keys in those tables
  rows,         \* the tuple under each key, or None
  tenant,       \* app.organization_id of the session
  bypass,       \* does the session's role bypass row security?
  owner         \* may it TRUNCATE, as the owner of the tables may?

vars == <<orgs, users, rows, tenant, bypass, owner>>

TypeOK ==
  /\ orgs \subseteq Org /\ users \subseteq User
  /\ \A k \in Row : rows[k] \in Tuples(TableOf[k]) \cup {None}
  /\ tenant \in Org \cup {None}
  /\ bypass \in BOOLEAN /\ owner \in BOOLEAN

Init ==
  /\ orgs = {} /\ users = {}
  /\ rows = [k \in Row |-> None]
  /\ tenant = None
  /\ bypass \in BOOLEAN /\ owner \in BOOLEAN

Present == {k \in Row : rows[k] # None}
In(table) == {k \in Present : TableOf[k] = table}

-----------------------------------------------------------------------------
(* Seeded faults.                                                          *)

RaisesOnUpdate(deleted, updated) == updated \cap In("app_spec_revisions") # {}
SeesOwnOrNew(o) == bypass \/ tenant = None \/ o = tenant

-----------------------------------------------------------------------------
(* The policy tenant_isolation, USING and WITH CHECK alike.                *)
Sees(o) == bypass \/ (tenant # None /\ o = tenant)

(* The row trigger before UPDATE or DELETE, on whichever path they come.   *)
Raises(deleted, updated) == (deleted \cup updated) \cap In("app_spec_revisions") # {}

(* The checks of a row's foreign keys when it is written.                  *)
Exists(fk, p) == p = None \/ (IF fk.parent = "users" THEN p \in users ELSE p \in In(fk.parent))

SameOrg(table, column, o, p) ==
  <<table, column>> \in Composite /\ p # None => rows[p].org = o

ReferencesHold(table, t) ==
  /\ t.org \in orgs
  /\ \A fk \in KeysOf(table) :
       LET p == t.ref[fk.column]
       IN Exists(fk, p) /\ SameOrg(table, fk.column, t.org, p)

(* The rows that refer to one of the keys K, by a key of that kind.        *)
Referring(K, onDelete) ==
  {k \in Present : \E fk \in KeysOf(TableOf[k]) :
     fk.onDelete = onDelete /\ rows[k].ref[fk.column] \in K}

(* Cascades: project, build, target, artifact is the longest chain.        *)
WithChildren(K) == K \cup Referring(K, "cascade")
Doomed(K) == WithChildren(WithChildren(WithChildren(K)))

(* ON DELETE SET NULL, in every column that refers to K.                   *)
Nulled(k, K) ==
  [rows[k] EXCEPT !.ref =
     [c \in DOMAIN @ |->
        IF @[c] \in K /\ \E fk \in KeysOf(TableOf[k]) : fk.column = c /\ fk.onDelete = "setNull"
        THEN None ELSE @[c]]]

(* Delete the rows D and whatever hangs on them; K is what disappears.     *)
Purge(D, K) ==
  LET nulled == Referring(K, "setNull") \ D
  IN /\ ~Raises(D, nulled)
     /\ Referring(K, "restrict") \subseteq D
     /\ rows' = [k \in Row |-> IF k \in D THEN None
                               ELSE IF k \in nulled THEN Nulled(k, K) ELSE rows[k]]

-----------------------------------------------------------------------------
(* Statements. One that PostgreSQL refuses changes nothing.                *)

SetTenant(o) == tenant' = o /\ UNCHANGED <<orgs, users, rows, bypass, owner>>

InsertOrg(o) ==
  /\ o \notin orgs /\ Sees(o)
  /\ orgs' = orgs \cup {o}
  /\ UNCHANGED <<users, rows, tenant, bypass, owner>>

InsertUser(u) ==
  /\ u \notin users
  /\ users' = users \cup {u}
  /\ UNCHANGED <<orgs, rows, tenant, bypass, owner>>

Insert(k, t) ==
  /\ k \notin Present
  /\ Sees(t.org) /\ ReferencesHold(TableOf[k], t)
  /\ rows' = [rows EXCEPT ![k] = t]
  /\ UNCHANGED <<orgs, users, tenant, bypass, owner>>

(* A role that bypasses row security may move a row to another             *)
(* organization: then nothing may refer to it by (id, organization_id).    *)
Update(k, t) ==
  /\ k \in Present
  /\ Sees(rows[k].org) /\ Sees(t.org)
  /\ ~Raises({}, {k})
  /\ ReferencesHold(TableOf[k], t)
  /\ \A c \in Present, fk \in ForeignKey :
       /\ fk.child = TableOf[c] /\ rows[c].ref[fk.column] = k
       /\ <<fk.child, fk.column>> \in Composite
       => t.org = rows[k].org
  /\ rows' = [rows EXCEPT ![k] = t]
  /\ UNCHANGED <<orgs, users, tenant, bypass, owner>>

Delete(k) ==
  /\ k \in Present /\ Sees(rows[k].org)
  /\ LET D == Doomed({k}) IN Purge(D, D)
  /\ UNCHANGED <<orgs, users, tenant, bypass, owner>>

DeleteOrg(o) ==
  /\ o \in orgs /\ Sees(o)
  /\ orgs' = orgs \ {o}
  /\ LET D == Doomed({k \in Present : rows[k].org = o}) IN Purge(D, D)
  /\ UNCHANGED <<users, tenant, bypass, owner>>

(* users has no policy.                                                    *)
DeleteUser(u) ==
  /\ u \in users
  /\ users' = users \ {u}
  /\ LET D == Doomed(Referring({u}, "cascade")) IN Purge(D, D \cup {u})
  /\ UNCHANGED <<orgs, tenant, bypass, owner>>

(* TRUNCATE needs every table that refers to one it empties: CASCADE names *)
(* them, the least such set. It fires no row trigger and heeds no policy.  *)
(* Naming several tables has the effect of several such statements.        *)
Tables == TenantTables \cup {"organizations", "users"}

Truncatable ==
  {T \in SUBSET Tables :
     /\ \A fk \in ForeignKey : fk.parent \in T => fk.child \in T
     /\ "organizations" \in T => TenantTables \subseteq T}

CascadeTo ==
  [table \in Tables |->
     {t \in Tables : \A T \in Truncatable : table \in T => t \in T}]

Truncate(table) ==
  LET T == CascadeTo[table] IN
  /\ owner
  /\ rows' = [k \in Row |-> IF TableOf[k] \in T THEN None ELSE rows[k]]
  /\ users' = IF "users" \in T THEN {} ELSE users
  /\ orgs' = IF "organizations" \in T THEN {} ELSE orgs
  /\ UNCHANGED <<tenant, bypass, owner>>

Next ==
  \/ \E table \in Tables : Truncate(table)
  \/ \E o \in Org \cup {None} : SetTenant(o)
  \/ \E o \in Org : InsertOrg(o) \/ DeleteOrg(o)
  \/ \E u \in User : InsertUser(u) \/ DeleteUser(u)
  \/ \E k \in Row : Delete(k) \/ \E t \in Tuples(TableOf[k]) : Insert(k, t) \/ Update(k, t)

Spec == Init /\ [][Next]_vars

-----------------------------------------------------------------------------
(* Properties                                                              *)

(* Every reference leads to a row that is there, and, between tenant       *)
(* tables, of the same organization: an artifact, its target, the runner,  *)
(* the build, its revision and the projects belong to one tenant, whatever *)
(* was moved, deleted or cascaded (0001:32-44).                            *)
TenantsNeverMix ==
  \A k \in Present :
    /\ rows[k].org \in orgs
    /\ \A fk \in KeysOf(TableOf[k]) :
         LET p == rows[k].ref[fk.column]
         IN p # None =>
              IF fk.parent = "users" THEN p \in users
              ELSE p \in In(fk.parent) /\ rows[p].org = rows[k].org

(* All rows of those tables are gone.                                      *)
Emptied(tables) == \A k \in Row : TableOf[k] \in tables => rows[k] = None

(* A revision stays as it is for ever, for every role, by whichever        *)
(* statement or cascade on rows it is reached (0001:27-30). The trigger is *)
(* one for rows: a role that may TRUNCATE can still empty the table, but   *)
(* only whole, and with all builds, targets and artifacts, of all tenants. *)
RevisionsFrozen ==
  [][\A k \in Row :
       TableOf[k] = "app_spec_revisions" /\ rows[k] # None /\ rows'[k] # rows[k] =>
         owner /\ Emptied({"app_spec_revisions", "builds", "build_targets", "artifacts"})']_vars

(* A session under the policies adds, changes and removes rows of its own  *)
(* tenant only, and none without one (0001:6-25). The exceptions are what  *)
(* follows a deleted user, and TRUNCATE, which empties a table for all     *)
(* tenants, where the session's role owns the tables.                      *)
OthersUntouched ==
  [][~bypass =>
       \A k \in Row :
         /\ rows[k] = None /\ rows'[k] # None => rows'[k].org = tenant
         /\ rows[k] # None /\ rows'[k] # rows[k] /\ rows[k].org # tenant =>
              \/ \E c \in DOMAIN rows[k].ref : rows[k].ref[c] \in users \ users'
              \/ owner /\ Emptied({TableOf[k]})']_vars
=============================================================================
