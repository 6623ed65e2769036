---------------------------- MODULE TenantDbProofs ----------------------------
(***************************************************************************)
(* The foreign keys, their cascades, the policies and the trigger keep     *)
(* tenants apart, for all sets of keys and every assignment of tables.     *)
(***************************************************************************)
EXTENDS TenantDb, TLAPS

-----------------------------------------------------------------------------
(* The schema: eleven references.                                          *)

LEMMA Fields ==
  \A c, n, p, d :
    /\ Reference(c, n, p, d).child = c /\ Reference(c, n, p, d).column = n
    /\ Reference(c, n, p, d).parent = p /\ Reference(c, n, p, d).onDelete = d
BY DEF Reference

LEMMA ColumnIsOneKey ==
  \A f, g \in ForeignKey : f.child = g.child /\ f.column = g.column => f = g
BY Fields DEF ForeignKey

LEMMA TenantKeysAreComposite ==
  \A f \in ForeignKey : f.parent # "users" => <<f.child, f.column>> \in Composite
BY Fields DEF ForeignKey, Composite

LEMMA NotSelfReferring ==
  \A f \in ForeignKey : f.parent # f.child /\ f.parent # "memberships"
BY Fields DEF ForeignKey

LEMMA OnDeletes ==
  \A f \in ForeignKey : f.onDelete \in {"cascade", "restrict", "setNull"}
BY Fields DEF ForeignKey

(* How far a table is from the projects, along cascading references.       *)
Rank(table) ==
  IF table = "artifacts" THEN 3
  ELSE IF table = "build_targets" THEN 2
  ELSE IF table \in {"builds", "domain_verifications", "app_spec_revisions"} THEN 1 ELSE 0

LEMMA CascadesDescend ==
  \A f \in ForeignKey :
    f.onDelete = "cascade" /\ f.parent # "users" => Rank(f.child) = Rank(f.parent) + 1
BY Fields DEF ForeignKey, Rank

LEMMA RankBounded == \A table : Rank(table) \in 0..3
BY DEF Rank

-----------------------------------------------------------------------------
(* Tuples.                                                                 *)

RowsTyped ==
  /\ rows = [k \in Row |-> rows[k]]
  /\ \A k \in Row : rows[k] \in Tuples(TableOf[k]) \cup {None}

Inv == TypeOK /\ RowsTyped /\ TenantsNeverMix

LEMMA TupleShape ==
  ASSUME NEW table, NEW t \in Tuples(table)
  PROVE  /\ t = [org |-> t.org, ref |-> t.ref] /\ t.org \in Org
         /\ t.ref \in [Columns(table) -> Values(table)]
         /\ \A fk \in KeysOf(table) :
              fk.column \in Columns(table) /\ t.ref[fk.column] \in Domain(fk)
BY DEF Tuples, Refs, Columns

LEMMA TupleIntro ==
  ASSUME NEW table, NEW o \in Org, NEW r,
         r = [c \in Columns(table) |-> r[c]],
         \A fk \in KeysOf(table) : r[fk.column] \in Domain(fk)
  PROVE  [org |-> o, ref |-> r] \in Tuples(table)
<1>1. \A c \in Columns(table) : r[c] \in Values(table)
  BY DEF Columns, Values
<1>2. r \in [Columns(table) -> Values(table)]
  BY <1>1
<1>3. QED BY <1>2 DEF Tuples, Refs

(* A reference that is not NULL leads to a user or to a key of its table.  *)
LEMMA Leads ==
  ASSUME RowsTyped, NEW k \in Present, NEW fk \in KeysOf(TableOf[k])
  PROVE  /\ fk \in ForeignKey /\ fk.child = TableOf[k]
         /\ fk.column \in DOMAIN rows[k].ref
         /\ rows[k].ref[fk.column] # None =>
              IF fk.parent = "users" THEN rows[k].ref[fk.column] \in User
              ELSE /\ rows[k].ref[fk.column] \in Row
                   /\ TableOf[rows[k].ref[fk.column]] = fk.parent
<1>1. rows[k] \in Tuples(TableOf[k])
  BY DEF RowsTyped, Present
<1>2. rows[k].ref[fk.column] \in Domain(fk) /\ fk.column \in DOMAIN rows[k].ref
  BY <1>1, TupleShape
<1>3. QED BY <1>2 DEF Domain, KeysOf

(* Setting references to NULL leaves a tuple of the table.                 *)
LEMMA NulledTuple ==
  ASSUME RowsTyped, NEW k \in Present, NEW K
  PROVE  /\ Nulled(k, K) \in Tuples(TableOf[k])
         /\ Nulled(k, K).org = rows[k].org
         /\ \A fk \in KeysOf(TableOf[k]) :
              Nulled(k, K).ref[fk.column] =
                IF rows[k].ref[fk.column] \in K /\ fk.onDelete = "setNull"
                THEN None ELSE rows[k].ref[fk.column]
<1> DEFINE table == TableOf[k]
           Drop(c) == /\ rows[k].ref[c] \in K
                      /\ \E fk \in KeysOf(table) : fk.column = c /\ fk.onDelete = "setNull"
           r == [c \in Columns(table) |-> IF Drop(c) THEN None ELSE rows[k].ref[c]]
<1>1. /\ rows[k] \in Tuples(table) /\ rows[k] = [org |-> rows[k].org, ref |-> rows[k].ref]
      /\ rows[k].org \in Org /\ DOMAIN rows[k].ref = Columns(table)
  BY TupleShape DEF RowsTyped, Present
<1>2. Nulled(k, K) = [org |-> rows[k].org, ref |-> r]
  <2>1. Nulled(k, K) =
          [rows[k] EXCEPT !.ref = [c \in DOMAIN rows[k].ref |-> IF Drop(c) THEN None ELSE rows[k].ref[c]]]
    BY DEF Nulled
  <2>2. r = [c \in DOMAIN rows[k].ref |-> IF Drop(c) THEN None ELSE rows[k].ref[c]]
    BY <1>1
  <2> HIDE DEF r, Drop
  <2>3. QED BY <1>1, <2>1, <2>2
<1>3. ASSUME NEW fk \in KeysOf(table)
      PROVE  /\ r[fk.column] = IF rows[k].ref[fk.column] \in K /\ fk.onDelete = "setNull"
                               THEN None ELSE rows[k].ref[fk.column]
             /\ r[fk.column] \in Domain(fk)
  <2>1. fk.column \in Columns(table) /\ rows[k].ref[fk.column] \in Domain(fk)
    BY <1>1, TupleShape
  <2>2. Drop(fk.column) <=> rows[k].ref[fk.column] \in K /\ fk.onDelete = "setNull"
    BY ColumnIsOneKey DEF KeysOf
  <2>3. QED BY <2>1, <2>2 DEF Domain
<1>4. Nulled(k, K) \in Tuples(table)
  <2>1. r = [c \in Columns(table) |-> r[c]]
    OBVIOUS
  <2> HIDE DEF r
  <2>2. QED BY <1>1, <1>2, <1>3, <2>1, TupleIntro
<1> HIDE DEF r
<1>5. Nulled(k, K).org = rows[k].org /\ Nulled(k, K).ref = r
  BY <1>2
<1>6. QED BY <1>3, <1>4, <1>5

-----------------------------------------------------------------------------
(* Cascades.                                                               *)

LEMMA ReferringSplits ==
  ASSUME NEW A, NEW B, NEW d
  PROVE  Referring(A \cup B, d) = Referring(A, d) \cup Referring(B, d)
BY DEF Referring

(* A row found by a cascade is one rank above the row it was found from.   *)
LEMMA CascadeClimbs ==
  ASSUME RowsTyped, NEW K \in SUBSET Row, NEW c \in Referring(K, "cascade")
  PROVE  c \in Row /\ \E d \in K : /\ c \in Referring({d}, "cascade")
                                 /\ Rank(TableOf[c]) = Rank(TableOf[d]) + 1
<1>1. PICK fk \in KeysOf(TableOf[c]) : fk.onDelete = "cascade" /\ rows[c].ref[fk.column] \in K
  BY DEF Referring
<1>2. c \in Present /\ c \in Row
  BY DEF Referring, Present
<1> DEFINE d == rows[c].ref[fk.column]
<1>3. d \in Row /\ d # None
  BY <1>1, KeysAssumption
<1>4. fk \in ForeignKey /\ fk.child = TableOf[c] /\ fk.parent # "users" /\ TableOf[d] = fk.parent
  BY <1>2, <1>3, Leads, KeysAssumption
<1>5. Rank(TableOf[c]) = Rank(TableOf[d]) + 1
  BY <1>1, <1>4, CascadesDescend
<1>6. c \in Referring({d}, "cascade")
  BY <1>1, <1>2 DEF Referring
<1>7. QED BY <1>1, <1>2, <1>5, <1>6

(* No chain is longer than three: Doomed is closed.                        *)
LEMMA DoomedClosed ==
  ASSUME RowsTyped, NEW K \in SUBSET Row
  PROVE  /\ K \subseteq Doomed(K) /\ Doomed(K) \subseteq Row
         /\ Referring(Doomed(K), "cascade") \subseteq Doomed(K)
<1> DEFINE K1 == WithChildren(K)
           K2 == WithChildren(K1)
           K3 == WithChildren(K2)
<1>1. /\ K1 = K \cup Referring(K, "cascade") /\ K2 = K1 \cup Referring(K1, "cascade")
      /\ K3 = K2 \cup Referring(K2, "cascade") /\ Doomed(K) = K3
  BY DEF WithChildren, Doomed
<1> HIDE DEF K1, K2, K3
<1>2. K1 \in SUBSET Row /\ K2 \in SUBSET Row /\ K3 \in SUBSET Row
  BY <1>1, CascadeClimbs
<1>3. \A A \in SUBSET Row : \A d \in A : Referring({d}, "cascade") \subseteq Referring(A, "cascade")
  BY DEF Referring
<1>4. ASSUME NEW c \in Referring(K3, "cascade"), c \notin K3
      PROVE  FALSE
  <2>1. PICK d1 \in K3 : /\ c \in Referring({d1}, "cascade")
                         /\ Rank(TableOf[c]) = Rank(TableOf[d1]) + 1
    BY <1>2, <1>4, CascadeClimbs
  <2>2. d1 \in Referring(K2, "cascade") /\ d1 \notin K2
    BY <1>1, <1>2, <1>3, <1>4, <2>1
  <2>3. PICK d2 \in K2 : /\ d1 \in Referring({d2}, "cascade")
                         /\ Rank(TableOf[d1]) = Rank(TableOf[d2]) + 1
    BY <1>2, <2>2, CascadeClimbs
  <2>4. d2 \in Referring(K1, "cascade") /\ d2 \notin K1
    BY <1>1, <1>2, <1>3, <2>2, <2>3
  <2>5. PICK d3 \in K1 : /\ d2 \in Referring({d3}, "cascade")
                         /\ Rank(TableOf[d2]) = Rank(TableOf[d3]) + 1
    BY <1>2, <2>4, CascadeClimbs
  <2>6. d3 \in Referring(K, "cascade")
    BY <1>1, <1>2, <1>3, <2>4, <2>5
  <2>7. PICK d4 \in K : Rank(TableOf[d3]) = Rank(TableOf[d4]) + 1
    BY <2>6, CascadeClimbs
  <2>8. Rank(TableOf[c]) \in 0..3 /\ Rank(TableOf[d4]) \in 0..3
    BY RankBounded
  <2>9. QED BY <2>1, <2>3, <2>5, <2>7, <2>8
<1>5. QED BY <1>1, <1>2, <1>4

-----------------------------------------------------------------------------
(* Deletions. D are the rows that go, R the users and O the organizations. *)

LEMMA PurgeInv ==
  ASSUME TypeOK, RowsTyped, TenantsNeverMix,
         NEW D \in SUBSET Row, NEW R \in SUBSET User, NEW O \in SUBSET Org,
         Referring(D \cup R, "cascade") \subseteq D,
         \A k \in Present : rows[k].org \in O => k \in D,
         Purge(D, D \cup R),
         users' = users \ R, orgs' = orgs \ O
  PROVE  RowsTyped' /\ TenantsNeverMix'
<1> DEFINE K == D \cup R
           nulled == Referring(K, "setNull") \ D
<1>1. /\ Referring(K, "restrict") \subseteq D
      /\ rows' = [k \in Row |-> IF k \in D THEN None
                                ELSE IF k \in nulled THEN Nulled(k, K) ELSE rows[k]]
  BY DEF Purge
<1>2. nulled \subseteq Present /\ Present \subseteq Row
  BY DEF Referring, Present
<1>0. K = D \cup R /\ nulled = Referring(K, "setNull") \ D
  OBVIOUS
<1> HIDE DEF K, nulled
<1>3. \A k \in Row : rows'[k] = IF k \in D THEN None
                               ELSE IF k \in nulled THEN Nulled(k, K) ELSE rows[k]
  BY <1>1
<1>4. RowsTyped'
  <2>1. rows' = [k \in Row |-> rows'[k]]
    BY <1>1
  <2>2. ASSUME NEW k \in Row PROVE rows'[k] \in Tuples(TableOf[k]) \cup {None}
    <3>1. CASE k \in nulled BY <1>2, <1>3, <3>1, NulledTuple
    <3>2. CASE k \notin nulled BY <1>3, <3>2 DEF RowsTyped
    <3>3. QED BY <3>1, <3>2
  <2>3. QED BY <2>1, <2>2 DEF RowsTyped
<1>5. Present' = Present \ D
  <2>1. ASSUME NEW k \in nulled PROVE Nulled(k, K) # None
    BY <1>2, <2>1, NulledTuple, KeysAssumption
  <2>2. QED BY <1>2, <1>3, <2>1 DEF Present
<1>6. ASSUME NEW k \in Present \ D
      PROVE  /\ rows'[k].org = rows[k].org
             /\ \A fk \in KeysOf(TableOf[k]) :
                  rows'[k].ref[fk.column] =
                    IF rows[k].ref[fk.column] \in K THEN None ELSE rows[k].ref[fk.column]
  <2> DEFINE p(fk) == rows[k].ref[fk.column]
  <2>1. ASSUME NEW fk \in KeysOf(TableOf[k]), p(fk) \in K PROVE fk.onDelete = "setNull" /\ k \in nulled
    <3>1. fk.onDelete \in {"cascade", "restrict", "setNull"}
      BY OnDeletes DEF KeysOf
    <3>2. k \in Referring(K, fk.onDelete)
      BY <2>1 DEF Referring
    <3>3. QED BY <1>0, <1>1, <3>1, <3>2
  <2>2. k \in Row
    BY DEF Present
  <2>3. CASE k \in nulled
    <3>1. rows'[k] = Nulled(k, K)
      BY <1>3, <2>2, <2>3
    <3>2. QED BY <2>1, <3>1, NulledTuple
  <2>4. CASE k \notin nulled
    BY <1>3, <2>1, <2>2, <2>4
  <2>5. QED BY <2>3, <2>4
<1>7. ASSUME NEW k \in Present', NEW fk \in KeysOf(TableOf[k]), rows'[k].ref[fk.column] # None
      PROVE  /\ rows'[k].ref[fk.column] = rows[k].ref[fk.column]
             /\ rows[k].ref[fk.column] \notin K /\ k \in Present \ D
  BY <1>5, <1>6, <1>7
<1>8. ASSUME NEW k \in Present', NEW fk \in KeysOf(TableOf[k]), rows'[k].ref[fk.column] # None
      PROVE  IF fk.parent = "users" THEN rows'[k].ref[fk.column] \in users'
             ELSE /\ rows'[k].ref[fk.column] \in In(fk.parent)'
                  /\ rows'[rows'[k].ref[fk.column]].org = rows'[k].org
  <2> DEFINE p == rows[k].ref[fk.column]
  <2>1. p = rows'[k].ref[fk.column] /\ p # None /\ p \notin K /\ k \in Present \ D
    BY <1>7, <1>8
  <2>2. IF fk.parent = "users" THEN p \in users ELSE p \in In(fk.parent) /\ rows[p].org = rows[k].org
    BY <2>1 DEF TenantsNeverMix
  <2>3. ASSUME fk.parent # "users" PROVE p \in In(fk.parent)' /\ rows'[p].org = rows'[k].org
    BY <1>0, <1>5, <1>6, <2>1, <2>2, <2>3 DEF In
  <2>4. QED BY <1>0, <2>1, <2>2, <2>3
<1>9. \A k \in Present' : rows'[k].org \in orgs'
  BY <1>5, <1>6 DEF TenantsNeverMix, Present
<1>10. TenantsNeverMix'
  BY <1>8, <1>9 DEF TenantsNeverMix
<1>11. QED BY <1>4, <1>10

LEMMA DeleteInv ==
  ASSUME Inv, NEW k \in Row, Delete(k)
  PROVE  Inv'
<1> DEFINE D == Doomed({k})
<1>1. Purge(D, D) /\ UNCHANGED <<orgs, users, tenant, bypass, owner>>
  BY DEF Delete
<1>2. D \in SUBSET Row /\ Referring(D, "cascade") \subseteq D
  BY DoomedClosed DEF Inv
<1> HIDE DEF D
<1>3. RowsTyped' /\ TenantsNeverMix'
  <2>1. users' = users \ {} /\ orgs' = orgs \ {} /\ {} \in SUBSET User /\ {} \in SUBSET Org
    BY <1>1
  <2>2. Purge(D, D \cup {}) /\ Referring(D \cup {}, "cascade") \subseteq D
    <3>1. D \cup {} = D
      OBVIOUS
    <3>2. QED BY <1>1, <1>2, <3>1
  <2>3. QED BY <1>2, <2>1, <2>2, PurgeInv DEF Inv
<1>4. QED BY <1>1, <1>3 DEF Inv, TypeOK, RowsTyped

LEMMA DeleteOrgInv ==
  ASSUME Inv, NEW o \in Org, DeleteOrg(o)
  PROVE  Inv'
<1> DEFINE K == {k \in Present : rows[k].org = o}
           D == Doomed(K)
<1>1. Purge(D, D) /\ UNCHANGED <<users, tenant, bypass, owner>> /\ orgs' = orgs \ {o}
  BY DEF DeleteOrg
<1>2. K \in SUBSET Row
  BY DEF Present
<1>3. D \in SUBSET Row /\ Referring(D, "cascade") \subseteq D /\ K \subseteq D
  BY <1>2, DoomedClosed DEF Inv
<1>4. \A j \in Present : rows[j].org \in {o} => j \in D
  BY <1>3
<1> HIDE DEF D, K
<1>5. RowsTyped' /\ TenantsNeverMix'
  <2>1. users' = users \ {} /\ D \cup {} = D /\ {} \in SUBSET User /\ {o} \in SUBSET Org
    BY <1>1
  <2>2. QED BY <1>1, <1>3, <1>4, <2>1, PurgeInv DEF Inv
<1>6. QED BY <1>1, <1>5 DEF Inv, TypeOK, RowsTyped

LEMMA DeleteUserInv ==
  ASSUME Inv, NEW u \in User, DeleteUser(u)
  PROVE  Inv'
<1> DEFINE K == Referring({u}, "cascade")
           D == Doomed(K)
<1>1. Purge(D, D \cup {u}) /\ UNCHANGED <<orgs, tenant, bypass, owner>> /\ users' = users \ {u}
  BY DEF DeleteUser
<1>2. K \in SUBSET Row
  BY DEF Referring, Present
<1>3. D \in SUBSET Row /\ Referring(D, "cascade") \subseteq D /\ K \subseteq D
  BY <1>2, DoomedClosed DEF Inv
<1>0. K = Referring({u}, "cascade")
  OBVIOUS
<1> HIDE DEF D, K
<1>4. Referring(D \cup {u}, "cascade") \subseteq D
  BY <1>0, <1>3, ReferringSplits
<1>5. RowsTyped' /\ TenantsNeverMix'
  <2>1. orgs' = orgs \ {} /\ {u} \in SUBSET User /\ {} \in SUBSET Org
    BY <1>1
  <2>2. QED BY <1>1, <1>3, <1>4, <2>1, PurgeInv DEF Inv
<1>6. QED BY <1>1, <1>5 DEF Inv, TypeOK, RowsTyped

-----------------------------------------------------------------------------
(* Insertions and updates. A row never refers to itself.                   *)

LEMMA WriteInv ==
  ASSUME Inv, NEW k \in Row, NEW t \in Tuples(TableOf[k]),
         ReferencesHold(TableOf[k], t),
         rows' = [rows EXCEPT ![k] = t], UNCHANGED <<orgs, users, tenant, bypass, owner>>,
         \A c \in Present \ {k} : \A fk \in KeysOf(TableOf[c]) :
           fk.parent # "users" /\ rows[c].ref[fk.column] = k =>
             k \in Present /\ t.org = rows[k].org
  PROVE  Inv'
<1>1. /\ RowsTyped' /\ rows'[k] = t /\ t # None
      /\ \A j \in Row \ {k} : rows'[j] = rows[j]
  BY KeysAssumption DEF Inv, RowsTyped
<1>2. Present' = Present \cup {k}
  BY <1>1 DEF Present
<1>3. TypeOK'
  BY <1>1 DEF Inv, TypeOK, RowsTyped
<1>4. ASSUME NEW fk \in KeysOf(TableOf[k]), t.ref[fk.column] # None
      PROVE  IF fk.parent = "users" THEN t.ref[fk.column] \in users'
             ELSE t.ref[fk.column] \in In(fk.parent)' /\ rows'[t.ref[fk.column]].org = t.org
  <2> DEFINE p == t.ref[fk.column]
  <2>1. Exists(fk, p) /\ SameOrg(TableOf[k], fk.column, t.org, p)
    BY DEF ReferencesHold
  <2>2. CASE fk.parent = "users"
    BY <1>4, <2>1, <2>2 DEF Exists
  <2>3. CASE fk.parent # "users"
    <3>1. fk \in ForeignKey /\ fk.child = TableOf[k]
      BY DEF KeysOf
    <3>2. p \in In(fk.parent)
      BY <1>4, <2>1, <2>3 DEF Exists
    <3>3. p \in Present /\ TableOf[p] = fk.parent /\ p # k /\ p \in Row
      BY <3>1, <3>2, NotSelfReferring DEF In, Present
    <3>4. rows[p].org = t.org
      BY <1>4, <2>1, <2>3, <3>1, TenantKeysAreComposite DEF SameOrg
    <3>5. QED BY <1>1, <1>2, <2>3, <3>3, <3>4 DEF In
  <2>4. QED BY <2>2, <2>3
<1>5. ASSUME NEW c \in Present \ {k}, NEW fk \in KeysOf(TableOf[c]),
             rows[c].ref[fk.column] # None
      PROVE  IF fk.parent = "users" THEN rows[c].ref[fk.column] \in users'
             ELSE /\ rows[c].ref[fk.column] \in In(fk.parent)'
                  /\ rows'[rows[c].ref[fk.column]].org = rows[c].org
  <2> DEFINE p == rows[c].ref[fk.column]
  <2>1. IF fk.parent = "users" THEN p \in users ELSE p \in In(fk.parent) /\ rows[p].org = rows[c].org
    BY <1>5 DEF Inv, TenantsNeverMix
  <2>2. ASSUME fk.parent # "users"
        PROVE  p \in In(fk.parent)' /\ rows'[p].org = rows[c].org
    <3>1. p \in Present /\ p \in Row /\ TableOf[p] = fk.parent /\ rows[p].org = rows[c].org
      BY <2>1, <2>2 DEF In, Present
    <3>2. CASE p = k BY <1>1, <1>2, <2>2, <3>1, <3>2 DEF In
    <3>3. CASE p # k BY <1>1, <1>2, <3>1, <3>3 DEF In
    <3>4. QED BY <3>2, <3>3
  <2>3. QED BY <2>1, <2>2
<1>6. \A j \in Present' : rows'[j].org \in orgs'
  BY <1>1, <1>2 DEF Inv, TenantsNeverMix, ReferencesHold, Present
<1>7. ASSUME NEW j \in Present', NEW fk \in KeysOf(TableOf[j]), rows'[j].ref[fk.column] # None
      PROVE  IF fk.parent = "users" THEN rows'[j].ref[fk.column] \in users'
             ELSE /\ rows'[j].ref[fk.column] \in In(fk.parent)'
                  /\ rows'[rows'[j].ref[fk.column]].org = rows'[j].org
  <2>1. CASE j = k BY <1>1, <1>4, <1>7, <2>1
  <2>2. CASE j # k
    <3>1. j \in Present \ {k} /\ rows'[j] = rows[j]
      BY <1>1, <1>2, <2>2 DEF Present
    <3>2. QED BY <1>5, <1>7, <3>1
  <2>3. QED BY <2>1, <2>2
<1>8. TenantsNeverMix'
  BY <1>6, <1>7 DEF TenantsNeverMix
<1>9. QED BY <1>1, <1>3, <1>8 DEF Inv

LEMMA InsertInv ==
  ASSUME Inv, NEW k \in Row, NEW t \in Tuples(TableOf[k]), Insert(k, t)
  PROVE  Inv'
<1>1. ASSUME NEW c \in Present \ {k}, NEW fk \in KeysOf(TableOf[c]),
             fk.parent # "users", rows[c].ref[fk.column] = k
      PROVE  k \in Present
  BY <1>1, KeysAssumption DEF Inv, TenantsNeverMix, In
<1>2. QED BY <1>1, WriteInv DEF Insert

LEMMA UpdateInv ==
  ASSUME Inv, NEW k \in Row, NEW t \in Tuples(TableOf[k]), Update(k, t)
  PROVE  Inv'
<1>1. ASSUME NEW c \in Present \ {k}, NEW fk \in KeysOf(TableOf[c]),
             fk.parent # "users", rows[c].ref[fk.column] = k
      PROVE  k \in Present /\ t.org = rows[k].org
  <2>1. fk \in ForeignKey /\ fk.child = TableOf[c] /\ <<fk.child, fk.column>> \in Composite
    BY <1>1, TenantKeysAreComposite DEF KeysOf
  <2>2. QED BY <1>1, <2>1 DEF Update
<1>2. QED BY <1>1, WriteInv DEF Update

-----------------------------------------------------------------------------
(* TRUNCATE. What it takes along is closed under references.               *)

LEMMA ChildrenAreTables ==
  TenantTables \subseteq Tables /\ \A f \in ForeignKey : f.child \in Tables
BY Fields DEF ForeignKey, Tables, TenantTables

LEMMA CascadeCloses ==
  ASSUME NEW table \in Tables
  PROVE  CascadeTo[table] \in Truncatable
<1>1. CascadeTo[table] = {t \in Tables : \A T \in Truncatable : table \in T => t \in T}
  BY DEF CascadeTo
<1>2. CascadeTo[table] \in SUBSET Tables
  BY <1>1
<1>3. ASSUME NEW fk \in ForeignKey, fk.parent \in CascadeTo[table]
      PROVE  fk.child \in CascadeTo[table]
  BY <1>1, <1>3, ChildrenAreTables DEF Truncatable
<1>4. ASSUME "organizations" \in CascadeTo[table]
      PROVE  TenantTables \subseteq CascadeTo[table]
  BY <1>1, <1>4, ChildrenAreTables DEF Truncatable
<1>5. QED BY <1>2, <1>3, <1>4 DEF Truncatable

LEMMA TruncateInv ==
  ASSUME Inv, NEW table \in Tables, Truncate(table)
  PROVE  Inv'
<1> DEFINE T == CascadeTo[table]
<1>1. /\ rows' = [k \in Row |-> IF TableOf[k] \in T THEN None ELSE rows[k]]
      /\ users' = IF "users" \in T THEN {} ELSE users
      /\ orgs' = IF "organizations" \in T THEN {} ELSE orgs
      /\ UNCHANGED <<tenant, bypass, owner>>
  BY DEF Truncate
<1>2. /\ \A fk \in ForeignKey : fk.parent \in T => fk.child \in T
      /\ "organizations" \in T => TenantTables \subseteq T
  BY CascadeCloses DEF Truncatable
<1> HIDE DEF T
<1>3. \A k \in Row : rows'[k] = IF TableOf[k] \in T THEN None ELSE rows[k]
  BY <1>1
<1>4. Present' = {k \in Present : TableOf[k] \notin T}
  BY <1>3 DEF Present
<1>5. TypeOK' /\ RowsTyped'
  <2>1. orgs' \subseteq Org /\ users' \subseteq User
    BY <1>1 DEF Inv, TypeOK
  <2>2. rows' = [k \in Row |-> rows'[k]]
    BY <1>1
  <2>3. \A k \in Row : rows'[k] \in Tuples(TableOf[k]) \cup {None}
    BY <1>3 DEF Inv, RowsTyped
  <2>4. QED BY <1>1, <2>1, <2>2, <2>3 DEF Inv, TypeOK, RowsTyped
<1>6. ASSUME NEW k \in Present' PROVE k \in Present /\ rows'[k] = rows[k] /\ TableOf[k] \notin T
  BY <1>3, <1>4 DEF Present
<1>7. \A k \in Present' : rows'[k].org \in orgs'
  <2>1. ASSUME NEW k \in Present' PROVE rows'[k].org \in orgs'
    <3>1. TableOf[k] \in TenantTables /\ "organizations" \notin T
      BY <1>2, <1>6, KeysAssumption DEF Present
    <3>2. QED BY <1>1, <1>6, <3>1 DEF Inv, TenantsNeverMix
  <2>2. QED BY <2>1
<1>8. ASSUME NEW k \in Present', NEW fk \in KeysOf(TableOf[k]), rows'[k].ref[fk.column] # None
      PROVE  IF fk.parent = "users" THEN rows'[k].ref[fk.column] \in users'
             ELSE /\ rows'[k].ref[fk.column] \in In(fk.parent)'
                  /\ rows'[rows'[k].ref[fk.column]].org = rows'[k].org
  <2> DEFINE p == rows[k].ref[fk.column]
  <2>1. p = rows'[k].ref[fk.column] /\ p # None /\ k \in Present /\ fk.parent \notin T
    BY <1>2, <1>6, <1>8 DEF KeysOf
  <2>2. IF fk.parent = "users" THEN p \in users ELSE p \in In(fk.parent) /\ rows[p].org = rows[k].org
    BY <2>1 DEF Inv, TenantsNeverMix
  <2>3. ASSUME fk.parent # "users" PROVE p \in In(fk.parent)' /\ rows'[p].org = rows'[k].org
    <3>1. p \in Present /\ TableOf[p] = fk.parent /\ rows[p].org = rows[k].org
      BY <2>2, <2>3 DEF In
    <3>2. p \in Present'
      BY <1>4, <2>1, <3>1
    <3>3. rows'[p] = rows[p] /\ rows'[k] = rows[k]
      BY <1>6, <3>2
    <3>4. QED BY <3>1, <3>2, <3>3 DEF In
  <2>4. QED BY <1>1, <2>1, <2>2, <2>3
<1>9. TenantsNeverMix'
  BY <1>7, <1>8 DEF TenantsNeverMix
<1>10. QED BY <1>5, <1>9 DEF Inv

(* What TRUNCATE removes is gone with all rows of its table; a revision,   *)
(* with all builds, targets and artifacts.                                 *)
LEMMA TruncateEmpties ==
  ASSUME NEW table \in Tables, Truncate(table), NEW k \in Row, rows'[k] # rows[k]
  PROVE  /\ owner /\ rows[k] # None /\ rows'[k] = None
         /\ Emptied({TableOf[k]})'
         /\ TableOf[k] = "app_spec_revisions" =>
              Emptied({"app_spec_revisions", "builds", "build_targets", "artifacts"})'
<1> DEFINE T == CascadeTo[table]
<1>1. /\ owner /\ TableOf[k] \in T /\ rows[k] # None /\ rows'[k] = None
      /\ \A j \in Row : TableOf[j] \in T => rows'[j] = None
  BY DEF Truncate
<1>2. \A fk \in ForeignKey : fk.parent \in T => fk.child \in T
  BY CascadeCloses DEF Truncatable
<1> HIDE DEF T
<1>3. \A X : X \subseteq T => Emptied(X)'
  BY <1>1 DEF Emptied
<1>4. Emptied({TableOf[k]})'
  BY <1>1, <1>3
<1>5. ASSUME TableOf[k] = "app_spec_revisions"
      PROVE  Emptied({"app_spec_revisions", "builds", "build_targets", "artifacts"})'
  <2>1. "builds" \in T
    BY <1>1, <1>2, <1>5, Fields DEF ForeignKey
  <2>2. "build_targets" \in T
    BY <1>2, <2>1, Fields DEF ForeignKey
  <2>3. "artifacts" \in T
    BY <1>2, <2>2, Fields DEF ForeignKey
  <2>4. QED BY <1>1, <1>3, <1>5, <2>1, <2>2, <2>3
<1>6. QED BY <1>1, <1>4, <1>5

-----------------------------------------------------------------------------
LEMMA InitInv == Init => Inv
<1> SUFFICES ASSUME Init PROVE Inv
  OBVIOUS
<1>1. \A k \in Row : rows[k] = None
  BY DEF Init
<1>2. RowsTyped /\ Present = {}
  BY <1>1 DEF Init, RowsTyped, Present
<1>3. TenantsNeverMix
  BY <1>2 DEF TenantsNeverMix
<1>4. QED BY <1>1, <1>2, <1>3 DEF Init, Inv, TypeOK

LEMMA NextInv ==
  ASSUME Inv, [Next]_vars
  PROVE  Inv'
<1>1. ASSUME NEW o \in Org \cup {None}, SetTenant(o) PROVE Inv'
  BY <1>1 DEF SetTenant, Inv, TypeOK, RowsTyped, TenantsNeverMix, Present, In
<1>2. ASSUME NEW o \in Org, InsertOrg(o) PROVE Inv'
  BY <1>2 DEF InsertOrg, Inv, TypeOK, RowsTyped, TenantsNeverMix, Present, In
<1>3. ASSUME NEW u \in User, InsertUser(u) PROVE Inv'
  BY <1>3 DEF InsertUser, Inv, TypeOK, RowsTyped, TenantsNeverMix, Present, In
<1>4. CASE UNCHANGED vars
  BY <1>4 DEF vars, Inv, TypeOK, RowsTyped, TenantsNeverMix, Present, In
<1>5. QED
  BY <1>1, <1>2, <1>3, <1>4, DeleteInv, DeleteOrgInv, DeleteUserInv, InsertInv, UpdateInv, TruncateInv
     DEF Next

(* Every reference leads to a row of the same tenant that is there, after  *)
(* any sequence of statements.                                             *)
THEOREM Tenants == Spec => []TenantsNeverMix
<1>1. Inv => TenantsNeverMix
  BY DEF Inv
<1>2. QED BY <1>1, InitInv, NextInv, PTL DEF Spec

(* The variables have their types.                                         *)
THEOREM Types == Spec => []TypeOK
<1>1. Inv => TypeOK
  BY DEF Inv
<1>2. QED BY <1>1, InitInv, NextInv, PTL DEF Spec

-----------------------------------------------------------------------------
(* What a statement may touch.                                             *)

LEMMA PurgeTouches ==
  ASSUME NEW D \in SUBSET Row, NEW K, Purge(D, K), NEW k \in Row, rows'[k] # rows[k]
  PROVE  k \in Present /\ (k \in D \/ k \in Referring(K, "setNull"))
                       /\ TableOf[k] # "app_spec_revisions"
<1> DEFINE nulled == Referring(K, "setNull") \ D
<1>1. /\ ~Raises(D, nulled)
      /\ rows'[k] = IF k \in D THEN None ELSE IF k \in nulled THEN Nulled(k, K) ELSE rows[k]
  BY DEF Purge
<1>2. k \in Present /\ k \in D \cup nulled
  BY <1>1 DEF Present, Referring
<1>3. QED BY <1>1, <1>2 DEF Raises, In

LEMMA CascadesFromUsers ==
  \A f \in ForeignKey : f.onDelete = "cascade" /\ f.parent = "users" => f.child = "memberships"
BY Fields DEF ForeignKey

(* Rows that refer to rows of one tenant are of that tenant.               *)
LEMMA ReferringIsOwn ==
  ASSUME Inv, NEW o, NEW K \in SUBSET Row, \A k \in K \cap Present : rows[k].org = o,
         NEW d, NEW c \in Referring(K, d)
  PROVE  c \in Present /\ rows[c].org = o
<1>1. PICK fk \in KeysOf(TableOf[c]) : rows[c].ref[fk.column] \in K
  BY DEF Referring
<1>2. c \in Present
  BY DEF Referring
<1>3. rows[c].ref[fk.column] \in Row /\ rows[c].ref[fk.column] # None
  BY <1>1, KeysAssumption
<1>4. fk.parent # "users"
  BY <1>2, <1>3, KeysAssumption DEF Inv, TypeOK, TenantsNeverMix
<1>5. QED BY <1>1, <1>2, <1>3, <1>4 DEF Inv, TenantsNeverMix, In

LEMMA DoomedIsOwn ==
  ASSUME Inv, NEW o, NEW K \in SUBSET Row, \A k \in K \cap Present : rows[k].org = o
  PROVE  \A k \in Doomed(K) \cap Present : rows[k].org = o
<1>1. ASSUME NEW A \in SUBSET Row, \A k \in A \cap Present : rows[k].org = o
      PROVE  /\ WithChildren(A) \in SUBSET Row
             /\ \A k \in WithChildren(A) \cap Present : rows[k].org = o
  <2>1. Referring(A, "cascade") \subseteq Row
    BY DEF Referring, Present
  <2>2. QED BY <1>1, <2>1, ReferringIsOwn DEF WithChildren
<1>2. QED BY <1>1 DEF Doomed

(* Nothing refers to a membership: a user takes only these along.          *)
LEMMA UserTakes ==
  ASSUME Inv, NEW u \in User, NEW D, D = Doomed(Referring({u}, "cascade")),
         NEW k \in Present, k \in D \/ k \in Referring(D \cup {u}, "setNull")
  PROVE  \E c \in DOMAIN rows[k].ref : rows[k].ref[c] = u
<1> DEFINE M == Referring({u}, "cascade")
<1>1. ASSUME NEW d, NEW c \in Referring({u}, d)
      PROVE  /\ c \in Present /\ c \in Row
             /\ \E fk \in KeysOf(TableOf[c]) :
                  /\ fk.onDelete = d /\ fk.parent = "users"
                  /\ fk.column \in DOMAIN rows[c].ref /\ rows[c].ref[fk.column] = u
  <2>1. PICK fk \in KeysOf(TableOf[c]) : fk.onDelete = d /\ rows[c].ref[fk.column] = u
    BY DEF Referring
  <2>2. c \in Present /\ c \in Row
    BY DEF Referring, Present
  <2>3. fk.column \in DOMAIN rows[c].ref /\ rows[c].ref[fk.column] \in Domain(fk)
    BY <2>2, TupleShape DEF Inv, RowsTyped, Present
  <2>4. fk.parent = "users"
    BY <2>1, <2>2, Leads, KeysAssumption DEF Inv
  <2>5. QED BY <2>1, <2>2, <2>3, <2>4
<1>2. \A m \in M : TableOf[m] = "memberships" /\ m \in Row
  BY <1>1, CascadesFromUsers DEF KeysOf
<1>3. ASSUME NEW d PROVE Referring(M, d) = {}
  <2>1. ASSUME NEW c \in Referring(M, d) PROVE FALSE
    <3>1. PICK fk \in KeysOf(TableOf[c]) : rows[c].ref[fk.column] \in M
      BY <2>1 DEF Referring
    <3>2. c \in Present /\ rows[c].ref[fk.column] \in Row
      BY <1>2, <2>1, <3>1 DEF Referring
    <3>3. TableOf[rows[c].ref[fk.column]] = fk.parent /\ fk \in ForeignKey
      BY <3>2, Leads, KeysAssumption DEF Inv
    <3>4. QED BY <1>2, <3>1, <3>3, NotSelfReferring
  <2>2. QED BY <2>1
<1>4. D = M
  BY <1>3 DEF Doomed, WithChildren
<1>5. k \in M \/ k \in Referring({u}, "setNull")
  <2>1. Referring(D \cup {u}, "setNull") = Referring(D, "setNull") \cup Referring({u}, "setNull")
    BY ReferringSplits
  <2>2. Referring(D, "setNull") = {}
    BY <1>3, <1>4
  <2> HIDE DEF M
  <2>3. QED BY <1>4, <2>1, <2>2
<1>6. QED BY <1>1, <1>5

(* A revision stays, by whichever statement on rows it is reached; only    *)
(* TRUNCATE takes it, with the whole table and all builds.                 *)
THEOREM Frozen == Spec => RevisionsFrozen
<1>1. ASSUME Inv, [Next]_vars, NEW k \in Row,
             TableOf[k] = "app_spec_revisions", rows[k] # None, rows'[k] # rows[k]
      PROVE  owner /\ Emptied({"app_spec_revisions", "builds", "build_targets", "artifacts"})'
  <2> DEFINE Same == rows'[k] = rows[k]
  <2>1. ASSUME NEW j \in Row, NEW t \in Tuples(TableOf[j]), Insert(j, t) \/ Update(j, t)
        PROVE  Same
    BY <1>1, <2>1 DEF Insert, Update, Raises, In, Present, Inv, RowsTyped
  <2>2. ASSUME NEW j \in Row, Delete(j) PROVE Same
    BY <1>1, <2>2, PurgeTouches, DoomedClosed DEF Delete, Inv
  <2>3. ASSUME NEW o \in Org, DeleteOrg(o) PROVE Same
    <3>1. {j \in Present : rows[j].org = o} \in SUBSET Row
      BY DEF Present
    <3>2. QED BY <1>1, <2>3, <3>1, PurgeTouches, DoomedClosed DEF DeleteOrg, Inv
  <2>4. ASSUME NEW u \in User, DeleteUser(u) PROVE Same
    <3>1. Referring({u}, "cascade") \in SUBSET Row
      BY DEF Referring, Present
    <3>2. QED BY <1>1, <2>4, <3>1, PurgeTouches, DoomedClosed DEF DeleteUser, Inv
  <2>5. PICK table \in Tables : Truncate(table)
    BY <1>1, <2>1, <2>2, <2>3, <2>4 DEF Next, vars, SetTenant, InsertOrg, InsertUser
  <2>6. QED BY <1>1, <2>5, TruncateEmpties
<1>2. ASSUME Inv, [Next]_vars
      PROVE  [\A k \in Row :
                TableOf[k] = "app_spec_revisions" /\ rows[k] # None /\ rows'[k] # rows[k] =>
                  owner /\ Emptied({"app_spec_revisions", "builds", "build_targets", "artifacts"})']_vars
  BY <1>1, <1>2
<1>3. QED BY <1>2, InitInv, NextInv, PTL DEF Spec, RevisionsFrozen

(* A session under the policies touches rows of its tenant only.           *)
LEMMA StaysInTenant ==
  ASSUME Inv, [Next]_vars, ~bypass, NEW k \in Row
  PROVE  /\ rows[k] = None /\ rows'[k] # None => rows'[k].org = tenant
         /\ rows[k] # None /\ rows'[k] # rows[k] /\ rows[k].org # tenant =>
              \/ \E c \in DOMAIN rows[k].ref : rows[k].ref[c] \in users \ users'
              \/ owner /\ Emptied({TableOf[k]})'
<1> DEFINE Goal ==
      /\ rows[k] = None /\ rows'[k] # None => rows'[k].org = tenant
      /\ rows[k] # None /\ rows'[k] # rows[k] /\ rows[k].org # tenant =>
           \/ \E c \in DOMAIN rows[k].ref : rows[k].ref[c] \in users \ users'
           \/ owner /\ Emptied({TableOf[k]})'
<1>1. ASSUME NEW j \in Row, NEW t \in Tuples(TableOf[j]), Insert(j, t) \/ Update(j, t)
      PROVE  Goal
  BY <1>1 DEF Insert, Update, Sees, Present, Inv, RowsTyped
<1>2. ASSUME NEW K \in SUBSET Row, \A j \in K \cap Present : rows[j].org = tenant,
             Purge(Doomed(K), Doomed(K)), rows'[k] # rows[k]
      PROVE  rows[k] # None /\ rows[k].org = tenant
  <2>1. Doomed(K) \in SUBSET Row
    BY DoomedClosed DEF Inv
  <2>2. k \in Present /\ (k \in Doomed(K) \/ k \in Referring(Doomed(K), "setNull"))
    BY <1>2, <2>1, PurgeTouches
  <2>3. \A j \in Doomed(K) \cap Present : rows[j].org = tenant
    BY <1>2, DoomedIsOwn
  <2>4. QED BY <2>1, <2>2, <2>3, ReferringIsOwn DEF Present
<1>3. ASSUME NEW j \in Row, Delete(j) PROVE Goal
  <2>1. {j} \in SUBSET Row /\ rows[j].org = tenant /\ Purge(Doomed({j}), Doomed({j}))
    BY <1>3 DEF Delete, Sees
  <2>2. \A i \in {j} \cap Present : rows[i].org = tenant
    BY <2>1
  <2>3. QED BY <1>2, <2>1, <2>2
<1>4. ASSUME NEW o \in Org, DeleteOrg(o) PROVE Goal
  <2> DEFINE K == {j \in Present : rows[j].org = o}
  <2>1. K \in SUBSET Row /\ o = tenant /\ Purge(Doomed(K), Doomed(K))
    BY <1>4 DEF DeleteOrg, Sees, Present
  <2>2. \A i \in K \cap Present : rows[i].org = tenant
    BY <2>1
  <2> HIDE DEF K
  <2>3. QED BY <1>2, <2>1, <2>2
<1>5. ASSUME NEW u \in User, DeleteUser(u), rows'[k] # rows[k]
      PROVE  rows[k] # None /\ \E c \in DOMAIN rows[k].ref : rows[k].ref[c] \in users \ users'
  <2> DEFINE M == Referring({u}, "cascade")
             D == Doomed(M)
  <2>1. M \in SUBSET Row
    BY DEF Referring, Present
  <2>2. D \in SUBSET Row /\ Purge(D, D \cup {u}) /\ u \in users \ users'
    BY <1>5, <2>1, DoomedClosed DEF DeleteUser, Inv
  <2>3. k \in Present /\ (k \in D \/ k \in Referring(D \cup {u}, "setNull"))
    BY <1>5, <2>2, PurgeTouches
  <2>4. \E c \in DOMAIN rows[k].ref : rows[k].ref[c] = u
    BY <2>3, UserTakes
  <2>5. QED BY <2>2, <2>3, <2>4 DEF Present
<1>6. ASSUME NEW u \in User, DeleteUser(u) PROVE Goal
  BY <1>5, <1>6
<1>7. ASSUME NEW table \in Tables, Truncate(table) PROVE Goal
  <2>1. CASE rows'[k] = rows[k]
    BY <2>1
  <2>2. CASE rows'[k] # rows[k]
    BY <1>7, <2>2, TruncateEmpties
  <2>3. QED BY <2>1, <2>2
<1>8. QED
  BY <1>1, <1>3, <1>4, <1>6, <1>7 DEF Next, vars, SetTenant, InsertOrg, InsertUser

(* A session under row security changes no row of another tenant, but for  *)
(* what the deletion of a user clears and what an owner truncates.         *)
THEOREM Isolated == Spec => OthersUntouched
<1>1. ASSUME Inv, [Next]_vars
      PROVE  [~bypass =>
               \A k \in Row :
                 /\ rows[k] = None /\ rows'[k] # None => rows'[k].org = tenant
                 /\ rows[k] # None /\ rows'[k] # rows[k] /\ rows[k].org # tenant =>
                      \/ \E c \in DOMAIN rows[k].ref : rows[k].ref[c] \in users \ users'
                      \/ owner /\ Emptied({TableOf[k]})']_vars
  BY <1>1, StaysInTenant
<1>2. QED BY <1>1, InitInv, NextInv, PTL DEF Spec, OthersUntouched
=============================================================================
