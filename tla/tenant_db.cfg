\* Two organizations and a user; two projects, a revision, a runner, a build, its
\* target and artifact, a membership and an audit event. Statements never end.
SPECIFICATION Spec
CONSTANTS
  o1 = o1
  o2 = o2
  u1 = u1
  p1 = p1
  p2 = p2
  r1 = r1
  n1 = n1
  b1 = b1
  t1 = t1
  a1 = a1
  m1 = m1
  e1 = e1
  Org = {o1, o2}
  User = {u1}
  Row = {p1, p2, r1, n1, b1, t1, a1, m1, e1}
  TableOf <- MCTableOf
  None = None
SYMMETRY MCSymmetry
INVARIANTS
  TenantsNeverMix
PROPERTIES
  RevisionsFrozen
  OthersUntouched
