\* Three requests over two ids that may come back; unsubscribe may throw.
SPECIFICATION Spec
CONSTANTS
  Call = {c1, c2, c3}
  Id = {i1, i2}
  Method = {share}
  Signal = {s1}
  None = None
  FreshIds = FALSE
  UnsubscribeThrows = TRUE
SYMMETRY Symmetry
INVARIANTS
  NoStrandedCall
  ClosuresDieWithCall
PROPERTIES
  SettledOnce
