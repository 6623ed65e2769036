\* The transport's unsubscribe function throws.
SPECIFICATION Spec
CONSTANTS
  Call = {c1, c2}
  Id = {i1, i2}
  Method = {share, badge}
  Signal = {s1}
  None = None
  FreshIds = TRUE
  UnsubscribeThrows = TRUE
INVARIANTS
  DisposedIsEmpty
