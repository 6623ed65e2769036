\* Two requests with ids that never repeat; one AbortSignal they may share.
\* No symmetry: KeepsPromise has a liveness part.
SPECIFICATION Spec
CONSTANTS
  Call = {c1, c2}
  Id = {i1, i2}
  Method = {share, badge}
  Signal = {s1}
  None = None
  FreshIds = TRUE
  UnsubscribeThrows = FALSE
INVARIANTS
  AbortReachesAll
  DisposedIsEmpty
  RepliesReachTheirCall
  SendFailsItsOwnCall
PROPERTIES
  QuietOnceDisposed
  KeepsPromise
