\* An id that comes back while a reply to its first user is on the way.
SPECIFICATION Spec
CONSTANTS
  Call = {c1, c2}
  Id = {i1}
  Method = {share, badge}
  Signal = {s1}
  None = None
  FreshIds = FALSE
  UnsubscribeThrows = FALSE
INVARIANTS
  RepliesReachTheirCall
