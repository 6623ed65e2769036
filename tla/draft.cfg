\* Drafts only: what init accepts, supplied with ownership records.
SPECIFICATION Spec
CONSTANTS
  None = None
  Blank = Blank
  Pages <- MCPages
  Drafts <- MCDrafts
  Documents = {}
  Rewritten = {}
INVARIANTS
  DraftNeedsOnlyOwnership
CHECK_DEADLOCK FALSE
