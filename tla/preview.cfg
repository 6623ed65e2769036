\* Everything from a draft to a window. A process ends, and nobody need start
\* another one.
SPECIFICATION Spec
CONSTANTS
  None = None
  Blank = Blank
  Pages <- MCPages
  Drafts <- MCDrafts
  Documents <- MCDocuments
  Rewritten <- MCRewritten
INVARIANTS
  RemoteOnlyGuarded
  ShowsListedPublic
  ShellsAgree
  ValidatorsAgree
  ClaimsAreNotEvidence
  
PROPERTIES
  LaunchSettles
CHECK_DEADLOCK FALSE
