\* Two eligible exports and a refused one, three files and the manifest, one
\* removal. Everything may stop: every process ends.
SPECIFICATION Spec
CONSTANTS
  e1 = e1
  e2 = e2
  e3 = e3
  Exporter = {e1, e2, e3}
  Eligible <- MCEligible
  N = 3
  None = None
  MaxRemovals = 1
INVARIANTS
  ManifestSealsProject
  SuccessIsWhole
PROPERTIES
  NothingReplaced
  KeepsSeal
CHECK_DEADLOCK FALSE
