\* A writer of three blocks and a forced one of two, both of which hash what they
\* wrote as a verifier would, and a loader with a limit of one block; one
\* interference.
\* Every process ends, so the system stops.
SPECIFICATION Spec
CONSTANTS
  w1 = w1
  w2 = w2
  l1 = l1
  Writer = {w1, w2}
  Forced = {w2}
  Builder = {w1, w2}
  Verifier = {}
  Loader = {l1}
  Length <- MCLength
  Limit = 1
  MaxSwaps = 1
  Old = Old
  Target = Target
  Absent = Absent
  Link = Link
  None = None
INVARIANTS
  OnlyForceReplaces
  LinkFollowedOnlyInRace
  DigestIsOwn
  ReadsPrefix
PROPERTIES
  LoadIsWhole
CHECK_DEADLOCK FALSE
