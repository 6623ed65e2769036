\* Every chain of redirects, DNS answers of up to two addresses, a two-chunk limit.
SPECIFICATION Spec
CONSTANTS
  Url <- MCUrl
  CleanUrl <- MCCleanUrl
  OriginOf <- MCOriginOf
  AllowedOrigin = {"site", "other"}
  Address = {"public1", "public2", "private"}
  PublicAddress = {"public1", "public2"}
  BodyLimit = 2
  MaxAnswer = 2
  None = None
INVARIANTS
  ConnectsOnlyWhereAllowed
  PinnedWasChecked
  AcceptedWithinLimit
PROPERTIES
  NoConnectionAfterDeadline
  Settles
