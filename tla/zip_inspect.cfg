\* At most three entries, of two chunks each, and four chunks in all.
SPECIFICATION Spec
CONSTANTS
  Archive <- MCArchive
  Index <- MCIndex
  MaxFiles = 3
  MaxEntry = 2
  MaxTotal = 4
INVARIANTS
  AcceptedIsTree
  AcceptedIsComplete
  ExpansionBounded
PROPERTIES
  NoEntryAfterSettling
  Settles
