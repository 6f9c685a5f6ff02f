SPECIFICATION FairSpec
CONSTANTS
  Movies <- MCMovies
  File <- MCFile
  ReadSize = 3
  WorkLimit = 2
INVARIANTS OfferedIsNext LockCoversPages VerdictIsRight
PROPERTIES ActiveKept SessionsEnd
