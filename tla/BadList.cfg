CONSTANTS
  Users <- MCUsers
  Writers <- MCWriters
  Ops <- MCOps
  Readers <- MCReaders
  MAX_ITEMS_IN_TABLE = 3
  Trys = 3
  Reopens = 2
  MaxWrites = 4
  MaxReads = 2
  MaxRestarts = 1
SPECIFICATION FairSpec
INVARIANTS InBounds Exclusive ReaderIsRight
PROPERTIES ListIsSet ReaderReturns ComesUp
CHECK_DEADLOCK FALSE
