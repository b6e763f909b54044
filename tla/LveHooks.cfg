SPECIFICATION FairSpec
CONSTANTS
  Threads <- MCThreads
  Users <- MCUsers
  Mutexes <- MCMutexes
  Order <- MCOrder
INVARIANTS Counted NoMutexInLve StaysThrottled RightContainer
PROPERTIES MutexReleased
