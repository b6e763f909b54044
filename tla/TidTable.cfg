CONSTANTS
  Tids <- OneTid
  Users <- TwoUsers
  Fds = {1, 2}
  MaxUse = 3
  MaxSends = 2
SPECIFICATION FairSpec
INVARIANTS TableAgrees NoOvercharge
PROPERTIES Forgotten
