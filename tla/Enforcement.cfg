SPECIFICATION Spec
CONSTANTS
  Users = {u1}
  Modes = {"off", "single", "abusers", "all"}
  Conns = {TRUE}
  MapFiles <- MCMapFiles
  MaxCommands = 2
  MaxEvents = 2
INVARIANTS ListAgrees LimitsAgree MapFollows
CHECK_DEADLOCK FALSE
