SPECIFICATION Spec
CONSTANTS
  Names = {"u1", "gov"}
  WorkUser = "gov"
  Limits = {"cpu"}
  Attrs = {"current", "short"}
  Options <- SomeOptions
  LveModes = {"single", "off"}
  FirstFile <- DefaultOnly
  Clients = {"c1", "c2"}
  Tracked = TRUE
  MaxEdits = 2
INVARIANT Applied
INVARIANT FileLoads
INVARIANT ShownIsUsed
CHECK_DEADLOCK FALSE
