SPECIFICATION Spec
CONSTANTS
  Conns = {1}
  Users = {u1, u2}
  Limited = {u1}
  Accepts <- MCAccepts
  MaxFaults = 1
INVARIANTS PluginConnected
PROPERTIES KillsOnlySlow PluginTold SlowEnds
