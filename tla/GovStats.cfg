CONSTANTS
  Members = {u1, u2}
  Samples <- MCSamples
  Intervals <- MCIntervals
  MaxTicks = 4
  Period = 1
  StartTime = 3
  MaxRestricts = 1
  MaxChanges = 1
SPECIFICATION StatSpec
INVARIANTS BufferIsHistory ReportedOnce NamesIncrease
PROPERTIES AveragesAreRecent AccountAverageClose
CHECK_DEADLOCK FALSE
SYMMETRY Symmetry
