SPECIFICATION MCSpec
CONSTANTS
  r1 = r1
  r2 = r2
  g1 = g1
  Requests <- Two
  Images <- Image
  MaxWf = 1
  MaxSeries = 3
  Tar = TRUE
  Faults <- AnyFault
INVARIANT EnginesAreReachable
PROPERTY StopStays
CHECK_DEADLOCK FALSE
