SPECIFICATION Spec
CONSTANTS
  Pods = {p}
  Concurrency = 1
  MaxDeaths = 2
  Threads = {t1, t2}
  Dirs = {d}
  Leaves = {x, y}
  Inner = {x}
  MaxOps = 3
  Broken = {2}
  MaxVersion = 3
  MaxTime = 3
  MaxMounts = 2
  MaxFaults = 1
  CsiFaults = 2
INVARIANTS NoMountLeft UploadedIsKept
PROPERTIES DeadMountsComeBack ViewCatchesUp
CHECK_DEADLOCK FALSE
