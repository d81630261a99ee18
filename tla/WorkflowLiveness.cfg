SPECIFICATION FairSpec
CONSTANTS
  a = a
  b = b
  c = c
  Steps <- AB
  Deps <- Chain
  Parallelism = 1
  CacheEnabled = FALSE
  Env = {"userStop", "stopErr", "jobFail"}
PROPERTIES CancelStopsJobs RunCompletes
CHECK_DEADLOCK FALSE
