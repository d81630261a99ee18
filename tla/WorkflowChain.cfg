SPECIFICATION Spec
CONSTANTS
  a = a
  b = b
  c = c
  Steps <- AB
  Deps <- Chain
  Parallelism = 1
  CacheEnabled = TRUE
  Env = {"submitErr", "stopErr", "watchErr", "cacheErr", "dbErr", "userStop", "jobFail", "jobKill", "message"}
INVARIANTS TypeOK CompletedMeansNoLiveJob NoReadFromClosed VerdictJustified
PROPERTIES RecordedEndIsStable ImplementsPipelineRun
CHECK_DEADLOCK FALSE
