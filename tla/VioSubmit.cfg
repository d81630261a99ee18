SPECIFICATION FairSpecJobsEnd
CONSTANTS
  a = a
  b = b
  c = c
  Steps <- AB
  Deps <- Independent
  Parallelism = 1
  CacheEnabled = FALSE
  Env = {"submitErr"}
PROPERTY SubmitFailureEndsRun
CHECK_DEADLOCK FALSE
