SPECIFICATION MCSpec
CONSTANTS
  a = a
  b = b
  Steps <- AB
  Deps <- Chain
  Parallelism = 1
  CacheEnabled = TRUE
  MaxCrashes = 2
  Env = {"jobFail", "dbErr"}
INVARIANTS OrderSurvivesCrashes RecordedJobNotResubmitted
PROPERTY RecordedEndIsReal
CHECK_DEADLOCK FALSE
