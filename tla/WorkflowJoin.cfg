SPECIFICATION Spec
CONSTANTS
  a = a
  b = b
  c = c
  Steps <- ABC
  Deps <- Join
  Parallelism = 1
  CacheEnabled = FALSE
  Env = {"jobFail", "submitErr"}
INVARIANTS ReadyNeverBlocks DependentsFollowSuccess JobsWithinParallelism
SYMMETRY Swap
CHECK_DEADLOCK FALSE
