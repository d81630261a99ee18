SPECIFICATION Spec
CONSTANTS
  Steps = {a, b, c}
  Values <- SomeValues
  Overrides <- RunParams
  Runs = {r1, r2}
  Artifacts = {"x", "y"}
  Images = {"i", "d"}
  DockerEnv = "d"
  Expired = 1
  MaxWrites = 1
  MaxTime = 1
  MaxCrashes = 1
  MaxFaults = 1
  Modes = {"pod", "ps", "collective", "spark"}
  Replicas <- Counts
  Templates <- UserTemplates
  Width = 3
INVARIANTS SortIsSound ParamsAreSound CacheIsSound PodsCanStart
SYMMETRY Alike
CHECK_DEADLOCK FALSE
