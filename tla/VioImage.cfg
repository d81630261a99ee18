SPECIFICATION FairSpec
CONSTANTS
  Runs = {r1}
  Workers = {w1}
  MaxRetries = 0
  MaxFaults = 0
PROPERTY PanicIsRecovered
CHECK_DEADLOCK FALSE
