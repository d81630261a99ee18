SPECIFICATION MCSpec
CONSTANTS
  Kind = "vcjob"
  Faults <- CallErrs
  MaxFaults = 2
  MaxChanges = 3
  MaxPodEvents = 1
INVARIANT OutcomeIsReal
PROPERTIES RecordOnlyAdvances SparkEndIsRecorded
CHECK_DEADLOCK FALSE
