CONSTANTS
  Jobs <- MCJobs
  Runners = {w1, w2}
  None = None
  MaxCancels = 1
  MaxFaults = 1
SPECIFICATION Spec
INVARIANTS TypeOK OneAtATime OneComputeJob SuccessIsComputed ComputeReleased
PROPERTIES CancelHolds OutcomeStays JobsEnd
CHECK_DEADLOCK FALSE
