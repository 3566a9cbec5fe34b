SPECIFICATION Spec
CONSTANTS
  Programs <- MCPrograms
  PcRange = 16
INVARIANTS TypeOK DisplayFollowsPc StoppedMeansRewound TimerIsPausable
PROPERTIES FailureEndsRun
CHECK_DEADLOCK FALSE
