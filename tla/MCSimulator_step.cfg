SPECIFICATION Spec
CONSTANTS
  Programs <- MCPrograms
  PcRange = 16
PROPERTIES StepAdvances
CHECK_DEADLOCK FALSE
