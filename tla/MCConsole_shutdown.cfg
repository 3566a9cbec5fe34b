SPECIFICATION Spec
CONSTANTS
  MaxTyped = 0
  PollEvery = 2
PROPERTIES CtrlCStops
CHECK_DEADLOCK FALSE
