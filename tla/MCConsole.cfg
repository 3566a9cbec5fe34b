SPECIFICATION Spec
CONSTANTS
  MaxTyped = 3
  PollEvery = 2
INVARIANTS TypeOK OnlyFaultsLoseKeys InOrder TerminalRestored
PROPERTIES InterruptHeld KeysArrive
CHECK_DEADLOCK FALSE
