SPECIFICATION Spec
CONSTANTS
  Addr <- MCAddr
  Operand <- MCOperand
  Exceptions = {2, 3, 12}
  DeviceLines <- MCLines
INVARIANTS TypeOK NoEnabledInterruptLeft InterruptWasEnabled TrapReturnRestores
PROPERTIES LowerModesAreConfined RaiseEntersHandler
CHECK_DEADLOCK FALSE
