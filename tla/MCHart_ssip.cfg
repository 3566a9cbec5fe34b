SPECIFICATION Spec
CONSTANTS
  Addr <- SsipAddr
  Operand <- SsipOperand
  Exceptions = {2}
  DeviceLines <- SsipLines
PROPERTIES SoftwareInterruptKept
CHECK_DEADLOCK FALSE
