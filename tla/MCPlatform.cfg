SPECIFICATION PlatformSpec
CONSTANTS
  Addr <- MCAddr
  Operand <- MCOperand
  Exceptions = {2, 12}
  DeviceLines <- MCLines
  Half = 3
  MaxTime = 7
  Deadline = {3, 7}
  DeviceModes = {3}
  IerValue = {{"rx", "tx"}}
INVARIANTS PlatformTypeOK NoEarlyTimer InterruptHasCause ClockReadIsConsistent TimeSliceEnds
CHECK_DEADLOCK FALSE
