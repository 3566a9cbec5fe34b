SPECIFICATION Spec
CONSTANTS
  W = 4
  ShiftBits = 2
  Reg = {0, 1, 2}
  Imm <- MCImm
  UpperImm = {0, 8}
  Offset <- MCOffset
  Base = 8
  StackSize = 4
INVARIANTS TypeOK DivisionIdentity WideProduct ComparisonsAgree ExtensionsAgree CallReturns
