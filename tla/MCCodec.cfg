SPECIFICATION Spec
CONSTANTS
  Register <- MCRegister
  Immediate <- MCImmediate
  Halfword <- MCHalfword
INVARIANTS TypeOK WrittenIsExecuted ExpansionIsAssembly NoBitIsIgnored JumpsGoWhereMeant
