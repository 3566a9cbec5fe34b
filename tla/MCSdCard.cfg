SPECIFICATION Spec
CONSTANTS
  B = 2
  DiskSize = 3
  Wrap = 8
  ArgBytes = 1
  ArgRange = 8
  HostByte <- MCBytes
  Image <- MCImage
  Garbage <- MCGarbage
INVARIANTS TypeOK ChecksumMatchesData WaitIsRearmed
PROPERTIES ImplementsBlockDevice
