SPECIFICATION Spec
CONSTANTS
  N = 2
  Image <- MCImage
  Data <- GuardedData
  Root <- MCRoot
  Program = {"load", "store", "lr", "sc", "amo", "sysread", "fetch", "satp", "sum"}
INVARIANTS TypeOK ReservationIsHonest
PROPERTIES UserConfined
CONSTRAINTS FewRewritten
