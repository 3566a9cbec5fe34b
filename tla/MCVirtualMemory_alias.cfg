SPECIFICATION Spec
CONSTANTS
  N = 2
  Image <- MappedImage
  Data <- ZeroData
  Root <- MCRoot
  Program = {"store", "lr", "sc"}
INVARIANTS InterveningStoreBreaks
