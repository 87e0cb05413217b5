\* One case on each of the four products, in a guest that was used before.
CONSTANTS
  Buffer = 1
  Tolerance = 1
  Installed <- Products
  Shapes <- Rows
  Limit = 1
  Lag = 1
  MaxTime = 2
  MaxRows = 2
SPECIFICATION Spec
PROPERTIES KeepsContract EvidenceIsReported OldContainerIgnored
