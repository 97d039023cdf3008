SPECIFICATION Spec
CONSTANTS
  p1 = p1  p2 = p2
  Publishers = {p1, p2}
  NumPackages = 2
  MaxVersion = 2
  MaxEdits = 2
  MaxCrashes = 1
  MaxFaults = 1
  None = None
SYMMETRY PublisherSymmetry
INVARIANTS TypeOK PublishedWasCatalog PathRestored
 
CHECK_DEADLOCK FALSE
