SPECIFICATION Spec
CONSTANTS
  c1 = c1  c2 = c2
  Commands = {c1, c2}
  MaxVersion = 2
  MaxToggles = 1
  MaxWrites = 2
  MaxApplies = 2
  MaxTroubles = 2
  None = None
SYMMETRY CommandSymmetry
INVARIANTS TypeOK NothingLost 
 
CHECK_DEADLOCK FALSE
