SPECIFICATION Spec
CONSTANTS
  c1 = c1  c2 = c2  s1 = s1  s2 = s2
  Commands = {c1, c2}
  NumTargets = 2
  Launches = {s1, s2}
  MaxChanges = 1
  MaxEdits = 1
  MaxTroubles = 1
  MaxEvents = 2
  None = None
SYMMETRY Symmetry
INVARIANTS TypeOK
PROPERTIES OthersKept Completes
CHECK_DEADLOCK FALSE
