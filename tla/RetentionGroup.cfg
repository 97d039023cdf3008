SPECIFICATION Spec
CONSTANTS
  o1 = o1  o2 = o2  o3 = o3  o4 = o4  l1 = l1  p1 = p1  p2 = p2
  Names = {1, 2, 3}
  Limit = 1
  Objects = {o1, o2, o3, l1}
  Links = {l1}
  Pruners = {p1}
  MaxRuns = 2
  MaxMeddle = 1
  MaxFaults = 2
  Tamper = TRUE
  None = None
SYMMETRY TreeSymmetry
INVARIANTS TypeOK ManifestsTrue
PROPERTIES CapturesGuarded PromiseKept
CHECK_DEADLOCK FALSE
