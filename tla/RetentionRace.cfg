SPECIFICATION FairSpec
CONSTANTS
  o1 = o1  o2 = o2  o3 = o3  o4 = o4  l1 = l1  p1 = p1  p2 = p2
  Names = {1, 2}
  Limit = 1
  Objects = {o1, l1}
  Links = {l1}
  Pruners = {p1, p2}
  MaxRuns = 2
  MaxMeddle = 2
  MaxFaults = 1
  Tamper = FALSE
  None = None
INVARIANT LiveRunUntouched
PROPERTY RunsSettled
CHECK_DEADLOCK FALSE
