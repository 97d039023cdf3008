SPECIFICATION FairSpec
CONSTANTS
  n1 = n1  n2 = n2  s1 = s1  s2 = s2  p1 = p1  d1 = d1  d2 = d2
  Servers = {n1}
  Plugins = {p1}
  Specs = {s1, s2}
  Foreign = Foreign
  Places = {d1, d2}
  MaxEdits = 2
  MaxMeddle = 2
  MaxTroubles = 2
  None = None
INVARIANTS TypeOK Accounted
PROPERTIES UserEntriesKept Converges
CHECK_DEADLOCK FALSE
