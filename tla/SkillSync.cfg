SPECIFICATION FairSpec
CONSTANTS
  a = a  b = b  v1 = v1  v2 = v2  p1 = p1
  Skills = {a, b}
  Versions = {v1, v2}
  Procs = {p1}
  Commands = {"apply", "sync"}
  MaxMeddle = 2
  MaxFaults = 1
  None = None
INVARIANTS TypeOK ResumesCleanly
PROPERTIES UserContentKept BackupKept PromiseKept Converges
CHECK_DEADLOCK FALSE
