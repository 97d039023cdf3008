SPECIFICATION Spec
CONSTANTS
  Malformed = Malformed  Missing = Missing  Unknown = Unknown
  Absent = Absent  Unsafe = Unsafe
  Portable <- WindowsName
INVARIANTS CronAgrees ReleasesSound NothingRetractedSilently 
CHECK_DEADLOCK FALSE
