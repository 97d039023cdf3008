SPECIFICATION Spec
CONSTANTS
  Malformed = Malformed  Missing = Missing  Unknown = Unknown
  Absent = Absent  Unsafe = Unsafe
  Portable <- WindowsName
INVARIANTS CronIsVixie
CHECK_DEADLOCK FALSE
