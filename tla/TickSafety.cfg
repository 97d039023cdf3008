SPECIFICATION Spec
CONSTANTS
  t1 = t1  t2 = t2  t3 = t3  u1 = u1  s1 = s1  s2 = s2  dA = dA  dB = dB
  Ticks = {t1, t2}
  Manuals = {u1}
  Schedules = {s1, s2}
  Snapshots = {dA, dB}
  Named <- MCNamed
  Due <- MCDue
  MaxMinute = 1
  MaxPublish = 1
  None = None
INVARIANTS TypeOK OneSupervisedRun  ResultsComplete
CHECK_DEADLOCK FALSE
