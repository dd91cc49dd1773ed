SPECIFICATION Spec
CONSTANTS
  v1 = v1
  t1 = t1
  t2 = t2
  Volumes = {v1}
  Targets = {t1, t2}
  TargetsOf <- OneVolumeTwoTargets
  Callers = {c1, c2}
  Procs = {p1, p2}
  Weeds = {w1}
  None = None
PROPERTY CleanupTakesOnlyDeadMounts
