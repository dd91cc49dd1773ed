SPECIFICATION FairSpec
CONSTANTS
  Mounts = {m1, m2}
  None = None
  Interval = 1
  Timeout = 1
  HungAfter = 2
  Threshold = 3
  StatBound = 1
  Bound = 2
INVARIANT TypeOK
INVARIANT AbnormalEarned
PROPERTY RecoverySparesBusy
PROPERTY HungTornDown
PROPERTY ConditionClears
