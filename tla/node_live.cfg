SPECIFICATION FairSpec
CONSTANTS
  Paths = {p1}
  RO = {}
  Rpcs = {r1}
  Hm = hm
  Mounts = {m1, m2}
  Locks = {l1, l2}
  HasContext = FALSE
  None = None
  Bare = Bare
CONSTRAINT Unsplit
VIEW Behaviour
PROPERTY RequestsReturn
PROPERTY StagingRecovers
PROPERTY BindsRepaired
