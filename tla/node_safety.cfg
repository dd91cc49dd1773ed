SPECIFICATION Spec
CONSTANTS
  Paths = {p1}
  RO = {p1}
  Rpcs = {r1, r2}
  Hm = hm
  Mounts = {m1, m2}
  Locks = {l1, l2}
  HasContext = FALSE
  None = None
  Bare = Bare
CONSTRAINT Unsplit
SYMMETRY Symmetry
VIEW Told
PROPERTY NoRebindUnlessSplit
INVARIANT TypeOK
INVARIANT PublishedStaysTracked
INVARIANT StagedIsTracked
INVARIANT BoundIsRecorded
PROPERTY RecoverySparesLive
PROPERTY RebindKeepsMode
