SPECIFICATION Spec
CONSTANTS
  Paths = {p1}
  RO = {}
  Rpcs = {r1}
  Hm = hm
  Mounts = {m1, m2, m3}
  Locks = {l1, l2}
  HasContext = TRUE
  None = None
  Bare = Bare
PROPERTY PublishBindsVolume
