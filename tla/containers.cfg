SPECIFICATION FairSpec
CONSTANTS
  Vols = {a}
  Containers = {c1}
  Devices = {d1, d2, d3, d4}
  None = None
  Host = Host
INVARIANT TypeOK
PROPERTY RemountTakesOnlyDead
PROPERTY ContainersRepaired
