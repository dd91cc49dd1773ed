SPECIFICATION Spec
CONSTANTS
  Vols = {a, b}
  Containers = {c1}
  Devices = {d1, d2, d3, d4}
  None = None
  Host = Host
INVARIANT ContainersSeeVolume
