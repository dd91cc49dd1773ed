SPECIFICATION FairSpec
CONSTANTS
  Vols = {a, b}
  None = None
INVARIANT TypeOK
INVARIANT KeepsCache
PROPERTY StagesProceed
PROPERTY OrphansRemoved
