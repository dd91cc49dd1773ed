SPECIFICATION Spec
CONSTANTS
  Values = {"on", "off"}
  MaxGen = 1
  None = None
INVARIANT RecoveryAccepts
