SPECIFICATION Spec
CONSTANTS
  Values = {"on", "off"}
  MaxGen = 2
  None = None
INVARIANTS TypeOK RecordedStages
PROPERTY AcceptedClassApplies
CONSTRAINT OneLate
