SPECIFICATION Spec
CONSTANTS
  Askers = {"client"}
  MaxGen = 2
  MaxLate = 1
  BacklogMax = 1
  Shaky = {}
PROPERTY
  OldKeysRetained
CHECK_DEADLOCK FALSE
