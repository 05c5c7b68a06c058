\* One decryption error can leave an end two updates ahead: OneApart is violated.
SPECIFICATION Spec
CONSTANTS
  Askers = {"client"}
  MaxGen = 2
  MaxLate = 1
  BacklogMax = 1
  Shaky = {"client"}
INVARIANT
  OneApart
CHECK_DEADLOCK FALSE
