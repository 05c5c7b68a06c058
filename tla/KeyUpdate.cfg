SPECIFICATION FairSpec
CONSTANTS
  Askers = {"client", "server"}
  MaxGen = 2
  MaxLate = 1
  BacklogMax = 1
  Shaky = {"client"}
INVARIANTS
  KeysHeld
  WithinOne
PROPERTY
  Settles
\* A connection that a failed derivation closed stops.
CHECK_DEADLOCK FALSE
