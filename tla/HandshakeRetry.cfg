\* The client's probe timer fires before the Retry arrives: two Retries.
SPECIFICATION Spec
CONSTANTS
  Retries = {"r1", "r2"}
  Validate = {TRUE}
  Credit = 2
  MaxCredit = 4
  BacklogMax = 3
  MaxFaults = 1
INVARIANT DestinationFollows
CHECK_DEADLOCK FALSE
