\* One connection with and without address validation, one fault.
SPECIFICATION FairSpec
CONSTANTS
  Retries = {"r1"}
  Validate = {FALSE, TRUE}
  Credit = 2
  MaxCredit = 4
  BacklogMax = 3
  MaxFaults = 1
INVARIANTS
  TypeOK
  OneSocket
  NothingStranded
  ProvenByClient
  NeverForgotten
PROPERTY
  Completes
\* The handshake ends.
CHECK_DEADLOCK FALSE
