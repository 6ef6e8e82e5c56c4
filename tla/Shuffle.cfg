SPECIFICATION Spec
CONSTANTS
  Lists <- AllLists
  NVotes = 3
  MaxFaults = 2
CHECK_DEADLOCK FALSE
INVARIANTS
  AcceptedIsMix
  UniformMixIsAccepted
