SPECIFICATION Spec
CONSTANTS
  Lists <- AllLists
  NVotes = 3
  MaxFaults = 0
CHECK_DEADLOCK FALSE
INVARIANTS
  HonestMixIsAccepted
