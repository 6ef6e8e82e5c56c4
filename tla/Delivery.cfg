SPECIFICATION DSpec
CONSTANTS
  Castable <- MCCastable
  Controls = {"c1"}
  VerifiedVotes = {"v1"}
  MaxBallots = 3
  MaxPublished = 1
  Client = {d1, d2}
  Secret = {x1, x2}
  MaxCasts = 2
  MaxCopies = 2
SYMMETRY Symmetry
CHECK_DEADLOCK FALSE
INVARIANTS
  TypeOK
  ReceiptIsPosition
  ConfirmationStands
  LastCastIsLast
  FilterKeepsFirst
PROPERTIES
  AppendOnly
