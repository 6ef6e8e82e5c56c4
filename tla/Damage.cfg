SPECIFICATION Spec
CONSTANTS
  yes = yes
  no = no
  Context = {"this", "other"}
  ContextHash = "this"
  Credential <- MCCredential
  Pin = {"right", "wrong"}
  PinOf <- MCPinOf
  Choice = {yes, no}
  Exponent = {2}
  Point <- MCPoint
  Blind <- MCBlind
  Castable <- Revotes
  PubCreds <- TwoRegistered
  TableMax = 2
  MaxBallots = 4
  MaxFaults = 1
CHECK_DEADLOCK FALSE
INVARIANTS
  TypeOK
  ReceiptFollowsVote
  ValidAreRightPin
  ChosenAreLastBallots
  PublishedTallyIsRight
