SPECIFICATION Spec
CONSTANTS
  yes = yes
  no = no
  Context = {"this", "other"}
  ContextHash = "this"
  Credential <- MCCredential
  Pin = {"right", "wrong"}
  PinOf <- MCPinOf
  Choice = {yes, no}
  Exponent = {2}
  Point <- MCPoint
  Blind <- MCBlind
  Castable <- AllBallots
  PubCreds <- TwoRegistered
  TableMax = 2
  MaxBallots = 3
  MaxFaults = 0
CHECK_DEADLOCK FALSE
INVARIANTS
  MalformedAreSetAside
