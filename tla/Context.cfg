SPECIFICATION Spec
CONSTANTS
  Scalar <- MCScalar
  Zero = 0
  One = 1
  Plus <- MCPlus
  Neg <- MCNeg
  Times <- MCTimes
  Inv <- MCInv
  FromPin <- MCFromPin
  HighBytes <- MCHighBytes
  UserPin = {0, 1}
  MAX_PIN = 2
  Teller = {"t1", "t2"}
  Election = {"e1", "e2", "e3"}
  TellerOf <- MCTellerOf
  RTKey <- MCRTKey
  Params <- MCParams
  Voter = {"v1"}
  VoterKey <- MCVoterKey
  OtherKeys = {0, 6}
  Draws <- MCDraws
  Blinding = {3}
  ChoiceValue = {"c"}
  Damages <- MCDamages
  MaxBallots = 2
CHECK_DEADLOCK FALSE
INVARIANT
  BoundToContext
