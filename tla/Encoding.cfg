SPECIFICATION Spec
CONSTANTS
  CAI_POW = 3
  U32 = 8
  Checked = {TRUE, FALSE}
  PartyCounts = {1, 2, 3}
  Lists <- MCLists
  Preferences <- MCPreferences
  Stored <- MCStored
  MaxVotes = 2
CHECK_DEADLOCK FALSE
INVARIANTS
  TypeOK
  SingleChoiceIsAccepted
  AcceptedIsOneVote
  TallyCountsChoices
  AuditTellsTheVote
