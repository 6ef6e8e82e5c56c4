SPECIFICATION Spec
CONSTANTS
  CAI_POW = 3
  U32 = 8
  Checked = {TRUE, FALSE}
  PartyCounts = {1, 2}
  Lists <- MCLists
  Preferences <- MCPreferences
  Stored <- NoneStored
  MaxVotes = 1
CHECK_DEADLOCK FALSE
INVARIANTS
  ValidChoiceIsCast
