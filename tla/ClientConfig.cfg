SPECIFICATION FairSpec
CONSTANTS
  MaxCalls = 2
  Brokered = {"new"}
  MaxEdits = 1
CHECK_DEADLOCK FALSE
PROPERTIES
  SettingsSurvive
  GrantsAreAskedFor
  AnswersAreTrue
  HookQuits
