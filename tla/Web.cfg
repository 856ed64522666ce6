SPECIFICATION Spec
CONSTANTS
  b1 = b1
  b2 = b2
  Browsers = {b1, b2}
  Chunks = 2
  Edits <- MCEdits
  Documents <- MCDocuments
  Scenarios <- MCScenarios
  MaxUptime = 1
CHECK_DEADLOCK FALSE
INVARIANTS
  TypeOK
  SettingsSurvive
  SettingsUsable
  
  SuccessIsTrue
  UpdateIsHeld
PROPERTIES
  PageIsSaved
  
