SPECIFICATION StateSpec
CONSTANTS
  Apps = {"reader"}
  NoApp = "none"
  MaxHandlers = 2
  MaxAsked = 2
  MaxEvents = 1
INVARIANTS SettingsSurvive ForegroundIsTrue
PROPERTY SettingsArrive
CHECK_DEADLOCK FALSE
