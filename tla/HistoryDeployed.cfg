SPECIFICATION HistorySpec
CONSTANTS
  deployer = deployer
  HoursPerDay = 2
  LastHour = 2
  Windows <- MCWindows
  Amounts <- MCAmounts
  Loggers = {deployer}
  Configured <- MCConfigured
  DefaultRetention = 2
  Delivered = {"MODIFY"}
  EnableArchival = TRUE
  Asked <- MCAsked
  PageSize = 1
  SafetyLimit = 2
  MaxChanges = 3
  MaxEvents = 2
  MaxFailures = 1
INVARIANT NothingUnarchived
CHECK_DEADLOCK FALSE
