SPECIFICATION Spec
CONSTANTS
  Media <- MCMedia
  Requests = {"safe", "daily_driver"}
  MenuModes = {"print_lab"}
  WaitRounds = 2
  MaxEdits = 1
  MaxFaults = 0
PROPERTY TransferOnlyOnRequest
