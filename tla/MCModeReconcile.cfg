SPECIFICATION FairSpec
CONSTANTS
  Media <- MCMedia
  Requests = {"safe", "entertainment", "daily_driver"}
  MenuModes = {"torrent_fortress", "print_lab"}
  WaitRounds = 2
  MaxEdits = 2
  MaxFaults = 1
PROPERTIES TunnelFirst TransferLeavesFirst ModeEnforced
