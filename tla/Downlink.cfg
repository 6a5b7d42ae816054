CONSTANTS
  HpCap = 3
  DownlinkCap = 2
  TelemCap = 2
SPECIFICATION FairSpec
CHECK_DEADLOCK FALSE
PROPERTY ShutdownCompletes
