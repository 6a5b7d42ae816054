CONSTANTS
  FragHdr = 1
  MaxShard = 6
  RxMaxShard = 5
  MaxNalBuf = 7
  ReadMax = 6
  NalMod = 2
  FreeRestarts = 0
  Lives = 1
  Nals = 2
  ParamLens = {1}
  PictureLens = {1, 4}
  None = None
SPECIFICATION FairSpec
CHECK_DEADLOCK FALSE
PROPERTIES WholeNalIsShown
