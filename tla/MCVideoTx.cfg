CONSTANTS
  FragHdr = 1
  MaxShard = 6
  RxMaxShard = 5
  MaxNalBuf = 7
  ReadMax = 6
  NalMod = 1
  FreeRestarts = 0
  Lives = 2
  Nals = 3
  ParamLens = {2}
  PictureLens = {1, 4}
  None = None
SPECIFICATION MCSpec
CHECK_DEADLOCK FALSE
INVARIANTS TypeOK SentIsOneNal OnlyParamsOutliveCamera PanicNeedsLongNal
PROPERTIES NoStartIsLost LoopEnds
