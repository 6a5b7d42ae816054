CONSTANTS
  PayloadCap = 1
  TelemCap = 1
  NalCap = 1
  FrameCap = 1
  BufferLen = 2
  MaxNals = 3
SPECIFICATION FairSpec
CHECK_DEADLOCK FALSE
INVARIANT WindowAloneEndsNothing
PROPERTIES
  ShutdownCompletes HungDecoderStopsOnlyVideo ShownInOrder BacklogIsShown
