CONSTANTS
  Senders = {video, heartbeat}
  MaxLen = 2
  Inner = {1}
  ReadMax = 2
  Conns = 2
  Frames = 3
SPECIFICATION FairSpec
CHECK_DEADLOCK FALSE
INVARIANTS UndisturbedFraming NothingVanishes
PROPERTIES LoneFramesArrive NextConnectionIsServed
