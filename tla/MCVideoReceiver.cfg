CONSTANTS
  DataShards = 2
  TotalShards = 3
  RingSize = 2
  SeqMod = 16
  ChanCap = 1
  FirstSeqs = {0, 14}
  LastBlock = 3
  Window = 2
  MaxWaits = 3
  RestartWaits = 1
  Networks = {{}, {"loss", "stalls"}, {"loss", "duplication"}, {"restart", "stalls"}}
  None = None
SPECIFICATION MCSpec
INVARIANTS
  TypeOK RingIsSound DecodedIsKeptUnlessStrayed
  AllDeliveredWhenIdeal DarkUntilCaughtUp
PROPERTY ImplementsStream
CHECK_DEADLOCK FALSE
