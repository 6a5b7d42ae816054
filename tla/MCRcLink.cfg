CONSTANTS
  Controls = {1, 2}
  Raw <- MCRaw
  RcCap = 2
  AirCap = 1
  MaxMoves = 2
  None = None
  Failsafe = Failsafe
SPECIFICATION MCSpec
PROPERTIES
  ReleaseIsRecent SticksSettle OutageEndsInFailsafe
