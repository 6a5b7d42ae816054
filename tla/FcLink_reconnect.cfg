CONSTANTS
  RcCap = 2
  UplinkCap = 1
SPECIFICATION FairSpec
PROPERTY WriteErrorReconnects
