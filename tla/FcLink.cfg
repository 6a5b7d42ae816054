CONSTANTS
  RcCap = 2
  UplinkCap = 1
SPECIFICATION FairSpec
PROPERTIES
  ImplementsGate NoHighThrottleWhileLatched SilenceReachesFc RemovedDeviceIsReopened
  NeutralEndsFailsafe
