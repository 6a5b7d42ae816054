CONSTANT TelemCap = 1
SPECIFICATION FairSpec
INVARIANTS StatusIsEarned ActivityMasksOnce
PROPERTIES
  LinkIsReported NoCameraSettles StaleNoCameraIsRepaired
