CONSTANTS
  Presents <- MCPresents
  Cuts = {7, 9, 20, 34, 35, 36, 37, 42, 43, 44}
SPECIFICATION Spec
PROPERTIES EachTakesItsOwn SignalIsReal
