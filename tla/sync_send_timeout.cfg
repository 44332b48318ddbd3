SPECIFICATION Spec
CONSTANTS
  Writers = {w1}
  NoWriter = nw
  Closers = {c1}
  InCallback = {}
  InitialStore <- MCStore
  ForeignChanges <- NoChange
  MaxChanges = 0
  Copies = {1}
  Subscribed <- PowerOnly
  Requests <- SwitchOff
  MaxStalls = 1
PROPERTIES
  ClosedMeansNotConnected
CHECK_DEADLOCK FALSE
