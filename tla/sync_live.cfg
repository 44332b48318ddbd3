SPECIFICATION FairSpec
CONSTANTS
  Writers = {w1}
  NoWriter = nw
  Closers = {c1, c2}
  InCallback = {w1, c2}
  InitialStore <- MCStore
  ForeignChanges <- NoChange
  MaxChanges = 0
  Copies = {1}
  Subscribed <- PowerOnly
  Requests <- SwitchOff
  MaxStalls = 1
PROPERTIES
  SlotFreed
  SendsEnd
  CloseReturns
CHECK_DEADLOCK FALSE
