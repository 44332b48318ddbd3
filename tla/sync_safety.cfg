SPECIFICATION Spec
CONSTANTS
  Writers = {w1, w2}
  NoWriter = nw
  Closers = {c1, c2}
  InCallback = {w2, c2}
  InitialStore <- MCStore
  ForeignChanges <- NoChange
  MaxChanges = 0
  Copies = {1}
  Subscribed <- PowerOnly
  Requests <- SwitchOff
  MaxStalls = 1
INVARIANTS
  TypeOK
  LinesNotMixed
  CallbacksAgreeWithState
  CloseReasonHonest
PROPERTIES
  NothingAfterClose
CHECK_DEADLOCK FALSE
