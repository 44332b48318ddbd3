SPECIFICATION FairSpec
CONSTANTS
  Writers = {w1}
  NoWriter = nw
  Closers = {c1}
  Consumers = {i1}
  InitialStore <- MCStore
  ForeignChanges <- NoChange
  MaxChanges = 0
  Copies = {1}
  Subscribed <- PowerOnly
  Requests <- PowerRequests
  Cancellable = {w1}
  MaxPauses = 1
PROPERTIES
  WritesEnd
  CloseReturns
  EventsEnd
CHECK_DEADLOCK FALSE
