SPECIFICATION Spec
CONSTANTS
  Writers = {w1}
  NoWriter = nw
  Closers = {c1}
  Consumers = {}
  InitialStore <- MCStore
  ForeignChanges <- NoChange
  MaxChanges = 0
  Copies = {1}
  Subscribed <- PowerOnly
  Requests <- PowerRequests
  Cancellable = {}
  MaxPauses = 0
INVARIANTS
  CloseFreesSocket
CHECK_DEADLOCK FALSE
