SPECIFICATION Spec
CONSTANTS
  Writers = {w1, w2}
  NoWriter = nw
  Closers = {c1}
  Consumers = {}
  InitialStore <- MCStore
  ForeignChanges <- NoChange
  MaxChanges = 0
  Copies = {1}
  Subscribed <- SetPointAndPower
  Requests <- MixedRequests
  Cancellable = {}
  MaxPauses = 0
INVARIANTS
  TypeOK
  PendingIffInFlight
  NoOrphanWait
  RejectedOnlyAfterRefusal
PROPERTIES
  FutureSettledOnce
  PromiseKept
CHECK_DEADLOCK FALSE
