SPECIFICATION Spec
CONSTANTS
  Writers = {w1, w2}
  NoWriter = nw
  Closers = {}
  Consumers = {}
  InitialStore <- MCStore
  ForeignChanges <- NoChange
  MaxChanges = 0
  Copies = {1}
  Subscribed <- SetPointOnly
  Requests <- ZoneRequests
  Cancellable = {}
  MaxPauses = 0
PROPERTIES
  OtherCompartmentsPreserved
CHECK_DEADLOCK FALSE
