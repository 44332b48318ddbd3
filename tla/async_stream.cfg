SPECIFICATION Spec
CONSTANTS
  Writers = {w1}
  NoWriter = nw
  Closers = {c1, c2}
  Consumers = {i1}
  InitialStore <- MCStore
  ForeignChanges <- PanelChange
  MaxChanges = 1
  Copies = {1}
  Subscribed <- SetPointOnly
  Requests <- ZoneRequests
  Cancellable = {w1}
  MaxPauses = 1
INVARIANTS
  StreamAgreesWithState
  CloseReasonTellsWho
  ClientInv
PROPERTIES
  NothingAfterClose
CHECK_DEADLOCK FALSE
