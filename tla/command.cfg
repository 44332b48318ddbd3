SPECIFICATION FairSpec
CONSTANTS
  Writers = {w}
  NoWriter = nw
  Closers = {c}
  InCallback = {}
  InitialStore <- MCStore
  ForeignChanges <- SwitchedOff
  MaxChanges = 1
  Copies = {1}
  Subscribed <- PowerOnly
  Requests <- MCRequests
  MaxStalls = 1
INVARIANTS
  TypeOK
  FirstAnswerDecides
  ExitTellsFate
  OnlyYesWrites
PROPERTIES
  CommandEnds
CHECK_DEADLOCK FALSE
