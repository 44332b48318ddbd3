SPECIFICATION Spec
CONSTANTS
  Instances = {"i1", "i2"}
  Hosts = {"h1", "h2"}
  Addresses = {"a1", "a2"}
  Coolers = {"c1", "c2"}
  HostOf <- MCHostOf
  Location <- MCLocation
  NamedHosts = {"a1"}
  Packets <- MCPackets
  Timeout = 20
  Gap = 8
  Linger = 6
  Poll = 5
  Delays = {0, 3}
  MaxPackets = 4
INVARIANTS
  NothingHeardIsLost
  FollowUpInTime
  EarlyStopLeavesNothingOld
  EndsInTime
  MergeKeepsAll
CHECK_DEADLOCK FALSE
