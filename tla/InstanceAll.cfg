\* One sandbox with two Stops, two calls of users and a neighbour in its pod.
\* Everybody comes to an end, so the system may stop.
CONSTANTS
  Calls = {1, 2, 3, 4}
  NoCall = 0
  Insts = {i1, i2}
  NoInst = NoInst
  Self = i1
  HasNetns = TRUE
  Stops = {s1, s2}
  PingCall = 1
  NetCall = 2
SPECIFICATION FairISpec
INVARIANTS
  ITypeOK
  NoCrossedAnswers
  TapsAccounted
  RunningIsBridged
PROPERTIES
  EndFreesUsers
  ImplementsAtMostOnce
  CallsReturn
  ImplementsDriver
CHECK_DEADLOCK FALSE
