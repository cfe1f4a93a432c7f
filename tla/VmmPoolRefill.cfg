\* One caller, a target of one, spawns never fail, fair goroutines.
CONSTANTS
  Vmms = {v1, v2, v3}
  Callers = {c1}
  Refills = {g1}
  Target = 1
  SpawnFails = FALSE
  NoVmm = NoVmm
SPECIFICATION FairSpec
PROPERTIES
  GetIsFollowedByRefill
