\* Two callers, a target of two and four VMM processes; spawns may fail or hang.
CONSTANTS
  Vmms = {v1, v2, v3, v4}
  Callers = {c1, c2}
  Refills = {g1, g2}
  Target = 2
  SpawnFails = TRUE
  NoVmm = NoVmm
SPECIFICATION FairSpec
INVARIANTS
  TypeOK
  ExclusiveVmm
  HandedOutReady
  NoLeakedVmm
  IdleWithinTarget
PROPERTIES
  ImplementsSupply
  CloseReapsSpares
