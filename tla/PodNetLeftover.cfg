\* Two sandboxes of one pod, in any order or at once.
\* Each is created once, so the system may stop.
CONSTANTS
  Insts = {i1, i2}
  NoInst = NoInst
SPECIFICATION PodSpec
INVARIANTS
  LeftoverHarmless
CHECK_DEADLOCK FALSE
