\* Four requests on three instances and one snapshot directory, and the daemon's end.
\* The daemon exits, so the system stops.
CONSTANTS
  Insts = {i1, i2, i3}
  Reqs = {r1, r2, r3, r4}
  Dirs = {d1}
  NoInst = NoInst
  NoDir = NoDir
  DirsOwned = TRUE
  MaxGone = 1
  VmmErrs = TRUE
SPECIFICATION Spec
SYMMETRY Symmetry
INVARIANTS
  TypeOK
  NoLostSandbox
  DeletedOnce
  ExitKillsOnlyLate
  CloneFidelity
  PausedOnlyInSnapshot
CHECK_DEADLOCK FALSE
