\* A sandbox, and a snapshot whose client disconnects.
\* The daemon exits, so the system stops.
CONSTANTS
  Insts = {i1, i2}
  Reqs = {r1, r2}
  Dirs = {d1}
  NoInst = NoInst
  NoDir = NoDir
  DirsOwned = TRUE
  MaxGone = 1
  VmmErrs = FALSE
SPECIFICATION Spec
SYMMETRY Symmetry
INVARIANTS
  SourceKeepsRunning
CHECK_DEADLOCK FALSE
