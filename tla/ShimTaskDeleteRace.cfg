\* Overlapping Deletes of one ID and a Create between them.
\* The clients stop calling, so the system may stop.
CONSTANTS
  TaskIds = {t1}
  Insts = {i1, i2}
  Reqs = {r1, r2, r3, r4, r5}
  Signals = {15}
  NoInst = NoInst
  NoId = NoId
  LossyPublisher = FALSE
  SandboxCrashes = FALSE
  Client = "any"
SPECIFICATION Spec
SYMMETRY Symmetry
PROPERTIES
  DeleteTearsDown
CHECK_DEADLOCK FALSE
