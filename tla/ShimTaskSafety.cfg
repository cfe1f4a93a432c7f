\* Every interleaving of five RPCs on one task ID, Deletes of an ID one at a
\* time. The clients stop calling, so the system may stop.
CONSTANTS
  TaskIds = {t1}
  Insts = {i1, i2}
  Reqs = {r1, r2, r3, r4, r5}
  Signals = {0, 15}
  NoInst = NoInst
  NoId = NoId
  LossyPublisher = TRUE
  SandboxCrashes = TRUE
  Client = "serial"
SPECIFICATION Spec
SYMMETRY Symmetry
INVARIANTS
  TypeOK
  NoOrphanSandbox
  NoStrandedWaiter
  EventsOnce
PROPERTIES
  DeleteTearsDown
  RefinesLifecycle
CHECK_DEADLOCK FALSE
