\* A client that deletes once Wait has answered; publishing never fails.
\* The clients stop calling, so the system may stop.
CONSTANTS
  TaskIds = {t1}
  Insts = {i1}
  Reqs = {r1, r2, r3, r4}
  Signals = {15}
  NoInst = NoInst
  NoId = NoId
  LossyPublisher = FALSE
  SandboxCrashes = FALSE
  Client = "orderly"
SPECIFICATION Spec
SYMMETRY Symmetry
INVARIANTS
  EventsInOrder
CHECK_DEADLOCK FALSE
