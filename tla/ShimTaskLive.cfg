\* Four RPCs of clients that do anything, fair goroutines, publishing that works.
\* No symmetry: liveness does not allow it.
\* The clients stop calling, so the system may stop.
CONSTANTS
  TaskIds = {t1}
  Insts = {i1}
  Reqs = {r1, r2, r3, r4}
  Signals = {15}
  NoInst = NoInst
  NoId = NoId
  LossyPublisher = FALSE
  SandboxCrashes = FALSE
  Client = "any"
SPECIFICATION FairSpec
INVARIANTS
  StaleOnlyDuringTeardown
  ExitAgreement
PROPERTIES
  WaitReturns
  ExitAnnounced
CHECK_DEADLOCK FALSE
