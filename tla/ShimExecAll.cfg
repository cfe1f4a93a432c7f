\* Three task RPCs and three exec RPCs on one task, fair goroutines.
\* The clients stop calling, so the system may stop.
CONSTANTS
  TaskIds = {t1}
  Insts = {i1}
  Reqs = {r1, r2, r3}
  Signals = {15}
  NoInst = NoInst
  NoId = NoId
  LossyPublisher = FALSE
  SandboxCrashes = TRUE
  Client = "serial"
  ExecIds = {x1}
  Execs = {e1, e2}
  XReqs = {q1, q2, q3}
  NoExec = NoExec
SPECIFICATION FairXSpec
INVARIANTS
  XTypeOK
  NoLostExecWakeup
  ExecExitAgreement
PROPERTIES
  ExecEndsWithSandbox
  ExecWaitReturns
CHECK_DEADLOCK FALSE
