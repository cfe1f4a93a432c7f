------------------------------- MODULE ShimExec -------------------------------
(***************************************************************************)
(* Exec processes of the shim's tasks (pkg/shim/exec.go), on top of        *)
(* ShimTask.  An exec is registered on a running task, started once,       *)
(* executed by a goroutine of its own through Instance.Exec, and reaped by *)
(* Delete.  s.mu, the task table and the sandboxes are ShimTask's; no task *)
(* RPC touches an exec, except that removing a task object drops its execs.*)
(***************************************************************************)
EXTENDS ShimTask

CONSTANTS
  ExecIds,    \* exec IDs containerd uses
  Execs,      \* execState objects; bounds how many are ever registered
  XReqs,      \* RPCs that name an exec; bounds how many are ever issued
  NoExec      \* no execState

ASSUME NoExecAssumption == NoExec \notin Execs

VARIABLES
  execs,      \* ts.execs of every task object
  es,         \* every execState
  runner,     \* the goroutine startExec leaves behind
  xreq,       \* the RPC goroutines that name an exec
  xwoken,     \* those whose waiter channel is closed
  published,  \* execs whose TaskExit reached containerd, with its code
  readers     \* execs whose output FIFOs containerd is reading

xvars == <<execs, es, runner, xreq, xwoken, published, readers>>

GuestCodes == {0, 1, 255}

ExecState == [status : Statuses, exitStatus : GuestCodes, waiters : SUBSET XReqs]

Runner == [pc : {"none", "open", "exec", "mark", "publish", "ended"},
           inst : Insts \cup {NoInst}, code : GuestCodes]

XRequest == [pc : {"new", "waiting", "done", "record"}, exec : Execs \cup {NoExec},
             inst : Insts \cup {NoInst}, code : GuestCodes]

XTypeOK ==
  /\ execs \in [Insts -> [ExecIds -> Execs \cup {NoExec}]]
  /\ es \in [Execs -> ExecState]
  /\ runner \in [Execs -> Runner]
  /\ xreq \in [XReqs -> XRequest]
  /\ xwoken \in SUBSET XReqs
  /\ published \in SUBSET (Execs \X GuestCodes)
  /\ readers \in SUBSET Execs

NewXReq == [pc |-> "new", exec |-> NoExec, inst |-> NoInst, code |-> 0]

XInit ==
  /\ Init
  /\ execs = [i \in Insts |-> [x \in ExecIds |-> NoExec]]
  /\ es = [e \in Execs |-> [status |-> "NONE", exitStatus |-> 0, waiters |-> {}]]
  /\ runner = [e \in Execs |-> [pc |-> "none", inst |-> NoInst, code |-> 0]]
  /\ xreq = [q \in XReqs |-> NewXReq]
  /\ xwoken = {}
  /\ published = {}
  /\ readers = {}

-----------------------------------------------------------------------------
XArrives(q) == xreq[q].pc = "new" /\ ~down

XReturn(q) == xreq' = [xreq EXCEPT ![q] = [NewXReq EXCEPT !.pc = "done"]]

\* A Wait or a Delete of exec e answers with an exit record.
XReturnRecord(q, e, code) ==
  xreq' = [xreq EXCEPT ![q] =
             [NewXReq EXCEPT !.pc = "record", !.exec = e, !.code = code]]

\* The execState the two IDs name now.
Named(id, x) == IF tasks[id] = NoInst THEN NoExec ELSE execs[tasks[id]][x]

ExecStatus(e) == IF e = NoExec THEN "NONE" ELSE es[e].status

\* Exec: the task must be RUNNING and the ID unused.
Exec(q, id, x) ==
  LET i == tasks[id]
  IN /\ XArrives(q)
     /\ \/ /\ StateOf(id).status = "RUNNING"
           /\ execs[i][x] = NoExec
           /\ \E e \in Execs :
                /\ es[e].status = "NONE"
                /\ es' = [es EXCEPT ![e].status = "CREATED"]
                /\ execs' = [execs EXCEPT ![i][x] = e]
        \/ /\ ~(StateOf(id).status = "RUNNING" /\ Named(id, x) = NoExec)
           /\ UNCHANGED <<es, execs>>
     /\ XReturn(q)
     /\ UNCHANGED <<runner, xwoken, published, readers>>

\* startExec looks at the exec only: the task may have exited by now.
StartExec(q, id, x) ==
  LET e == Named(id, x)
  IN /\ XArrives(q)
     /\ \/ /\ ExecStatus(e) = "CREATED"
           /\ es' = [es EXCEPT ![e].status = "RUNNING"]
           /\ runner' = [runner EXCEPT ![e].pc = "open", ![e].inst = tasks[id]]
        \/ /\ ExecStatus(e) # "CREATED"
           /\ UNCHANGED <<es, runner>>
     /\ XReturn(q)
     /\ UNCHANGED <<execs, xwoken, published, readers>>

\* Faulty: the status is read, and the waiter registered whatever it was.
WaitExecUnchecked(q, id, x) ==
  LET e == Named(id, x)
  IN /\ XArrives(q)
     /\ e # NoExec
     /\ es' = [es EXCEPT ![e].waiters = @ \cup {q}]
     /\ xreq' = [xreq EXCEPT ![q] = [NewXReq EXCEPT !.pc = "waiting", !.exec = e,
                                                    !.inst = tasks[id]]]
     /\ UNCHANGED <<execs, runner, xwoken, published, readers>>

WaitExec(q, id, x) ==
  LET e == Named(id, x)
  IN /\ XArrives(q)
     /\ \/ e = NoExec /\ XReturn(q) /\ UNCHANGED es
        \/ /\ ExecStatus(e) = "STOPPED"
           /\ XReturnRecord(q, e, es[e].exitStatus)
           /\ UNCHANGED es
        \/ /\ ExecStatus(e) \in {"CREATED", "RUNNING"}
           /\ es' = [es EXCEPT ![e].waiters = @ \cup {q}]
           /\ xreq' = [xreq EXCEPT ![q] = [NewXReq EXCEPT !.pc = "waiting", !.exec = e,
                                                          !.inst = tasks[id]]]
     /\ UNCHANGED <<execs, runner, xwoken, published, readers>>

WaitExecWakes(q) ==
  /\ xreq[q].pc = "waiting"
  /\ q \in xwoken
  /\ XReturnRecord(q, xreq[q].exec, es[xreq[q].exec].exitStatus)
  /\ UNCHANGED <<execs, es, runner, xwoken, published, readers>>

WaitExecCancelled(q) ==
  /\ xreq[q].pc = "waiting"
  /\ XReturn(q)
  /\ UNCHANGED <<execs, es, runner, xwoken, published, readers>>

\* deleteExec: only RUNNING is refused, so a CREATED exec goes, its waiters with
\* it, and is reported as an exit with code 0.
DeleteExec(q, id, x) ==
  LET e == Named(id, x)
  IN /\ XArrives(q)
     /\ \/ /\ e # NoExec
           /\ ExecStatus(e) # "RUNNING"
           /\ execs' = [execs EXCEPT ![tasks[id]][x] = NoExec]
        \/ /\ e = NoExec \/ ExecStatus(e) = "RUNNING"
           /\ UNCHANGED execs
     /\ XReturn(q)
     /\ UNCHANGED <<es, runner, xwoken, published, readers>>

-----------------------------------------------------------------------------
(* The goroutine of a started exec *)

\* What an exec prints goes to FIFOs that containerd opens, reads and abandons as
\* it likes; no path, or a regular file, is a reader that never leaves.
ReaderChanges(e) ==
  /\ runner[e].pc \in {"open", "exec", "mark"}
  /\ \/ readers' = readers \cup {e} \/ readers' = readers \ {e}
  /\ UNCHANGED <<execs, es, runner, xreq, xwoken, published>>

\* openOutput of stdout and stderr: O_WRONLY on a FIFO blocks until it is read.
OpenOutput(e) ==
  /\ runner[e].pc = "open"
  /\ e \in readers
  /\ runner' = [runner EXCEPT ![e].pc = "exec"]
  /\ UNCHANGED <<execs, es, xreq, xwoken, published, readers>>

\* Faulty: the guest connection survives the sandbox.
GuestNeverFails(e) ==
  /\ runner[e].pc = "exec"
  /\ sandbox[runner[e].inst] = "up"
  /\ \E c \in GuestCodes : runner' = [runner EXCEPT ![e].pc = "mark", ![e].code = c]
  /\ UNCHANGED <<execs, es, xreq, xwoken, published, readers>>

\* Faulty: the -1 of a failed Exec is recorded as it is.
GuestErrorRaw(e) ==
  /\ runner[e].pc = "exec"
  /\ \E c \in IF sandbox[runner[e].inst] = "up" THEN GuestCodes ELSE {-1} :
       runner' = [runner EXCEPT ![e].pc = "mark", ![e].code = c]
  /\ UNCHANGED <<execs, es, xreq, xwoken, published, readers>>

\* The guest answers Instance.Exec: the command ends, or the connection to the
\* guest breaks, as it does when the sandbox is stopped or dies (255).
GuestReturns(e) ==
  /\ runner[e].pc = "exec"
  /\ \E c \in IF sandbox[runner[e].inst] = "up" THEN GuestCodes ELSE {255} :
       runner' = [runner EXCEPT ![e].pc = "mark", ![e].code = c]
  /\ UNCHANGED <<execs, es, xreq, xwoken, published, readers>>

\* Faulty: the code is stored after the waiters have been woken.
MarkBeforeCode(e) ==
  /\ runner[e].pc = "mark"
  /\ es' = [es EXCEPT ![e].status = "STOPPED", ![e].waiters = {}]
  /\ xwoken' = xwoken \cup es[e].waiters
  /\ runner' = [runner EXCEPT ![e].pc = "publish"]
  /\ UNCHANGED <<execs, xreq, published, readers>>

\* Faulty: the channels of the waiters are dropped, not closed.
MarkWakingNobody(e) ==
  /\ runner[e].pc = "mark"
  /\ es' = [es EXCEPT ![e] = [status |-> "STOPPED", exitStatus |-> runner[e].code,
                              waiters |-> {}]]
  /\ runner' = [runner EXCEPT ![e].pc = "publish"]
  /\ UNCHANGED <<execs, xreq, xwoken, published, readers>>

\* The output is written (the pipe may have room, or no reader left), and
\* markExecExited runs up to its unlock.  A second exit is impossible: startExec
\* leaves one goroutine per exec.
MarkExecExited(e) ==
  /\ runner[e].pc = "mark"
  /\ es' = [es EXCEPT ![e] = [status |-> "STOPPED", exitStatus |-> runner[e].code,
                              waiters |-> {}]]
  /\ xwoken' = xwoken \cup es[e].waiters
  /\ runner' = [runner EXCEPT ![e].pc = "publish"]
  /\ UNCHANGED <<execs, xreq, published, readers>>

PublishExecExit(e) ==
  /\ runner[e].pc = "publish"
  /\ \/ published' = published \cup {<<e, runner[e].code>>}
     \/ LossyPublisher /\ UNCHANGED published
  /\ runner' = [runner EXCEPT ![e].pc = "ended"]
  /\ UNCHANGED <<execs, es, xreq, xwoken, readers>>

-----------------------------------------------------------------------------
XCall(q) == \E id \in TaskIds, x \in ExecIds :
              \/ Exec(q, id, x) \/ StartExec(q, id, x)
              \/ WaitExec(q, id, x) \/ DeleteExec(q, id, x)

XRun(e) == OpenOutput(e) \/ GuestReturns(e) \/ MarkExecExited(e) \/ PublishExecExit(e)

XStep == \/ \E q \in XReqs : XCall(q) \/ WaitExecWakes(q) \/ WaitExecCancelled(q)
         \/ \E e \in Execs : XRun(e) \/ ReaderChanges(e)

XNext == \/ Next /\ UNCHANGED xvars
         \/ XStep /\ UNCHANGED vars

XSpec == XInit /\ [][XNext]_<<vars, xvars>>

\* Goroutines go on, as in ShimTask, where nothing outside can hold them for ever:
\* a command in a guest that lives may, and so may an output that is not read.
XFairness ==
  /\ \A r \in Reqs : WF_<<vars, xvars>>(~down /\ Continue(r) /\ UNCHANGED xvars)
  /\ \A q \in XReqs : WF_<<vars, xvars>>(~down /\ WaitExecWakes(q) /\ UNCHANGED vars)
  /\ \A e \in Execs :
       WF_<<vars, xvars>>(/\ ~down
                          /\ runner[e].pc = "exec" => sandbox[runner[e].inst] # "up"
                          /\ runner[e].pc = "mark" => e \in readers
                          /\ XRun(e)
                          /\ UNCHANGED vars)

FairXSpec == XSpec /\ XFairness

-----------------------------------------------------------------------------
(* Properties *)

\* No lost wakeup: while a Wait on an exec blocks on an open channel, the exec
\* has not exited and lists the channel. (exec.go waitExec, markExecExited)
NoLostExecWakeup ==
  \A q \in XReqs :
    xreq[q].pc = "waiting" /\ q \notin xwoken =>
      /\ es[xreq[q].exec].status \in {"CREATED", "RUNNING"}
      /\ q \in es[xreq[q].exec].waiters

\* Every Wait answer and the TaskExit event of an exec carry the code its
\* command returned. (exec.go waitExec, markExecExited)
ExecExitAgreement ==
  /\ \A q \in XReqs : xreq[q].pc = "record" =>
       /\ es[xreq[q].exec].status = "STOPPED"
       /\ runner[xreq[q].exec].code = xreq[q].code
  /\ \A e \in Execs, c \in GuestCodes : <<e, c>> \in published =>
       /\ es[e].status = "STOPPED"
       /\ es[e].exitStatus = c

\* An exec does not outlive its sandbox: once that is stopped or dead, the exec
\* gets its exit record, also when it was started after the stop, provided
\* containerd ends up reading its output. (exec.go startExec)
ExecEndsWithSandbox ==
  \A e \in Execs, i \in Insts :
    <>[](e \in readers) =>
      (/\ runner[e].pc \in {"open", "exec", "mark"}
       /\ runner[e].inst = i /\ sandbox[i] # "up")
        ~> (es[e].status = "STOPPED" \/ down)

\* Wait on an exec returns once the exec has exited. (exec.go waitExec)
ExecWaitReturns ==
  \A q \in XReqs, e \in Execs :
    xreq[q].pc = "waiting" /\ xreq[q].exec = e /\ es[e].status = "STOPPED"
      ~> xreq[q].pc # "waiting" \/ down
=============================================================================
