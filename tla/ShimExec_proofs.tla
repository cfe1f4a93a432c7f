---------------------------- MODULE ShimExec_proofs ----------------------------
(***************************************************************************)
(* Exec processes (ShimExec), for any number of tasks, execs and RPCs and  *)
(* whatever the clients do.  What is inductive ties three places together: *)
(* the execState, the one goroutine that runs it, and the RPCs that wait.  *)
(***************************************************************************)
EXTENDS ShimExec, ShimTask_proofs

\* The goroutine of an exec is where the exec's status says, and its exit code
\* is the one on record.
RunnerFits ==
  \A e \in Execs :
    /\ runner[e].pc = "none" <=> es[e].status \in {"NONE", "CREATED"}
    /\ runner[e].pc \in {"open", "exec", "mark"} <=> es[e].status = "RUNNING"
    /\ es[e].status = "STOPPED" => es[e].exitStatus = runner[e].code

\* An RPC that waits or answered with a record knows the exec it is about.
ExecKnown == \A q \in XReqs : xreq[q].pc \in {"waiting", "record"} => xreq[q].exec \in Execs

\* A waiter of an exec is a Wait on it or one that has returned, and a waiter is
\* woken by the exit only.
ExecWaitersWait ==
  /\ \A e \in Execs : \A q \in es[e].waiters :
       /\ xreq[q].pc # "new"
       /\ xreq[q].pc = "waiting" => xreq[q].exec = e
  /\ \A q \in xwoken :
       /\ xreq[q].pc # "new"
       /\ xreq[q].pc = "waiting" => es[xreq[q].exec].status = "STOPPED"

ExecInv == /\ RunnerFits
           /\ ExecKnown
           /\ ExecWaitersWait
           /\ NoLostExecWakeup
           /\ ExecExitAgreement

-----------------------------------------------------------------------------
(* The tasks *)

\* No exec RPC touches a task: what is proved of the task service holds with
\* execs as well. (exec.go)
LEMMA TasksAsBefore == XSpec => Spec
<1>1. XInit => Init
  BY DEF XInit
<1>2. [XNext]_<<vars, xvars>> => [Next]_vars
  BY DEF XNext
<1> QED
  BY <1>1, <1>2, PTL DEF XSpec, Spec

\* In particular the table names instances.
LEMMA TasksTyped == XSpec => []TypeOK
  BY TasksAsBefore, TypeCorrect, PTL

-----------------------------------------------------------------------------
(* Type correctness *)

\* The exit codes there are at any time.
LEMMA GuestCodeValues == 0 \in GuestCodes /\ 255 \in GuestCodes
  BY DEF GuestCodes

\* The program points of an RPC that names an exec.
XPCs == {"new", "waiting", "done", "record"}

\* An RPC that returns, with a record or without.
LEMMA XReturnType ==
  ASSUME XTypeOK, NEW q \in XReqs,
         XReturn(q) \/ \E e \in Execs, c \in GuestCodes : XReturnRecord(q, e, c)
  PROVE  xreq' \in [XReqs -> XRequest]
<1>1. CASE XReturn(q)
  <2> DEFINE n == [NewXReq EXCEPT !.pc = "done"]
  <2>1. n \in XRequest
    BY GuestCodeValues DEF NewXReq, XRequest
  <2> QED
    BY <1>1, <2>1 DEF XTypeOK, XReturn
<1>2. ASSUME NEW e \in Execs, NEW c \in GuestCodes, XReturnRecord(q, e, c)
      PROVE  xreq' \in [XReqs -> XRequest]
  <2> DEFINE n == [NewXReq EXCEPT !.pc = "record", !.exec = e, !.code = c]
  <2>1. n \in XRequest
    BY DEF NewXReq, XRequest
  <2> QED
    BY <1>2, <2>1 DEF XTypeOK, XReturnRecord
<1> QED
  BY <1>1, <1>2

\* The step of an RPC keeps the types.
LEMMA XCallType ==
  ASSUME TypeOK, XTypeOK, NEW q \in XReqs, XCall(q) \/ WaitExecWakes(q) \/ WaitExecCancelled(q),
         ExecKnown
  PROVE  XTypeOK'
<1>t. /\ tasks \in [TaskIds -> Insts \cup {NoInst}]
      /\ execs \in [Insts -> [ExecIds -> Execs \cup {NoExec}]]
      /\ es \in [Execs -> ExecState]
      /\ \A e \in Execs : es[e].exitStatus \in GuestCodes /\ es[e].waiters \subseteq XReqs
  BY DEF TypeOK, XTypeOK, ExecState
<1>n. \A id \in TaskIds, x \in ExecIds :
        /\ Named(id, x) \in Execs \cup {NoExec}
        /\ Named(id, x) # NoExec => tasks[id] \in Insts /\ Named(id, x) \in Execs
        /\ ExecStatus(Named(id, x)) # "NONE" => Named(id, x) # NoExec
  BY <1>t DEF Named, ExecStatus
<1>1. ASSUME NEW id \in TaskIds, NEW x \in ExecIds, Exec(q, id, x) PROVE XTypeOK'
  <2>1. xreq' \in [XReqs -> XRequest]
    BY <1>1, XReturnType DEF Exec
  <2>2. es' \in [Execs -> ExecState]
    <3>1. ASSUME NEW e \in Execs, es' = [es EXCEPT ![e].status = "CREATED"]
          PROVE  es' \in [Execs -> ExecState]
      <4> DEFINE n == [es[e] EXCEPT !.status = "CREATED"]
      <4>1. n \in ExecState
        BY <1>t DEF ExecState, Statuses
      <4> QED
        BY <1>t, <3>1, <4>1
    <3> QED
      BY <1>1, <1>t, <3>1 DEF Exec
  <2>3. execs' \in [Insts -> [ExecIds -> Execs \cup {NoExec}]]
    BY <1>1, <1>t DEF Exec
  <2> QED
    BY <1>1, <2>1, <2>2, <2>3 DEF Exec, XTypeOK
<1>2. ASSUME NEW id \in TaskIds, NEW x \in ExecIds, StartExec(q, id, x) PROVE XTypeOK'
  <2> DEFINE e == Named(id, x)
  <2>1. xreq' \in [XReqs -> XRequest]
    BY <1>2, XReturnType DEF StartExec
  <2>2. CASE UNCHANGED <<es, runner>>
    BY <1>2, <2>1, <2>2 DEF StartExec, XTypeOK
  <2>3. CASE /\ ExecStatus(e) = "CREATED"
             /\ es' = [es EXCEPT ![e].status = "RUNNING"]
             /\ runner' = [runner EXCEPT ![e].pc = "open", ![e].inst = tasks[id]]
    <3>1. e \in Execs /\ tasks[id] \in Insts
      BY <1>n, <2>3
    <3>2. es' \in [Execs -> ExecState]
      <4> DEFINE n == [es[e] EXCEPT !.status = "RUNNING"]
      <4>1. n \in ExecState
        BY <1>t, <3>1 DEF ExecState, Statuses
      <4> QED
        BY <1>t, <2>3, <3>1, <4>1
    <3>3. runner' \in [Execs -> Runner]
      <4> DEFINE n == [runner[e] EXCEPT !.pc = "open", !.inst = tasks[id]]
      <4>1. n \in Runner
        BY <3>1 DEF XTypeOK, Runner
      <4>2. runner' = [runner EXCEPT ![e] = n]
        BY <2>3, <3>1 DEF XTypeOK, Runner
      <4> QED
        BY <4>1, <4>2 DEF XTypeOK
    <3> QED
      BY <1>2, <2>1, <3>2, <3>3 DEF StartExec, XTypeOK
  <2> QED
    BY <1>2, <2>2, <2>3 DEF StartExec
<1>3. ASSUME NEW id \in TaskIds, NEW x \in ExecIds, WaitExec(q, id, x) PROVE XTypeOK'
  <2> DEFINE e == Named(id, x)
  <2>1. CASE XReturn(q) /\ UNCHANGED es
    BY <1>3, <2>1, XReturnType DEF WaitExec, XTypeOK
  <2>2. CASE /\ ExecStatus(e) = "STOPPED" /\ UNCHANGED es
             /\ XReturnRecord(q, e, es[e].exitStatus)
    <3>1. e \in Execs /\ es[e].exitStatus \in GuestCodes
      BY <1>n, <1>t, <2>2
    <3> QED
      BY <1>3, <2>2, <3>1, XReturnType DEF WaitExec, XTypeOK
  <2>3. CASE /\ ExecStatus(e) \in {"CREATED", "RUNNING"}
             /\ es' = [es EXCEPT ![e].waiters = @ \cup {q}]
             /\ xreq' = [xreq EXCEPT ![q] = [NewXReq EXCEPT !.pc = "waiting", !.exec = e,
                                                            !.inst = tasks[id]]]
    <3>1. e \in Execs /\ tasks[id] \in Insts
      BY <1>n, <2>3
    <3>2. es' \in [Execs -> ExecState]
      <4> DEFINE n == [es[e] EXCEPT !.waiters = @ \cup {q}]
      <4>1. n \in ExecState
        BY <1>t, <3>1 DEF ExecState
      <4> QED
        BY <1>t, <2>3, <3>1, <4>1
    <3>3. xreq' \in [XReqs -> XRequest]
      BY <2>3, <3>1, GuestCodeValues DEF XTypeOK, NewXReq, XRequest
    <3> QED
      BY <1>3, <3>2, <3>3 DEF WaitExec, XTypeOK
  <2> QED
    BY <1>3, <2>1, <2>2, <2>3 DEF WaitExec
<1>4. ASSUME NEW id \in TaskIds, NEW x \in ExecIds, DeleteExec(q, id, x) PROVE XTypeOK'
  <2>1. xreq' \in [XReqs -> XRequest]
    BY <1>4, XReturnType DEF DeleteExec
  <2>2. execs' \in [Insts -> [ExecIds -> Execs \cup {NoExec}]]
    <3> DEFINE n == [execs[tasks[id]] EXCEPT ![x] = NoExec]
    <3>1. tasks[id] \in Insts => n \in [ExecIds -> Execs \cup {NoExec}]
      BY <1>t
    <3>2. execs' = execs \/ (tasks[id] \in Insts /\ execs' = [execs EXCEPT ![tasks[id]] = n])
      BY <1>4, <1>n, <1>t DEF DeleteExec
    <3> QED
      BY <1>t, <3>1, <3>2
  <2> QED
    BY <1>4, <2>1, <2>2 DEF DeleteExec, XTypeOK
<1>5. CASE WaitExecWakes(q)
  <2>1. xreq[q].exec \in Execs
    BY <1>5 DEF WaitExecWakes, ExecKnown
  <2> QED
    BY <1>5, <1>t, <2>1, XReturnType DEF WaitExecWakes, XTypeOK
<1>6. CASE WaitExecCancelled(q)
  BY <1>6, XReturnType DEF WaitExecCancelled, XTypeOK
<1> QED
  BY <1>1, <1>2, <1>3, <1>4, <1>5, <1>6 DEF XCall

\* The goroutines when the guest has answered goroutine e with code c.
GuestAnswered(e, c) == [runner EXCEPT ![e].pc = "mark", ![e].code = c]

\* The answer of the guest leaves a goroutine that has something to mark.
\* (exec.go startExec)
LEMMA GuestTypes ==
  ASSUME XTypeOK, NEW e \in Execs, NEW c \in GuestCodes
  PROVE  GuestAnswered(e, c) \in [Execs -> Runner]
<1> DEFINE n == [runner[e] EXCEPT !.pc = "mark", !.code = c]
<1>1. n \in Runner
  BY DEF XTypeOK, Runner
<1>2. GuestAnswered(e, c) = [runner EXCEPT ![e] = n]
  BY DEF XTypeOK, Runner, GuestAnswered
<1> HIDE DEF n
<1> QED
  BY <1>1, <1>2 DEF XTypeOK

\* So does the step of a goroutine.
LEMMA XRunType ==
  ASSUME XTypeOK, NEW e \in Execs, XRun(e) \/ ReaderChanges(e)
  PROVE  XTypeOK'
<1>t. /\ es \in [Execs -> ExecState]
      /\ runner[e].code \in GuestCodes
      /\ es[e].waiters \subseteq XReqs
  BY DEF XTypeOK, ExecState, Runner
<1>1. CASE GuestReturns(e)
  <2>1. PICK c \in IF sandbox[runner[e].inst] = "up" THEN GuestCodes ELSE {255} :
          runner' = GuestAnswered(e, c)
    BY <1>1 DEF GuestReturns, GuestAnswered
  <2>c. c \in GuestCodes
    BY GuestCodeValues
  <2>2. runner' \in [Execs -> Runner]
    BY <2>1, <2>c, GuestTypes
  <2> QED
    BY <1>1, <2>2 DEF GuestReturns, XTypeOK
<1>2. CASE MarkExecExited(e)
  <2>1. es' \in [Execs -> ExecState]
    BY <1>2, <1>t DEF MarkExecExited, ExecState, Statuses
  <2>2. runner' \in [Execs -> Runner]
    BY <1>2 DEF MarkExecExited, XTypeOK, Runner
  <2> QED
    BY <1>2, <1>t, <2>1, <2>2 DEF MarkExecExited, XTypeOK
<1>3. CASE PublishExecExit(e)
  <2>1. runner' \in [Execs -> Runner]
    BY <1>3 DEF PublishExecExit, XTypeOK, Runner
  <2>2. published' \in SUBSET (Execs \X GuestCodes)
    BY <1>3, <1>t DEF PublishExecExit, XTypeOK
  <2> QED
    BY <1>3, <2>1, <2>2 DEF PublishExecExit, XTypeOK
<1>4. CASE OpenOutput(e)
  <2>1. runner' \in [Execs -> Runner]
    BY <1>4 DEF OpenOutput, XTypeOK, Runner
  <2> QED
    BY <1>4, <2>1 DEF OpenOutput, XTypeOK
<1>5. CASE ReaderChanges(e)
  BY <1>5 DEF ReaderChanges, XTypeOK
<1> QED
  BY <1>1, <1>2, <1>3, <1>4, <1>5 DEF XRun

-----------------------------------------------------------------------------
(* What is inductive *)

\* RPC q moves, and no other that names an exec does.
XMoves(q, from, to) ==
  /\ xreq[q].pc = from /\ xreq'[q].pc = to
  /\ \A p \in XReqs : p # q => xreq'[p] = xreq[p]

\* Exec e becomes this, and no other exec changes.
EBecomes(e, status, exitStatus, waiters) ==
  /\ es'[e].status = status
  /\ es'[e].exitStatus = exitStatus
  /\ es'[e].waiters = waiters
  /\ \A d \in Execs : d # e => es'[d] = es[d]

\* The goroutine of exec e goes to this point, and no other does.
RMoves(e, pc, code) ==
  /\ runner'[e].pc = pc
  /\ runner'[e].code = code
  /\ \A d \in Execs : d # e => runner'[d] = runner[d]

\* An RPC that returns without a record.
Leaves(q) == XMoves(q, "new", "done") \/ XMoves(q, "waiting", "done")

\* The step of an RPC is one of these. (exec.go)
XCallKind(q) ==
  /\ UNCHANGED <<xwoken, published>>
  /\ \/ Leaves(q) /\ UNCHANGED <<es, runner>>
     \/ \E e \in Execs :
          \/ /\ Leaves(q)
             /\ es[e].status = "NONE"
             /\ EBecomes(e, "CREATED", es[e].exitStatus, es[e].waiters)
             /\ UNCHANGED runner
          \/ /\ Leaves(q)
             /\ es[e].status = "CREATED"
             /\ EBecomes(e, "RUNNING", es[e].exitStatus, es[e].waiters)
             /\ RMoves(e, "open", runner[e].code)
          \/ /\ XMoves(q, "new", "waiting")
             /\ xreq'[q].exec = e
             /\ es[e].status \in {"CREATED", "RUNNING"}
             /\ EBecomes(e, es[e].status, es[e].exitStatus, es[e].waiters \cup {q})
             /\ UNCHANGED runner
          \/ /\ \/ XMoves(q, "new", "record") /\ es[e].status = "STOPPED"
                \/ XMoves(q, "waiting", "record") /\ q \in xwoken /\ xreq[q].exec = e
             /\ xreq'[q].exec = e
             /\ xreq'[q].code = es[e].exitStatus
             /\ UNCHANGED <<es, runner>>

\* The step of a goroutine is one of these. (exec.go startExec, markExecExited)
XRunKind(e) ==
  /\ UNCHANGED xreq
  /\ \/ /\ runner[e].pc = "open"
        /\ RMoves(e, "exec", runner[e].code)
        /\ UNCHANGED <<es, xwoken, published>>
     \/ /\ runner[e].pc = "exec"
        /\ \E c \in GuestCodes : RMoves(e, "mark", c)
        /\ UNCHANGED <<es, xwoken, published>>
     \/ /\ runner[e].pc = "mark"
        /\ EBecomes(e, "STOPPED", runner[e].code, {})
        /\ RMoves(e, "publish", runner[e].code)
        /\ xwoken' = xwoken \cup es[e].waiters
        /\ UNCHANGED published
     \/ /\ runner[e].pc = "publish"
        /\ RMoves(e, "ended", runner[e].code)
        /\ published' = published \/ published' = published \cup {<<e, runner[e].code>>}
        /\ UNCHANGED <<es, xwoken>>

\* What an RPC leaves behind when it returns.
LEMMA XReturnMoves ==
  ASSUME XTypeOK, NEW q \in XReqs, XReturn(q), xreq[q].pc \in {"new", "waiting"}
  PROVE  Leaves(q)
  BY DEF XTypeOK, XReturn, NewXReq, Leaves, XMoves

\* ... with a record.
LEMMA XRecordMoves ==
  ASSUME XTypeOK, NEW q \in XReqs, NEW e, NEW c, XReturnRecord(q, e, c)
  PROVE  XMoves(q, xreq[q].pc, "record") /\ xreq'[q].exec = e /\ xreq'[q].code = c
  BY DEF XTypeOK, XReturnRecord, NewXReq, XMoves

\* Every step of an RPC is of one of the kinds.
LEMMA XCallIsKind ==
  ASSUME TypeOK, XTypeOK, ExecKnown, NEW q \in XReqs,
         XCall(q) \/ WaitExecWakes(q) \/ WaitExecCancelled(q)
  PROVE  XCallKind(q)
<1>t. /\ tasks \in [TaskIds -> Insts \cup {NoInst}]
      /\ execs \in [Insts -> [ExecIds -> Execs \cup {NoExec}]]
      /\ es \in [Execs -> ExecState]
      /\ runner \in [Execs -> Runner]
      /\ xreq \in [XReqs -> XRequest]
  BY DEF TypeOK, XTypeOK
<1>n. \A id \in TaskIds, x \in ExecIds :
        ExecStatus(Named(id, x)) # "NONE" =>
          /\ Named(id, x) \in Execs
          /\ ExecStatus(Named(id, x)) = es[Named(id, x)].status
  BY <1>t DEF Named, ExecStatus
<1>a. XArrives(q) => xreq[q].pc = "new"
  BY DEF XArrives
<1>1. ASSUME NEW id \in TaskIds, NEW x \in ExecIds, Exec(q, id, x) PROVE XCallKind(q)
  <2>1. Leaves(q) /\ UNCHANGED <<runner, xwoken, published>>
    BY <1>1, <1>a, XReturnMoves DEF Exec
  <2>2. \/ UNCHANGED es
        \/ \E e \in Execs : es[e].status = "NONE" /\ es' = [es EXCEPT ![e].status = "CREATED"]
    BY <1>1 DEF Exec
  <2>3. ASSUME NEW e \in Execs, es' = [es EXCEPT ![e].status = "CREATED"]
        PROVE  EBecomes(e, "CREATED", es[e].exitStatus, es[e].waiters)
    BY <1>t, <2>3 DEF EBecomes, ExecState
  <2> QED
    BY <2>1, <2>2, <2>3 DEF XCallKind
<1>2. ASSUME NEW id \in TaskIds, NEW x \in ExecIds, StartExec(q, id, x) PROVE XCallKind(q)
  <2> DEFINE e == Named(id, x)
  <2>1. Leaves(q) /\ UNCHANGED <<xwoken, published>>
    BY <1>2, <1>a, XReturnMoves DEF StartExec
  <2>2. CASE UNCHANGED <<es, runner>>
    BY <2>1, <2>2 DEF XCallKind
  <2>3. CASE /\ ExecStatus(e) = "CREATED"
             /\ es' = [es EXCEPT ![e].status = "RUNNING"]
             /\ runner' = [runner EXCEPT ![e].pc = "open", ![e].inst = tasks[id]]
    <3>1. e \in Execs /\ es[e].status = "CREATED"
      BY <1>n, <2>3
    <3>2. EBecomes(e, "RUNNING", es[e].exitStatus, es[e].waiters)
      BY <1>t, <2>3, <3>1 DEF EBecomes, ExecState
    <3>3. RMoves(e, "open", runner[e].code)
      BY <1>t, <2>3, <3>1 DEF RMoves, Runner
    <3> HIDE DEF e
    <3> QED
      BY <2>1, <3>1, <3>2, <3>3 DEF XCallKind
  <2> QED
    BY <1>2, <2>2, <2>3 DEF StartExec
<1>3. ASSUME NEW id \in TaskIds, NEW x \in ExecIds, WaitExec(q, id, x) PROVE XCallKind(q)
  <2> DEFINE e == Named(id, x)
  <2>0. xreq[q].pc = "new" /\ UNCHANGED <<runner, xwoken, published>>
    BY <1>3, <1>a DEF WaitExec
  <2>1. CASE XReturn(q) /\ UNCHANGED es
    BY <2>0, <2>1, XReturnMoves DEF XCallKind
  <2>2. CASE /\ ExecStatus(e) = "STOPPED" /\ UNCHANGED es
             /\ XReturnRecord(q, e, es[e].exitStatus)
    <3>1. e \in Execs /\ es[e].status = "STOPPED"
      BY <1>n, <2>2
    <3>2. /\ XMoves(q, "new", "record")
          /\ xreq'[q].exec = e /\ xreq'[q].code = es[e].exitStatus
      BY <2>0, <2>2, XRecordMoves
    <3> HIDE DEF e
    <3> QED
      BY <2>0, <2>2, <3>1, <3>2 DEF XCallKind
  <2>3. CASE /\ ExecStatus(e) \in {"CREATED", "RUNNING"}
             /\ es' = [es EXCEPT ![e].waiters = @ \cup {q}]
             /\ xreq' = [xreq EXCEPT ![q] = [NewXReq EXCEPT !.pc = "waiting", !.exec = e,
                                                            !.inst = tasks[id]]]
    <3>1. e \in Execs /\ es[e].status \in {"CREATED", "RUNNING"}
      BY <1>n, <2>3
    <3>2. EBecomes(e, es[e].status, es[e].exitStatus, es[e].waiters \cup {q})
      BY <1>t, <2>3, <3>1 DEF EBecomes, ExecState
    <3>3. XMoves(q, "new", "waiting") /\ xreq'[q].exec = e
      BY <1>t, <2>0, <2>3 DEF XMoves, NewXReq
    <3> HIDE DEF e
    <3> QED
      BY <2>0, <3>1, <3>2, <3>3 DEF XCallKind
  <2> QED
    BY <1>3, <2>1, <2>2, <2>3 DEF WaitExec
<1>4. ASSUME NEW id \in TaskIds, NEW x \in ExecIds, DeleteExec(q, id, x) PROVE XCallKind(q)
  BY <1>4, <1>a, XReturnMoves DEF DeleteExec, XCallKind
<1>5. CASE WaitExecWakes(q)
  <2>1. /\ xreq[q].pc = "waiting" /\ q \in xwoken /\ xreq[q].exec \in Execs
        /\ UNCHANGED <<es, runner, xwoken, published>>
    BY <1>5 DEF WaitExecWakes, ExecKnown
  <2>2. PICK e \in Execs : e = xreq[q].exec
    BY <2>1
  <2>3. /\ XMoves(q, "waiting", "record")
        /\ xreq'[q].exec = e /\ xreq'[q].code = es[e].exitStatus
    BY <1>5, <2>1, <2>2, XRecordMoves DEF WaitExecWakes
  <2> QED
    BY <2>1, <2>2, <2>3 DEF XCallKind
<1>6. CASE WaitExecCancelled(q)
  BY <1>6, XReturnMoves DEF WaitExecCancelled, XCallKind
<1> QED
  BY <1>1, <1>2, <1>3, <1>4, <1>5, <1>6 DEF XCall

\* Every step of a goroutine is of one of the kinds.
LEMMA XRunIsKind ==
  ASSUME XTypeOK, NEW e \in Execs, XRun(e)
  PROVE  XRunKind(e)
<1>t. es \in [Execs -> ExecState] /\ runner \in [Execs -> Runner]
  BY DEF XTypeOK
<1>1. CASE GuestReturns(e)
  <2>1. PICK d \in IF sandbox[runner[e].inst] = "up" THEN GuestCodes ELSE {255} :
          runner' = [runner EXCEPT ![e].pc = "mark", ![e].code = d]
    BY <1>1 DEF GuestReturns
  <2>2. d \in GuestCodes
    BY GuestCodeValues
  <2>3. RMoves(e, "mark", d)
    BY <1>t, <2>1 DEF RMoves, Runner
  <2> QED
    BY <1>1, <2>2, <2>3 DEF GuestReturns, XRunKind
<1>2. CASE MarkExecExited(e)
  <2>1. EBecomes(e, "STOPPED", runner[e].code, {})
    BY <1>2, <1>t DEF MarkExecExited, EBecomes
  <2>2. RMoves(e, "publish", runner[e].code)
    BY <1>2, <1>t DEF MarkExecExited, RMoves, Runner
  <2> QED
    BY <1>2, <2>1, <2>2 DEF MarkExecExited, XRunKind
<1>3. CASE PublishExecExit(e)
  <2>1. RMoves(e, "ended", runner[e].code)
    BY <1>3, <1>t DEF PublishExecExit, RMoves, Runner
  <2> QED
    BY <1>3, <2>1 DEF PublishExecExit, XRunKind
<1>4. CASE OpenOutput(e)
  <2>1. RMoves(e, "exec", runner[e].code)
    BY <1>4, <1>t DEF OpenOutput, RMoves, Runner
  <2> QED
    BY <1>4, <2>1 DEF OpenOutput, XRunKind
<1> QED
  BY <1>1, <1>2, <1>3, <1>4 DEF XRun

\* The step of an RPC keeps what is inductive. (exec.go waitExec, deleteExec)
LEMMA ExecCallStep ==
  ASSUME XTypeOK, XTypeOK', ExecInv, NEW q \in XReqs, XCallKind(q)
  PROVE  ExecInv'
<1>t. /\ \A e \in Execs : es[e].waiters \subseteq XReqs /\ es'[e].waiters \subseteq XReqs
      /\ xwoken \subseteq XReqs
  BY DEF XTypeOK, ExecState
<1>1. CASE Leaves(q) /\ UNCHANGED <<es, runner, xwoken, published>>
  BY <1>1, <1>t DEF ExecInv, RunnerFits, ExecKnown, ExecWaitersWait, NoLostExecWakeup,
                    ExecExitAgreement, Leaves, XMoves
<1>2. ASSUME NEW e \in Execs, Leaves(q), UNCHANGED <<xwoken, published>>,
             \/ /\ es[e].status = "NONE"
                /\ EBecomes(e, "CREATED", es[e].exitStatus, es[e].waiters)
                /\ UNCHANGED runner
             \/ /\ es[e].status = "CREATED"
                /\ EBecomes(e, "RUNNING", es[e].exitStatus, es[e].waiters)
                /\ RMoves(e, "open", runner[e].code)
      PROVE  ExecInv'
  <2>1. RunnerFits'
    BY <1>2 DEF ExecInv, RunnerFits, EBecomes, RMoves
  <2>2. ExecKnown'
    BY <1>2 DEF ExecInv, ExecKnown, Leaves, XMoves
  <2>3. ExecWaitersWait'
    BY <1>2, <1>t DEF ExecInv, ExecKnown, ExecWaitersWait, Leaves, XMoves, EBecomes
  <2>4. NoLostExecWakeup'
    BY <1>2 DEF ExecInv, ExecKnown, NoLostExecWakeup, Leaves, XMoves, EBecomes
  <2>5. ExecExitAgreement'
    BY <1>2 DEF ExecInv, ExecKnown, ExecExitAgreement, Leaves, XMoves, EBecomes, RMoves
  <2> QED
    BY <2>1, <2>2, <2>3, <2>4, <2>5 DEF ExecInv
<1>3. ASSUME NEW e \in Execs, UNCHANGED <<runner, xwoken, published>>,
             XMoves(q, "new", "waiting"), xreq'[q].exec = e,
             es[e].status \in {"CREATED", "RUNNING"},
             EBecomes(e, es[e].status, es[e].exitStatus, es[e].waiters \cup {q})
      PROVE  ExecInv'
  <2>1. RunnerFits' /\ ExecKnown'
    BY <1>3 DEF ExecInv, RunnerFits, ExecKnown, EBecomes, XMoves
  <2>2. ExecWaitersWait'
    BY <1>3, <1>t DEF ExecInv, ExecKnown, ExecWaitersWait, XMoves, EBecomes
  <2>3. NoLostExecWakeup'
    BY <1>3 DEF ExecInv, ExecKnown, NoLostExecWakeup, XMoves, EBecomes
  <2>4. ExecExitAgreement'
    BY <1>3 DEF ExecInv, ExecKnown, ExecExitAgreement, XMoves, EBecomes
  <2> QED
    BY <2>1, <2>2, <2>3, <2>4 DEF ExecInv
<1>4. ASSUME NEW e \in Execs, UNCHANGED <<es, runner, xwoken, published>>,
             \/ XMoves(q, "new", "record") /\ es[e].status = "STOPPED"
             \/ XMoves(q, "waiting", "record") /\ q \in xwoken /\ xreq[q].exec = e,
             xreq'[q].exec = e, xreq'[q].code = es[e].exitStatus
      PROVE  ExecInv'
  <2>1. es[e].status = "STOPPED"
    BY <1>4 DEF ExecInv, ExecWaitersWait, XMoves
  <2> QED
    BY <1>4, <1>t, <2>1 DEF ExecInv, RunnerFits, ExecKnown, ExecWaitersWait,
                            NoLostExecWakeup, ExecExitAgreement, XMoves
<1> QED
  BY <1>1, <1>2, <1>3, <1>4 DEF XCallKind

\* So does the step of a goroutine. (exec.go startExec, markExecExited)
LEMMA ExecRunStep ==
  ASSUME XTypeOK, XTypeOK', ExecInv, NEW e \in Execs, XRunKind(e)
  PROVE  ExecInv'
<1>t. \A d \in Execs : es[d].waiters \subseteq XReqs
  BY DEF XTypeOK, ExecState
<1>1. CASE /\ runner[e].pc = "exec"
           /\ \E c \in GuestCodes : RMoves(e, "mark", c)
           /\ UNCHANGED <<es, xreq, xwoken, published>>
  <2>1. es[e].status = "RUNNING"
    BY <1>1 DEF ExecInv, RunnerFits
  <2> QED
    BY <1>1, <2>1 DEF ExecInv, RunnerFits, ExecKnown, ExecWaitersWait, NoLostExecWakeup,
                      ExecExitAgreement, RMoves
<1>2. CASE /\ runner[e].pc = "mark"
           /\ EBecomes(e, "STOPPED", runner[e].code, {})
           /\ RMoves(e, "publish", runner[e].code)
           /\ xwoken' = xwoken \cup es[e].waiters
           /\ UNCHANGED <<xreq, published>>
  <2>1. es[e].status = "RUNNING"
    BY <1>2 DEF ExecInv, RunnerFits
  <2>2. RunnerFits' /\ ExecKnown'
    BY <1>2, <2>1 DEF ExecInv, RunnerFits, ExecKnown, EBecomes, RMoves
  <2>3. ExecWaitersWait'
    <3>1. \A d \in Execs : es'[d].waiters \subseteq es[d].waiters
      BY <1>2 DEF EBecomes
    <3>2. \A d \in Execs : d = e \/ es[d].status = "STOPPED" => es'[d].status = "STOPPED"
      BY <1>2 DEF EBecomes
    <3>3. ASSUME NEW p \in xwoken'
          PROVE  /\ xreq'[p].pc # "new"
                 /\ xreq'[p].pc = "waiting" => es'[xreq'[p].exec].status = "STOPPED"
      <4>1. p \in XReqs /\ xreq'[p] = xreq[p]
        BY <1>2, <1>t DEF XTypeOK
      <4>2. CASE p \in xwoken
        BY <3>2, <4>1, <4>2 DEF ExecInv, ExecKnown, ExecWaitersWait
      <4>3. CASE p \in es[e].waiters
        BY <3>2, <4>1, <4>3 DEF ExecInv, ExecWaitersWait
      <4> QED
        BY <1>2, <4>2, <4>3
    <3>4. \A d \in Execs : \A p \in es'[d].waiters :
            /\ xreq'[p].pc # "new"
            /\ xreq'[p].pc = "waiting" => xreq'[p].exec = d
      BY <1>2, <3>1 DEF ExecInv, ExecWaitersWait
    <3> QED
      BY <3>3, <3>4 DEF ExecWaitersWait
  <2>4. NoLostExecWakeup'
    BY <1>2 DEF ExecInv, ExecKnown, NoLostExecWakeup, EBecomes
  <2>5. ExecExitAgreement'
    BY <1>2, <2>1 DEF ExecInv, ExecKnown, ExecExitAgreement, EBecomes, RMoves
  <2> QED
    BY <2>2, <2>3, <2>4, <2>5 DEF ExecInv
<1>3. CASE /\ runner[e].pc = "publish"
           /\ RMoves(e, "ended", runner[e].code)
           /\ published' = published \/ published' = published \cup {<<e, runner[e].code>>}
           /\ UNCHANGED <<es, xreq, xwoken>>
  <2>1. es[e].status = "STOPPED" /\ es[e].exitStatus = runner[e].code
    <3>1. es[e].status \in Statuses
      BY DEF XTypeOK, ExecState
    <3> QED
      BY <1>3, <3>1 DEF ExecInv, RunnerFits, Statuses
  <2>2. RunnerFits'
    BY <1>3, <2>1 DEF ExecInv, RunnerFits, RMoves
  <2>3. ExecKnown' /\ ExecWaitersWait' /\ NoLostExecWakeup'
    BY <1>3 DEF ExecInv, ExecKnown, ExecWaitersWait, NoLostExecWakeup
  <2>4. ExecExitAgreement'
    BY <1>3, <2>1 DEF ExecInv, ExecKnown, ExecExitAgreement, RMoves
  <2> QED
    BY <2>2, <2>3, <2>4 DEF ExecInv
<1>4. CASE /\ runner[e].pc = "open"
           /\ RMoves(e, "exec", runner[e].code)
           /\ UNCHANGED <<es, xreq, xwoken, published>>
  BY <1>4 DEF ExecInv, RunnerFits, ExecKnown, ExecWaitersWait, NoLostExecWakeup,
              ExecExitAgreement, RMoves
<1> QED
  BY <1>1, <1>2, <1>3, <1>4 DEF XRunKind

\* No exec exists at first. (exec.go)
LEMMA ExecInit == XInit => XTypeOK /\ ExecInv
<1> SUFFICES ASSUME XInit PROVE XTypeOK /\ ExecInv
  OBVIOUS
<1>1. XTypeOK
  BY GuestCodeValues DEF XInit, XTypeOK, ExecState, Statuses, Runner, XRequest, NewXReq
<1>2. ExecInv
  BY DEF XInit, NewXReq, ExecInv, RunnerFits, ExecKnown, ExecWaitersWait, NoLostExecWakeup,
         ExecExitAgreement
<1> QED
  BY <1>1, <1>2

\* No step of a task or of an exec breaks it. (service.go, exec.go)
LEMMA ExecStep ==
  ASSUME TypeOK, XTypeOK, ExecInv, [XNext]_<<vars, xvars>>
  PROVE  XTypeOK' /\ ExecInv'
<1>1. CASE UNCHANGED xvars
  BY <1>1 DEF xvars, XTypeOK, ExecInv, RunnerFits, ExecKnown, ExecWaitersWait,
              NoLostExecWakeup, ExecExitAgreement
<1>2. ASSUME NEW q \in XReqs, XCall(q) \/ WaitExecWakes(q) \/ WaitExecCancelled(q)
      PROVE  XTypeOK' /\ ExecInv'
  BY <1>2, XCallType, XCallIsKind, ExecCallStep DEF ExecInv
<1>3. ASSUME NEW e \in Execs, XRun(e)
      PROVE  XTypeOK' /\ ExecInv'
  BY <1>3, XRunType, XRunIsKind, ExecRunStep
<1>4. ASSUME NEW e \in Execs, ReaderChanges(e)
      PROVE  XTypeOK' /\ ExecInv'
  <2>1. XTypeOK'
    BY <1>4, XRunType
  <2>2. ExecInv'
    BY <1>4 DEF ReaderChanges, ExecInv, RunnerFits, ExecKnown, ExecWaitersWait,
                NoLostExecWakeup, ExecExitAgreement
  <2> QED
    BY <2>1, <2>2
<1> QED
  BY <1>1, <1>2, <1>3, <1>4 DEF XNext, XStep

\* It always holds. (exec.go)
LEMMA ExecInvariant == XSpec => [](XTypeOK /\ ExecInv)
<1>1. TypeOK /\ XTypeOK /\ ExecInv /\ [XNext]_<<vars, xvars>> => XTypeOK' /\ ExecInv'
  BY ExecStep
<1> QED
  BY <1>1, ExecInit, TasksTyped, PTL DEF XSpec

\* The execs, their goroutines and the RPCs that name them keep their types.
\* (exec.go, every handler)
THEOREM ExecTypeCorrect == XSpec => []XTypeOK
  BY ExecInvariant, PTL

\* No Wait on an exec loses its wakeup, whatever the clients do. (exec.go
\* waitExec, markExecExited)
THEOREM ExecWakeupKept == XSpec => []NoLostExecWakeup
<1>1. ExecInv => NoLostExecWakeup
  BY DEF ExecInv
<1> QED
  BY <1>1, ExecInvariant, PTL

\* Every Wait answer and the TaskExit event of an exec carry the code that its
\* command returned. (exec.go waitExec, markExecExited)
THEOREM ExecOneExit == XSpec => []ExecExitAgreement
<1>1. ExecInv => ExecExitAgreement
  BY DEF ExecInv
<1> QED
  BY <1>1, ExecInvariant, PTL
===============================================================================
