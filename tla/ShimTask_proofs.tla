---------------------------- MODULE ShimTask_proofs ----------------------------
(***************************************************************************)
(* Proofs about ShimTask, for any number of task IDs, instances and RPCs.  *)
(*                                                                         *)
(* TypeInv says of every RPC what its locals are.  TaskInv holds for all   *)
(* clients: who may hold an instance, and what is known of it at each      *)
(* program point.  SerialInv adds what is true when the Deletes of one ID  *)
(* do not overlap: the ID still names the object such a Delete tears down. *)
(***************************************************************************)
EXTENDS ShimTask, TLAPS

\* The program points at which the RPC has a task object, or the sandbox of one.
Holding == {"insert", "undo", "pubCreate", "stop", "mark", "pubExit", "remove",
            "pubDelete", "waiting"}

\* An RPC that holds an instance knows which, and under which ID.
Known(q) == /\ q.pc = "boot" => q.id \in TaskIds
            /\ q.pc \in Holding => q.id \in TaskIds /\ q.inst \in Insts

LocalsKnown == \A r \in Reqs : Known(req[r])

TypeInv == TypeOK /\ LocalsKnown

-----------------------------------------------------------------------------
(* Type correctness *)

\* Publishing keeps the event lists well-formed. (events.go publish)
LEMMA PublishType ==
  ASSUME TypeOK, NEW id \in TaskIds, NEW i \in Insts, NEW c \in ExitCodes,
         NEW topic \in {"create", "start", "exit", "delete"},
         Publish(id, topic, i, c)
  PROVE  events' \in [TaskIds -> Seq(Event)]
<1> DEFINE ev == [topic |-> topic, inst |-> i, code |-> c]
<1>1. ev \in Event
  BY DEF Event
<1>2. CASE UNCHANGED events
  BY <1>2 DEF TypeOK
<1>3. CASE events' = [events EXCEPT ![id] = Append(@, ev)]
  <2>1. events \in [TaskIds -> Seq(Event)]
    BY DEF TypeOK
  <2>2. Append(events[id], ev) \in Seq(Event)
    BY <1>1, <2>1
  <2> QED
    BY <1>3, <2>1, <2>2
<1> QED
  BY <1>2, <1>3 DEF Publish

\* Code 0 is an exit code.
LEMMA ZeroCode == 0 \in ExitCodes
BY DEF ExitCodes

\* An RPC moves on when its record is replaced by a record that makes sense.
LEMMA ReqType ==
  ASSUME TypeInv, NEW r \in Reqs, NEW n \in Request, Known(n),
         req' = [req EXCEPT ![r] = n]
  PROVE  req' \in [Reqs -> Request] /\ LocalsKnown'
BY DEF TypeInv, TypeOK, LocalsKnown

\* Nothing else about an RPC changes when it only goes to another point.
LEMMA GotoType ==
  ASSUME TypeInv, NEW r \in Reqs, NEW pc \in PCs, Goto(r, pc),
         pc \in Holding => req[r].pc \in Holding, pc # "boot"
  PROVE  req' \in [Reqs -> Request] /\ LocalsKnown'
<1> DEFINE n == [req[r] EXCEPT !.pc = pc]
<1>1. n \in Request
  BY DEF TypeInv, TypeOK, Request
<1>2. Known(n)
  BY DEF TypeInv, TypeOK, LocalsKnown, Known, Request
<1> QED
  BY <1>1, <1>2, ReqType DEF Goto

\* An RPC that returns, with an exit record or without, leaves nothing behind.
LEMMA ReturnType ==
  ASSUME TypeInv, NEW r \in Reqs,
         Return(r) \/ \E i \in Insts, c \in ExitCodes : ReturnRecord(r, i, c)
  PROVE  req' \in [Reqs -> Request] /\ LocalsKnown'
<1>1. CASE Return(r)
  <2> DEFINE n == [NewReq EXCEPT !.pc = "done"]
  <2>1. n \in Request /\ Known(n)
    BY ZeroCode DEF NewReq, Request, PCs, Known, Holding
  <2> QED
    BY <1>1, <2>1, ReqType DEF Return
<1>2. ASSUME NEW i \in Insts, NEW c \in ExitCodes, ReturnRecord(r, i, c)
      PROVE  req' \in [Reqs -> Request] /\ LocalsKnown'
  <2> DEFINE n == [NewReq EXCEPT !.pc = "done", !.inst = i, !.code = c]
  <2>1. n \in Request /\ Known(n)
    BY DEF NewReq, Request, PCs, Known, Holding
  <2> QED
    BY <1>2, <2>1, ReqType DEF ReturnRecord
<1> QED
  BY <1>1, <1>2

\* A task object whose status changes stays well-formed.
LEMMA StatusType ==
  ASSUME TypeOK, NEW i \in Insts, NEW st \in Statuses,
         ts' = [ts EXCEPT ![i].status = st]
  PROVE  ts' \in [Insts -> TaskState]
<1> DEFINE t == [ts[i] EXCEPT !.status = st]
<1>1. t \in TaskState
  BY DEF TypeOK, TaskState
<1> QED
  BY <1>1 DEF TypeOK

\* The first step of an RPC keeps the types.
LEMMA CallType ==
  ASSUME TypeInv, NEW r \in Reqs, Call(r)
  PROVE  TypeInv'
<1> USE DEF TypeInv
<1>r. req[r] \in Request
  BY DEF TypeOK
<1>1. ASSUME NEW id \in TaskIds, Create(r, id)
      PROVE  TypeInv'
  <2> DEFINE n == [req[r] EXCEPT !.pc = "boot", !.op = "Create", !.id = id]
  <2>1. n \in Request /\ Known(n)
    BY <1>r DEF Request, PCs, Known, Holding
  <2>2. req' \in [Reqs -> Request] /\ LocalsKnown'
    BY <1>1, <2>1, ReqType, ReturnType DEF Create
  <2> QED
    BY <1>1, <2>2 DEF Create, TypeOK
<1>2. ASSUME NEW id \in TaskIds, Start(r, id)
      PROVE  TypeInv'
  <2>1. events' \in [TaskIds -> Seq(Event)]
    <3>1. CASE UNCHANGED events
      BY <3>1 DEF TypeOK
    <3>2. CASE tasks[id] # NoInst /\ Publish(id, "start", tasks[id], 0)
      BY <3>2, PublishType, ZeroCode DEF TypeOK
    <3> QED
      BY <1>2, <3>1, <3>2 DEF Start
  <2>2. ts' \in [Insts -> TaskState]
    BY <1>2, StatusType DEF Start, TypeOK, Statuses
  <2>3. req' \in [Reqs -> Request] /\ LocalsKnown'
    BY <1>2, ReturnType DEF Start
  <2> QED
    BY <1>2, <2>1, <2>2, <2>3 DEF Start, TypeOK
<1>3. ASSUME NEW id \in TaskIds, NEW op \in {"Kill", "Delete"}, NEW c \in ExitCodes,
             Lookup(r, id, op, c)
      PROVE  TypeInv'
  <2> DEFINE n == [pc |-> "stop", op |-> op, id |-> id, inst |-> tasks[id], code |-> c]
  <2>1. tasks[id] # NoInst => n \in Request /\ Known(n)
    BY DEF TypeOK, Request, PCs, Known, Holding
  <2>2. req' \in [Reqs -> Request] /\ LocalsKnown'
    BY <1>3, <2>1, ReqType, ReturnType DEF Lookup
  <2> QED
    BY <1>3, <2>2 DEF Lookup, TypeOK
<1>4. ASSUME NEW id \in TaskIds, Kill(r, id)
      PROVE  TypeInv'
  <2>1. PICK sig \in Signals : Lookup(r, id, "Kill", 128 + (IF sig = 0 THEN 9 ELSE sig))
    BY <1>4 DEF Kill
  <2>2. 128 + (IF sig = 0 THEN 9 ELSE sig) \in ExitCodes
    BY ConstantsAssumption DEF ExitCodes
  <2> QED
    BY <1>3, <2>1, <2>2
<1>5. ASSUME NEW id \in TaskIds, Delete(r, id)
      PROVE  TypeInv'
  BY <1>3, <1>5, ZeroCode DEF Delete
<1>6. ASSUME NEW id \in TaskIds, Wait(r, id)
      PROVE  TypeInv'
  <2> DEFINE n == [req[r] EXCEPT !.pc = "waiting", !.op = "Wait",
                                 !.id = id, !.inst = tasks[id]]
  <2>1. tasks[id] # NoInst => /\ tasks[id] \in Insts
                              /\ n \in Request
                              /\ Known(n)
                              /\ ts[tasks[id]].exitStatus \in ExitCodes
    BY <1>r DEF TypeOK, TaskState, Request, PCs, Known, Holding
  <2>2. req' \in [Reqs -> Request] /\ LocalsKnown'
    BY <1>6, <2>1, ReqType, ReturnType DEF Wait
  <2>3. ts' \in [Insts -> TaskState]
    <3> DEFINE t == [ts[tasks[id]] EXCEPT !.waiters = @ \cup {r}]
    <3>1. tasks[id] # NoInst => t \in TaskState
      BY <2>1 DEF TypeOK, TaskState
    <3> QED
      BY <1>6, <2>1, <3>1 DEF Wait, TypeOK
  <2> QED
    BY <1>6, <2>2, <2>3 DEF Wait, TypeOK
<1>7. CASE Shutdown(r)
  <2> DEFINE n == [req[r] EXCEPT !.pc = "shutdown", !.op = "Shutdown"]
  <2>1. n \in Request /\ Known(n)
    BY <1>r DEF Request, PCs, Known, Holding
  <2>2. req' \in [Reqs -> Request] /\ LocalsKnown'
    BY <1>7, <2>1, ReqType, ReturnType DEF Shutdown
  <2> QED
    BY <1>7, <2>2 DEF Shutdown, TypeOK
<1> QED
  BY <1>1, <1>2, <1>4, <1>5, <1>6, <1>7 DEF Call

\* So does every later step.
LEMMA ContinueType ==
  ASSUME TypeInv, NEW r \in Reqs, Continue(r) \/ WaitCancelled(r)
  PROVE  TypeInv'
<1> USE DEF TypeInv, At
<1>r. req[r] \in Request /\ Known(req[r]) /\ req[r].code \in ExitCodes
  BY DEF TypeOK, LocalsKnown, Request
<1>1. CASE Boot(r)
  <2>1. ASSUME NEW i \in Insts, req[r].pc = "boot",
               req' = [req EXCEPT ![r] = [@ EXCEPT !.pc = "insert", !.inst = i]]
        PROVE  req' \in [Reqs -> Request] /\ LocalsKnown'
    <3> DEFINE n == [req[r] EXCEPT !.pc = "insert", !.inst = i]
    <3>1. n \in Request /\ Known(n)
      BY <1>r, <2>1 DEF Request, PCs, Known, Holding
    <3> QED
      BY <2>1, <3>1, ReqType
  <2>2. req' \in [Reqs -> Request] /\ LocalsKnown'
    BY <1>1, <2>1, ReturnType DEF Boot
  <2> QED
    BY <1>1, <2>2 DEF Boot, TypeOK
<1>2. CASE InsertTask(r)
  <2>1. req' \in [Reqs -> Request] /\ LocalsKnown'
    BY <1>2, GotoType DEF InsertTask, PCs, Holding
  <2>2. req[r].inst \in Insts /\ req[r].id \in TaskIds
    BY <1>r, <1>2 DEF InsertTask, Known, Holding
  <2>3. tasks' \in [TaskIds -> Insts \cup {NoInst}]
    BY <1>2, <2>2 DEF InsertTask, TypeOK
  <2>4. ts' \in [Insts -> TaskState]
    BY <1>2, <2>2, StatusType DEF InsertTask, TypeOK, Statuses
  <2> QED
    BY <1>2, <2>1, <2>3, <2>4 DEF InsertTask, TypeOK
<1>3. CASE StopLoser(r)
  BY <1>3, ReturnType DEF StopLoser, TypeOK
<1>4. CASE PublishCreate(r)
  <2>1. req[r].inst \in Insts /\ req[r].id \in TaskIds
    BY <1>r, <1>4 DEF PublishCreate, Known, Holding
  <2>2. events' \in [TaskIds -> Seq(Event)]
    BY <1>4, <2>1, PublishType, ZeroCode DEF PublishCreate
  <2> QED
    BY <1>4, <2>2, ReturnType DEF PublishCreate, TypeOK
<1>5. CASE StopSandbox(r)
  <2>1. req' \in [Reqs -> Request] /\ LocalsKnown'
    BY <1>5, GotoType DEF StopSandbox, PCs, Holding
  <2> QED
    BY <1>5, <2>1 DEF StopSandbox, TypeOK
<1>6. ASSUME AfterMark(r), req[r].pc \in Holding
      PROVE  req' \in [Reqs -> Request] /\ LocalsKnown'
  BY <1>6, GotoType, ReturnType DEF AfterMark, PCs, Holding
<1>7. CASE MarkExited(r)
  <2>1. req' \in [Reqs -> Request] /\ LocalsKnown'
    BY <1>6, <1>7, GotoType DEF MarkExited, RecordExit, PCs, Holding
  <2>2. ts' \in [Insts -> TaskState]
    BY <1>7, <1>r DEF MarkExited, RecordExit, TypeOK, TaskState, Statuses
  <2>3. woken' \in SUBSET Reqs
    BY <1>7, <1>r DEF MarkExited, RecordExit, Wake, TypeOK, TaskState, Known, Holding
  <2> QED
    BY <1>7, <2>1, <2>2, <2>3 DEF MarkExited, TypeOK
<1>8. CASE PublishExit(r)
  <2>1. req' \in [Reqs -> Request] /\ LocalsKnown'
    BY <1>6, <1>8 DEF PublishExit, Holding
  <2>2. req[r].inst \in Insts /\ req[r].id \in TaskIds
    BY <1>r, <1>8 DEF PublishExit, Known, Holding
  <2>3. events' \in [TaskIds -> Seq(Event)]
    BY <1>8, <1>r, <2>2, PublishType DEF PublishExit
  <2> QED
    BY <1>8, <2>1, <2>3 DEF PublishExit, TypeOK
<1>9. CASE RemoveTask(r)
  <2> DEFINE n == [req[r] EXCEPT !.pc = "pubDelete",
                                 !.code = ts[req[r].inst].exitStatus]
  <2>1. req[r].inst \in Insts /\ req[r].id \in TaskIds
    BY <1>r, <1>9 DEF RemoveTask, Known, Holding
  <2>2. ts[req[r].inst].exitStatus \in ExitCodes
    BY <2>1 DEF TypeOK, TaskState
  <2>3. n \in Request /\ Known(n)
    BY <1>r, <2>1, <2>2 DEF Request, PCs, Known, Holding
  <2>4. req' \in [Reqs -> Request] /\ LocalsKnown'
    BY <1>9, <2>3, ReqType DEF RemoveTask
  <2>5. tasks' \in [TaskIds -> Insts \cup {NoInst}]
    BY <1>9 DEF RemoveTask, TypeOK
  <2> QED
    BY <1>9, <2>4, <2>5 DEF RemoveTask, TypeOK
<1>10. CASE PublishDelete(r)
  <2>1. req[r].inst \in Insts /\ req[r].id \in TaskIds
    BY <1>r, <1>10 DEF PublishDelete, Known, Holding
  <2>2. events' \in [TaskIds -> Seq(Event)]
    BY <1>10, <1>r, <2>1, PublishType DEF PublishDelete
  <2>3. req' \in [Reqs -> Request] /\ LocalsKnown'
    BY <1>10, <1>r, <2>1, ReturnType DEF PublishDelete
  <2> QED
    BY <1>10, <2>2, <2>3 DEF PublishDelete, TypeOK
<1>11. CASE WaitWakes(r)
  <2>1. req[r].inst \in Insts
    BY <1>r, <1>11 DEF WaitWakes, Known, Holding
  <2>2. ts[req[r].inst].exitStatus \in ExitCodes
    BY <2>1 DEF TypeOK, TaskState
  <2>3. req' \in [Reqs -> Request] /\ LocalsKnown'
    BY <1>11, <2>1, <2>2, ReturnType DEF WaitWakes
  <2> QED
    BY <1>11, <2>3 DEF WaitWakes, TypeOK
<1>12. CASE EndServing(r)
  BY <1>12, ReturnType DEF EndServing, TypeOK
<1>13. CASE WaitCancelled(r)
  BY <1>13, ReturnType DEF WaitCancelled, TypeOK
<1> QED
  BY <1>1, <1>2, <1>3, <1>4, <1>5, <1>7, <1>8, <1>9, <1>10, <1>11, <1>12, <1>13
     DEF Continue

\* The service starts well-typed. (service.go NewService)
LEMMA TypeInit == Init => TypeInv
<1> SUFFICES ASSUME Init PROVE TypeInv
  OBVIOUS
<1>1. events \in [TaskIds -> Seq(Event)]
  BY DEF Init
<1>2. NewReq \in Request /\ Known(NewReq) /\ NoTask \in TaskState
  BY ZeroCode DEF NewReq, Request, PCs, Known, Holding, NoTask, TaskState, Statuses
<1> QED
  BY <1>1, <1>2 DEF Init, TypeInv, TypeOK, LocalsKnown

\* Every step of every handler keeps the types.
LEMMA TypeStep == TypeInv /\ [Next]_vars => TypeInv'
<1> SUFFICES ASSUME TypeInv, [Next]_vars PROVE TypeInv'
  OBVIOUS
<1>1. ASSUME NEW i \in Insts, SandboxDies(i) PROVE TypeInv'
  BY <1>1 DEF SandboxDies, TypeInv, TypeOK, LocalsKnown
<1>2. CASE UNCHANGED vars
  BY <1>2 DEF vars, TypeInv, TypeOK, LocalsKnown
<1> QED
  BY <1>1, <1>2, CallType, ContinueType DEF Next

\* The variables always have their types, and an RPC past its lookup always
\* knows the object it works on. (service.go, every handler)
THEOREM TypeCorrect == Spec => [](TypeOK /\ LocalsKnown)
<1> QED
  BY TypeInit, TypeStep, PTL DEF Spec, TypeInv

-----------------------------------------------------------------------------
(* For all clients *)

\* What is known of the instance an RPC holds, at each program point.
Point(q) ==
  /\ q.pc \in Holding => sandbox[q.inst] # "none"
  /\ q.pc \in {"insert", "undo"} =>
       ts[q.inst].status = "NONE" /\ sandbox[q.inst] \in {"up", "dead"}
  /\ q.pc \in Holding \ {"insert", "undo"} => ts[q.inst].status # "NONE"
  /\ q.pc \in {"mark", "pubExit", "remove"} => sandbox[q.inst] = "stopped"
  /\ q.pc \in {"pubExit", "remove", "pubDelete"} => ts[q.inst].status = "STOPPED"

\* Between the boot and the insert a sandbox belongs to one Create alone.
OneOwner ==
  \A r, q \in Reqs :
    /\ req[r].pc \in {"insert", "undo"}
    /\ req[q].pc \in {"insert", "undo"}
    /\ req[r].inst = req[q].inst
    => r = q

\* The table names task objects, and a sandbox without a boot has none.
Listed ==
  /\ \A id \in TaskIds : tasks[id] # NoInst => ts[tasks[id]].status # "NONE"
  /\ \A i \in Insts : sandbox[i] = "none" => ts[i].status = "NONE"

TaskInv == /\ \A r \in Reqs : Point(req[r])
           /\ OneOwner
           /\ Listed
           /\ StaleOnlyDuringTeardown

\* The step of RPC r leaves the other RPCs alone.
OnlyMoves(r) == \A q \in Reqs : q # r => req'[q] = req[q]

\* No task object appears, and none exits.
StatusKept ==
  \A i \in Insts : /\ ts'[i].status = "NONE" <=> ts[i].status = "NONE"
                   /\ ts'[i].status = "STOPPED" <=> ts[i].status = "STOPPED"

\* Most steps move one RPC to a point whose facts hold already, and at most
\* take an entry out of the table.
LEMMA LocalStep ==
  ASSUME TypeInv, TypeInv', TaskInv, NEW r \in Reqs, OnlyMoves(r), StatusKept,
         UNCHANGED sandbox,
         \A id \in TaskIds : tasks'[id] \in {tasks[id], NoInst},
         Point(req[r])',
         req'[r].pc \in {"insert", "undo"} =>
           req[r].pc \in {"insert", "undo"} /\ req'[r].inst = req[r].inst,
         req[r].pc = "mark" => ts[req[r].inst].status = "STOPPED"
  PROVE  TaskInv'
<1> USE DEF OnlyMoves, StatusKept
<1>t. /\ tasks \in [TaskIds -> Insts \cup {NoInst}]
      /\ \A id \in TaskIds : tasks[id] # NoInst => tasks[id] \in Insts
  BY DEF TypeInv, TypeOK
<1>1. \A q \in Reqs : Point(req[q])'
  <2> SUFFICES ASSUME NEW q \in Reqs PROVE Point(req[q])'
    OBVIOUS
  <2>1. CASE q = r
    BY <2>1 DEF Point
  <2>2. CASE q # r
    <3>1. Point(req[q]) /\ req'[q] = req[q]
      BY <2>2 DEF TaskInv
    <3>2. req[q].pc \in Holding => req[q].inst \in Insts
      BY DEF TypeInv, LocalsKnown, Known
    <3> QED
      BY <3>1, <3>2 DEF Point, Holding
  <2> QED
    BY <2>1, <2>2
<1>2. OneOwner'
  BY DEF TaskInv, OneOwner
<1>3. Listed'
  BY <1>t DEF TaskInv, Listed
<1>4. StaleOnlyDuringTeardown'
  BY <1>t, ConstantsAssumption DEF TaskInv, StaleOnlyDuringTeardown, Registered, At
<1> QED
  BY <1>1, <1>2, <1>3, <1>4 DEF TaskInv

\* The first step of an RPC.
LEMMA TaskCall ==
  ASSUME TypeInv, TypeInv', TaskInv, NEW r \in Reqs, Call(r)
  PROVE  TaskInv'
<1>t. /\ req \in [Reqs -> Request]
      /\ ts \in [Insts -> TaskState]
      /\ \A id \in TaskIds : tasks[id] # NoInst => tasks[id] \in Insts
  BY DEF TypeInv, TypeOK
<1>1. ASSUME Return(r)
      PROVE  OnlyMoves(r) /\ Point(req[r])' /\ req'[r].pc = "done"
  BY <1>t, <1>1 DEF Return, NewReq, OnlyMoves, Point, Holding
<1>2. ASSUME NEW i \in Insts, NEW c, ReturnRecord(r, i, c)
      PROVE  OnlyMoves(r) /\ Point(req[r])' /\ req'[r].pc = "done"
  BY <1>t, <1>2 DEF ReturnRecord, NewReq, OnlyMoves, Point, Holding
<1>p. req'[r].pc \notin Holding => Point(req[r])'
  BY DEF Point, Holding
<1>n. Arrives(r) => req[r].pc = "new"
  BY DEF Arrives, At
<1>3. ASSUME NEW id \in TaskIds, Create(r, id)
      PROVE  TaskInv'
  <2>1. OnlyMoves(r) /\ Point(req[r])' /\ req'[r].pc \in {"done", "boot"}
    <3>1. CASE Return(r)
      BY <1>1, <3>1
    <3>2. CASE ~Return(r)
      <4>1. OnlyMoves(r) /\ req'[r].pc = "boot"
        BY <1>t, <1>3, <3>2 DEF Create, OnlyMoves, Request
      <4> QED
        BY <1>p, <4>1 DEF Holding
    <3> QED
      BY <3>1, <3>2
  <2>2. StatusKept
    BY <1>3 DEF Create, StatusKept
  <2> QED
    BY <1>3, <1>n, <2>1, <2>2, LocalStep DEF Create
<1>4. ASSUME NEW id \in TaskIds, Start(r, id)
      PROVE  TaskInv'
  <2>1. StatusKept
    BY <1>t, <1>4 DEF Start, StatusKept, TaskState
  <2> QED
    BY <1>1, <1>4, <1>n, <2>1, LocalStep DEF Start
<1>5. ASSUME NEW id \in TaskIds, NEW op, NEW c, Lookup(r, id, op, c)
      PROVE  TaskInv'
  <2>1. OnlyMoves(r) /\ Point(req[r])' /\ req'[r].pc \in {"done", "stop"}
    <3>1. CASE Return(r)
      BY <1>1, <3>1
    <3>2. CASE ~Return(r)
      <4>1. tasks[id] \in Insts /\ sandbox[tasks[id]] # "none" /\ ts[tasks[id]].status # "NONE"
        BY <1>t, <1>5, <3>2 DEF Lookup, TaskInv, Listed
      <4> QED
        BY <1>t, <1>5, <3>2, <4>1 DEF Lookup, OnlyMoves, Point, Holding
    <3> QED
      BY <3>1, <3>2
  <2>2. StatusKept
    BY <1>5 DEF Lookup, StatusKept
  <2> QED
    BY <1>5, <1>n, <2>1, <2>2, LocalStep DEF Lookup
<1>6. ASSUME NEW id \in TaskIds, Wait(r, id)
      PROVE  TaskInv'
  <2>1. StatusKept
    BY <1>t, <1>6 DEF Wait, StatusKept, TaskState
  <2>2. OnlyMoves(r) /\ Point(req[r])' /\ req'[r].pc \in {"done", "waiting"}
    <3>1. CASE Return(r)
      BY <1>1, <3>1
    <3>2. CASE tasks[id] \in Insts /\ ReturnRecord(r, tasks[id], ts[tasks[id]].exitStatus)
      BY <1>2, <3>2
    <3>3. CASE /\ tasks[id] \in Insts
               /\ req' = [req EXCEPT ![r] = [@ EXCEPT !.pc = "waiting", !.op = "Wait",
                                                      !.id = id, !.inst = tasks[id]]]
      <4>1. /\ OnlyMoves(r)
            /\ req'[r].pc = "waiting"
            /\ req'[r].inst = tasks[id]
        BY <1>t, <3>3 DEF OnlyMoves, Request
      <4>2. sandbox[tasks[id]] # "none" /\ ts[tasks[id]].status # "NONE"
        BY <3>3, ConstantsAssumption DEF TaskInv, Listed
      <4>3. sandbox'[tasks[id]] # "none" /\ ts'[tasks[id]].status # "NONE"
        BY <1>6, <2>1, <3>3, <4>2 DEF Wait, StatusKept
      <4> QED
        BY <4>1, <4>3 DEF Point, Holding
    <3> QED
      BY <1>t, <1>6, <3>1, <3>2, <3>3 DEF Wait
  <2> QED
    BY <1>6, <1>n, <2>1, <2>2, LocalStep DEF Wait
<1>7. CASE Shutdown(r)
  <2>1. OnlyMoves(r) /\ Point(req[r])' /\ req'[r].pc \in {"done", "shutdown"}
    <3>1. CASE Return(r)
      BY <1>1, <3>1
    <3>2. CASE ~Return(r)
      <4>1. OnlyMoves(r) /\ req'[r].pc = "shutdown"
        BY <1>t, <1>7, <3>2 DEF Shutdown, OnlyMoves, Request
      <4> QED
        BY <1>p, <4>1 DEF Holding
    <3> QED
      BY <3>1, <3>2
  <2>2. StatusKept
    BY <1>7 DEF Shutdown, StatusKept
  <2> QED
    BY <1>7, <1>n, <2>1, <2>2, LocalStep DEF Shutdown
<1> QED
  BY <1>3, <1>4, <1>5, <1>6, <1>7 DEF Call, Kill, Delete

\* The later steps that move the RPC only.
LEMMA TaskLocalContinue ==
  ASSUME TypeInv, TypeInv', TaskInv, NEW r \in Reqs,
         \/ Boot(r) /\ UNCHANGED sandbox
         \/ InsertTask(r) /\ UNCHANGED ts
         \/ MarkExited(r) /\ ts[req[r].inst].status = "STOPPED"
         \/ PublishCreate(r) \/ PublishExit(r) \/ RemoveTask(r) \/ PublishDelete(r)
         \/ WaitWakes(r) \/ WaitCancelled(r) \/ EndServing(r)
  PROVE  TaskInv'
<1>t. /\ req \in [Reqs -> Request]
      /\ ts \in [Insts -> TaskState]
      /\ sandbox \in [Insts -> {"none", "up", "dead", "stopped"}]
      /\ tasks \in [TaskIds -> Insts \cup {NoInst}]
  BY DEF TypeInv, TypeOK
<1>k. req[r].pc \in Holding => req[r].inst \in Insts
  BY DEF TypeInv, LocalsKnown, Known
<1>i. Point(req[r])
  BY DEF TaskInv
<1>p. req'[r].pc \notin Holding => Point(req[r])'
  BY DEF Point, Holding
<1>1. ASSUME Return(r) \/ \E i, c : ReturnRecord(r, i, c)
      PROVE  OnlyMoves(r) /\ req'[r].pc = "done"
  BY <1>t, <1>1 DEF Return, ReturnRecord, NewReq, OnlyMoves
<1>2. ASSUME NEW pc, Goto(r, pc)
      PROVE  OnlyMoves(r) /\ req'[r].pc = pc /\ req'[r].inst = req[r].inst
  BY <1>t, <1>2 DEF Goto, OnlyMoves, Request
<1>3. ASSUME UNCHANGED <<tasks, ts, sandbox>>, req[r].pc # "mark",
             Return(r) \/ \E i, c : ReturnRecord(r, i, c)
      PROVE  TaskInv'
  <2>1. OnlyMoves(r) /\ req'[r].pc = "done"
    BY <1>1, <1>3
  <2>2. StatusKept
    BY <1>3 DEF StatusKept
  <2>3. Point(req[r])'
    BY <1>p, <2>1 DEF Holding
  <2> QED
    BY <1>3, <2>1, <2>2, <2>3, LocalStep
<1>4. CASE InsertTask(r) /\ UNCHANGED ts
  <2>1. req[r].pc = "insert" /\ UNCHANGED sandbox
    BY <1>4 DEF InsertTask, At
  <2>2. Goto(r, "undo") /\ UNCHANGED tasks
    <3>1. req[r].inst \in Insts /\ ts[req[r].inst].status = "NONE"
      BY <1>i, <1>k, <2>1 DEF Point, Holding
    <3>2. ts' # [ts EXCEPT ![req[r].inst].status = "CREATED"]
      BY <1>4, <1>t, <3>1 DEF TaskState
    <3> QED
      BY <1>4, <3>2 DEF InsertTask
  <2>3. OnlyMoves(r) /\ req'[r].pc = "undo" /\ req'[r].inst = req[r].inst
    BY <1>2, <2>2
  <2>4. Point(req[r])'
    BY <1>4, <1>i, <2>1, <2>3 DEF Point, Holding
  <2>5. StatusKept
    BY <1>4 DEF StatusKept
  <2> QED
    BY <2>1, <2>2, <2>3, <2>4, <2>5, LocalStep
<1>5. ASSUME AfterMark(r), UNCHANGED <<tasks, ts, sandbox>>,
             req[r].pc \in {"mark", "pubExit"}, ts[req[r].inst].status = "STOPPED"
      PROVE  TaskInv'
  <2>1. OnlyMoves(r) /\ Point(req[r])' /\ req'[r].pc \in {"done", "remove"}
    <3>1. CASE Return(r)
      BY <1>1, <1>p, <3>1 DEF Holding
    <3>2. CASE Goto(r, "remove")
      <4>1. OnlyMoves(r) /\ req'[r].pc = "remove" /\ req'[r].inst = req[r].inst
        BY <1>2, <3>2
      <4> QED
        BY <1>5, <1>i, <4>1 DEF Point, Holding
    <3> QED
      BY <1>5, <3>1, <3>2 DEF AfterMark
  <2>2. StatusKept
    BY <1>5 DEF StatusKept
  <2> QED
    BY <1>5, <2>1, <2>2, LocalStep
<1>6. CASE MarkExited(r) /\ ts[req[r].inst].status = "STOPPED"
  BY <1>5, <1>6 DEF MarkExited, At
<1>7. CASE PublishExit(r)
  <2>1. ts[req[r].inst].status = "STOPPED"
    BY <1>7, <1>i DEF PublishExit, At, Point
  <2> QED
    BY <1>5, <1>7, <2>1 DEF PublishExit, At
<1>8. CASE RemoveTask(r)
  <2>1. req[r].pc = "remove"
    BY <1>8 DEF RemoveTask, At
  <2>2. OnlyMoves(r) /\ req'[r].pc = "pubDelete" /\ req'[r].inst = req[r].inst
    BY <1>8, <1>t DEF RemoveTask, OnlyMoves, Request
  <2>3. Point(req[r])'
    BY <1>8, <1>i, <2>1, <2>2 DEF RemoveTask, Point, Holding
  <2>4. StatusKept
    BY <1>8 DEF RemoveTask, StatusKept
  <2>5. \A id \in TaskIds : tasks'[id] \in {tasks[id], NoInst}
    BY <1>8, <1>t DEF RemoveTask
  <2> QED
    BY <1>8, <2>1, <2>2, <2>3, <2>4, <2>5, LocalStep DEF RemoveTask
<1>9. CASE Boot(r) /\ UNCHANGED sandbox
  <2>1. \A i \in Insts : sandbox[i] = "none" => sandbox # [sandbox EXCEPT ![i] = "up"]
    BY <1>t
  <2>2. Return(r) /\ req[r].pc = "boot" /\ UNCHANGED <<tasks, ts>>
    BY <1>9, <2>1 DEF Boot, At
  <2> QED
    BY <1>3, <1>9, <2>2
<1>10. CASE PublishCreate(r)
  BY <1>3, <1>10 DEF PublishCreate, At
<1>11. CASE PublishDelete(r)
  BY <1>3, <1>11 DEF PublishDelete, At
<1>12. CASE WaitWakes(r)
  BY <1>3, <1>12 DEF WaitWakes, At
<1>13. CASE WaitCancelled(r)
  BY <1>3, <1>13 DEF WaitCancelled, At
<1>14. CASE EndServing(r)
  BY <1>3, <1>14 DEF EndServing, At
<1> QED
  BY <1>4, <1>6, <1>7, <1>8, <1>9, <1>10, <1>11, <1>12, <1>13, <1>14

\* The later steps that boot or stop a sandbox, or make or end a task object.
LEMMA TaskGlobalContinue ==
  ASSUME TypeInv, TypeInv', TaskInv, NEW r \in Reqs,
         \/ Boot(r) /\ ~UNCHANGED sandbox
         \/ InsertTask(r) /\ ~UNCHANGED ts
         \/ MarkExited(r) /\ ts[req[r].inst].status # "STOPPED"
         \/ StopLoser(r) \/ StopSandbox(r)
  PROVE  TaskInv'
<1>t. /\ req \in [Reqs -> Request]
      /\ ts \in [Insts -> TaskState]
      /\ sandbox \in [Insts -> {"none", "up", "dead", "stopped"}]
      /\ tasks \in [TaskIds -> Insts \cup {NoInst}]
  BY DEF TypeInv, TypeOK
<1>k. \A q \in Reqs : req[q].pc \in Holding => req[q].inst \in Insts
  BY DEF TypeInv, LocalsKnown, Known
<1>i. /\ \A q \in Reqs : Point(req[q])
      /\ OneOwner
      /\ Listed
      /\ StaleOnlyDuringTeardown
  BY DEF TaskInv
<1>o. \A id \in TaskIds : tasks[id] # NoInst =>
        tasks[id] \in Insts /\ ts[tasks[id]].status # "NONE"
  BY <1>t, <1>i DEF Listed
<1>1. ASSUME NEW i \in Insts, req[r].pc = "boot", sandbox[i] = "none",
             sandbox' = [sandbox EXCEPT ![i] = "up"], UNCHANGED <<tasks, ts>>,
             req' = [req EXCEPT ![r] = [@ EXCEPT !.pc = "insert", !.inst = i]]
      PROVE  TaskInv'
  <2>1. OnlyMoves(r) /\ req'[r].pc = "insert" /\ req'[r].inst = i
    BY <1>1, <1>t DEF OnlyMoves, Request
  <2>2. \A q \in Reqs : req[q].pc \in Holding => req[q].inst # i
    BY <1>1, <1>i DEF Point
  <2>3. \A j \in Insts : j # i => sandbox'[j] = sandbox[j]
    BY <1>1, <1>t
  <2>4. sandbox'[i] = "up" /\ ts[i].status = "NONE"
    BY <1>1, <1>t, <1>i DEF Listed
  <2>5. \A q \in Reqs : Point(req[q])'
    <3> SUFFICES ASSUME NEW q \in Reqs PROVE Point(req[q])'
      OBVIOUS
    <3>1. CASE q = r
      BY <1>1, <2>1, <2>4, <3>1 DEF Point, Holding
    <3>2. CASE q # r
      <4>1. req'[q] = req[q] /\ Point(req[q])
        BY <1>i, <2>1, <3>2 DEF OnlyMoves
      <4>2. req[q].pc \in Holding => sandbox'[req[q].inst] = sandbox[req[q].inst]
        BY <1>k, <2>2, <2>3
      <4> QED
        BY <1>1, <4>1, <4>2 DEF Point, Holding
    <3> QED
      BY <3>1, <3>2
  <2>6. OneOwner'
    BY <1>i, <2>1, <2>2 DEF OneOwner, OnlyMoves, Holding
  <2>7. Listed'
    BY <1>1, <1>i, <2>3, <2>4 DEF Listed
  <2>8. StaleOnlyDuringTeardown'
    BY <1>1, <1>i, <2>1, <2>3, <2>4 DEF StaleOnlyDuringTeardown, Registered, At, OnlyMoves
  <2> QED
    BY <2>5, <2>6, <2>7, <2>8 DEF TaskInv
<1>2. CASE Boot(r) /\ ~UNCHANGED sandbox
  BY <1>1, <1>2 DEF Boot, At
<1>3. CASE InsertTask(r) /\ ~UNCHANGED ts
  <2> DEFINE i == req[r].inst
  <2>1. /\ req[r].pc = "insert"
        /\ tasks' = [tasks EXCEPT ![req[r].id] = i]
        /\ ts' = [ts EXCEPT ![i].status = "CREATED"]
        /\ Goto(r, "pubCreate")
        /\ UNCHANGED sandbox
    BY <1>3 DEF InsertTask, At
  <2>2. i \in Insts /\ ts[i].status = "NONE" /\ sandbox[i] \in {"up", "dead"}
    BY <1>i, <1>k, <2>1 DEF Point, Holding
  <2>3. OnlyMoves(r) /\ req'[r].pc = "pubCreate" /\ req'[r].inst = i
    BY <1>t, <2>1 DEF Goto, OnlyMoves, Request
  <2>4. ts'[i].status = "CREATED" /\ \A j \in Insts : j # i => ts'[j] = ts[j]
    BY <1>t, <2>1, <2>2 DEF TaskState
  <2>5. \A q \in Reqs : Point(req[q])'
    <3> SUFFICES ASSUME NEW q \in Reqs PROVE Point(req[q])'
      OBVIOUS
    <3>1. CASE q = r
      BY <2>1, <2>2, <2>3, <2>4, <3>1 DEF Point, Holding
    <3>2. CASE q # r
      <4>1. req'[q] = req[q] /\ Point(req[q])
        BY <1>i, <2>3, <3>2 DEF OnlyMoves
      <4>2. req[q].pc \in Holding => req[q].inst # i
        BY <1>i, <2>1, <2>2, <3>2, <4>1 DEF OneOwner, Point, Holding
      <4> QED
        BY <1>k, <2>1, <2>4, <4>1, <4>2 DEF Point, Holding
    <3> QED
      BY <3>1, <3>2
  <2>6. OneOwner'
    BY <1>i, <2>3 DEF OneOwner, OnlyMoves
  <2>7. Listed'
    BY <1>i, <1>o, <1>t, <2>1, <2>2, <2>4 DEF Listed
  <2>8. StaleOnlyDuringTeardown'
    <3> SUFFICES ASSUME NEW j \in Insts, Registered(j)', sandbox[j] = "stopped",
                        ts'[j].status # "STOPPED"
                 PROVE  \E q \in Reqs : req'[q].pc = "mark" /\ req'[q].inst = j
      BY <2>1 DEF StaleOnlyDuringTeardown, At
    <3>1. j # i
      BY <2>2
    <3>2. Registered(j)
      BY <1>t, <2>1, <3>1 DEF Registered
    <3>3. PICK q \in Reqs : req[q].pc = "mark" /\ req[q].inst = j
      BY <1>i, <2>4, <3>1, <3>2 DEF StaleOnlyDuringTeardown, At
    <3> QED
      BY <2>1, <2>3, <3>3 DEF OnlyMoves
  <2> QED
    BY <2>5, <2>6, <2>7, <2>8 DEF TaskInv
<1>4. CASE StopLoser(r) \/ StopSandbox(r)
  <2> DEFINE i == req[r].inst
  <2>1. /\ req[r].pc \in {"undo", "stop"}
        /\ sandbox' = [sandbox EXCEPT ![i] = "stopped"]
        /\ UNCHANGED <<tasks, ts>>
    BY <1>4 DEF StopLoser, StopSandbox, At
  <2>2. i \in Insts
    BY <1>k, <2>1 DEF Holding
  <2>3. /\ OnlyMoves(r)
        /\ req[r].pc = "undo" => req'[r].pc = "done"
        /\ req[r].pc = "stop" => req'[r].pc = "mark" /\ req'[r].inst = i
    <3>1. CASE StopLoser(r)
      BY <1>t, <3>1 DEF StopLoser, At, Return, NewReq, OnlyMoves
    <3>2. CASE StopSandbox(r)
      BY <1>t, <3>2 DEF StopSandbox, At, Goto, OnlyMoves, Request
    <3> QED
      BY <1>4, <3>1, <3>2
  <2>4. sandbox'[i] = "stopped" /\ \A j \in Insts : j # i => sandbox'[j] = sandbox[j]
    BY <1>t, <2>1, <2>2
  <2>5. \A q \in Reqs : Point(req[q])'
    <3> SUFFICES ASSUME NEW q \in Reqs PROVE Point(req[q])'
      OBVIOUS
    <3>1. CASE q = r
      BY <1>i, <2>1, <2>3, <2>4, <3>1 DEF Point, Holding
    <3>2. CASE q # r
      <4>1. req'[q] = req[q] /\ Point(req[q])
        BY <1>i, <2>3, <3>2 DEF OnlyMoves
      <4>2. req[q].pc \in {"insert", "undo"} => req[q].inst # i
        BY <1>i, <2>1, <3>2, <4>1 DEF OneOwner, Point, Holding
      <4> QED
        BY <1>k, <2>1, <2>4, <4>1, <4>2 DEF Point, Holding
    <3> QED
      BY <3>1, <3>2
  <2>6. OneOwner'
    BY <1>i, <2>1, <2>3 DEF OneOwner, OnlyMoves
  <2>7. Listed'
    BY <1>i, <2>1, <2>4 DEF Listed
  <2>8. req[r].pc = "undo" => ~Registered(i)
    BY <1>i, <1>o, <2>2, ConstantsAssumption DEF Registered, Point
  <2>9. StaleOnlyDuringTeardown'
    <3> SUFFICES ASSUME NEW j \in Insts, Registered(j), sandbox'[j] = "stopped",
                        ts[j].status # "STOPPED"
                 PROVE  \E q \in Reqs : req'[q].pc = "mark" /\ req'[q].inst = j
      BY <2>1 DEF StaleOnlyDuringTeardown, Registered, At
    <3>1. CASE j = i
      BY <2>1, <2>3, <2>8, <3>1
    <3>2. CASE j # i
      <4>1. PICK q \in Reqs : req[q].pc = "mark" /\ req[q].inst = j
        BY <1>i, <2>4, <3>2 DEF StaleOnlyDuringTeardown, At
      <4> QED
        BY <2>1, <2>3, <4>1 DEF OnlyMoves
    <3> QED
      BY <3>1, <3>2
  <2> QED
    BY <2>5, <2>6, <2>7, <2>9 DEF TaskInv
<1>5. CASE MarkExited(r) /\ ts[req[r].inst].status # "STOPPED"
  <2> DEFINE i == req[r].inst
  <2>1. /\ req[r].pc = "mark"
        /\ ts' = [ts EXCEPT ![i] = [status |-> "STOPPED", exitStatus |-> req[r].code,
                                    waiters |-> {}]]
        /\ Goto(r, "pubExit")
        /\ UNCHANGED <<tasks, sandbox>>
    BY <1>5 DEF MarkExited, RecordExit, At
  <2>2. i \in Insts /\ sandbox[i] = "stopped"
    BY <1>i, <1>k, <2>1 DEF Point, Holding
  <2>3. OnlyMoves(r) /\ req'[r].pc = "pubExit" /\ req'[r].inst = i
    BY <1>t, <2>1 DEF Goto, OnlyMoves, Request
  <2>4. ts'[i].status = "STOPPED" /\ \A j \in Insts : j # i => ts'[j] = ts[j]
    BY <1>t, <2>1, <2>2
  <2>5. \A q \in Reqs : Point(req[q])'
    <3> SUFFICES ASSUME NEW q \in Reqs PROVE Point(req[q])'
      OBVIOUS
    <3>1. CASE q = r
      BY <2>1, <2>2, <2>3, <2>4, <3>1 DEF Point, Holding
    <3>2. CASE q # r
      <4>1. req'[q] = req[q] /\ Point(req[q])
        BY <1>i, <2>3, <3>2 DEF OnlyMoves
      <4>2. req[q].pc \in {"insert", "undo"} => req[q].inst # i
        BY <2>2, <4>1 DEF Point
      <4> QED
        BY <1>k, <2>1, <2>4, <4>1, <4>2 DEF Point, Holding
    <3> QED
      BY <3>1, <3>2
  <2>6. OneOwner'
    BY <1>i, <2>3 DEF OneOwner, OnlyMoves
  <2>7. Listed'
    BY <1>i, <1>o, <2>1, <2>2, <2>4 DEF Listed
  <2>8. StaleOnlyDuringTeardown'
    BY <1>i, <2>1, <2>3, <2>4 DEF StaleOnlyDuringTeardown, Registered, At, OnlyMoves
  <2> QED
    BY <2>5, <2>6, <2>7, <2>8 DEF TaskInv
<1> QED
  BY <1>2, <1>3, <1>4, <1>5

\* Every step keeps what holds for all clients.
LEMMA TaskStep ==
  ASSUME TypeInv, TypeInv', TaskInv, [Next]_vars
  PROVE  TaskInv'
<1>1. ASSUME NEW r \in Reqs, Call(r) \/ Continue(r) \/ WaitCancelled(r)
      PROVE  TaskInv'
  BY <1>1, TaskCall, TaskLocalContinue, TaskGlobalContinue DEF Continue
<1>2. ASSUME NEW i \in Insts, SandboxDies(i)
      PROVE  TaskInv'
  <2>1. /\ sandbox[i] = "up" /\ sandbox' = [sandbox EXCEPT ![i] = "dead"]
        /\ UNCHANGED <<tasks, ts, req>>
    BY <1>2 DEF SandboxDies
  <2>2. \A j \in Insts : \/ sandbox'[j] = sandbox[j]
                         \/ sandbox[j] = "up" /\ sandbox'[j] = "dead"
    BY <2>1 DEF TypeInv, TypeOK
  <2>3. \A q \in Reqs : req[q].pc \in Holding => req[q].inst \in Insts
    BY DEF TypeInv, LocalsKnown, Known
  <2>4. \A q \in Reqs : Point(req[q])'
    BY <2>1, <2>2, <2>3 DEF TaskInv, Point, Holding
  <2>5. OneOwner' /\ Listed'
    BY <2>1, <2>2 DEF TaskInv, OneOwner, Listed
  <2>6. StaleOnlyDuringTeardown'
    BY <2>1, <2>2 DEF TaskInv, StaleOnlyDuringTeardown, Registered, At
  <2> QED
    BY <2>4, <2>5, <2>6 DEF TaskInv
<1>3. CASE UNCHANGED vars
  BY <1>3 DEF vars, TaskInv, Point, OneOwner, Listed, StaleOnlyDuringTeardown,
              Registered, At
<1> QED
  BY <1>1, <1>2, <1>3 DEF Next

\* No RPC has begun and no object exists when the service starts.
LEMMA TaskInit == Init => TaskInv
<1> SUFFICES ASSUME Init PROVE TaskInv
  OBVIOUS
<1>1. \A r \in Reqs : req[r].pc = "new"
  BY DEF Init, NewReq
<1>2. \A i \in Insts : ts[i].status = "NONE" /\ ~Registered(i)
  BY ConstantsAssumption DEF Init, NoTask, Registered
<1>3. \A id \in TaskIds : tasks[id] = NoInst
  BY DEF Init
<1> QED
  BY <1>1, <1>2, <1>3 DEF TaskInv, Point, Holding, OneOwner, Listed, StaleOnlyDuringTeardown

\* Whatever the clients do, a task that still reads CREATED or RUNNING over a
\* stopped sandbox has the RPC that will correct it under way. (service.go Kill,
\* Delete, markExited)
THEOREM StaleDuringTeardown == Spec => []StaleOnlyDuringTeardown
<1>1. Init => TypeInv /\ TaskInv
  BY TypeInit, TaskInit
<1>2. (TypeInv /\ TaskInv) /\ [Next]_vars => (TypeInv /\ TaskInv)'
  BY TypeStep, TaskStep
<1>3. TaskInv => StaleOnlyDuringTeardown
  BY DEF TaskInv
<1> QED
  BY <1>1, <1>2, <1>3, PTL DEF Spec

-----------------------------------------------------------------------------
(* For clients that issue the Deletes of one ID one after the other *)

\* The points of a Delete at which its ID must still name its object.
Deleting == {"stop", "mark", "pubExit", "remove"}

OneDelete ==
  \A r, q \in Reqs :
    req[r].op = "Delete" /\ req[q].op = "Delete" /\ req[r].id = req[q].id => r = q

DeleteHolds ==
  \A r \in Reqs :
    /\ req[r].pc = "remove" => req[r].op = "Delete"
    /\ req[r].op = "Delete" /\ req[r].pc \in Deleting => tasks[req[r].id] = req[r].inst

SerialInv == OneDelete /\ DeleteHolds /\ NoOrphanSandbox /\ NoStrandedWaiter

\* What a blocked Wait relies on.
WaitSafe(r) ==
  /\ ts[req[r].inst].status \in {"CREATED", "RUNNING"}
  /\ tasks[req[r].id] = req[r].inst
  /\ r \in ts[req[r].inst].waiters

Alive(i) == ts[i].status \in {"CREATED", "RUNNING"}

\* A task object stays alive with its waiters, or its waiters are woken.
WaitersServed ==
  /\ woken \subseteq woken'
  /\ \A i \in Insts : \/ Alive(i)' /\ ts[i].waiters \subseteq ts'[i].waiters
                      \/ ~Alive(i)
                      \/ ts[i].waiters \subseteq woken'

\* The next record of RPC r is a Delete only if it was one before, or if it
\* looked its object up in this step and no other Delete of the ID is running.
DeleteFollows(r) ==
  req'[r].op = "Delete" =>
    \/ /\ req[r].op = "Delete"
       /\ req'[r].id = req[r].id
       /\ req'[r].pc \in Deleting =>
            req[r].pc \in Deleting /\ req'[r].inst = req[r].inst
    \/ ~InFlight("Delete", req'[r].id) /\ tasks[req'[r].id] = req'[r].inst

\* Steps that leave the table alone.
LEMMA SerialKeep ==
  ASSUME TypeInv, TypeInv', SerialInv, NEW r \in Reqs, OnlyMoves(r),
         UNCHANGED tasks, WaitersServed, DeleteFollows(r),
         req'[r].pc = "remove" => req'[r].op = "Delete",
         req'[r].pc = "waiting" => WaitSafe(r)',
         \A i \in Insts :
           sandbox'[i] = "up" =>
             \/ req'[r].pc \in {"insert", "undo"} /\ req'[r].inst = i
             \/ /\ sandbox[i] = "up"
                /\ ~(req[r].pc \in {"insert", "undo"} /\ req[r].inst = i)
  PROVE  SerialInv'
<1> USE DEF OnlyMoves
<1>1. OneDelete'
  BY DEF SerialInv, OneDelete, DeleteFollows, InFlight
<1>2. DeleteHolds'
  <2> SUFFICES ASSUME NEW q \in Reqs
               PROVE  /\ req'[q].pc = "remove" => req'[q].op = "Delete"
                      /\ req'[q].op = "Delete" /\ req'[q].pc \in Deleting =>
                           tasks[req'[q].id] = req'[q].inst
    BY DEF DeleteHolds, Deleting
  <2> QED
    BY DEF SerialInv, DeleteHolds, DeleteFollows
<1>3. NoOrphanSandbox'
  <2> SUFFICES ASSUME NEW i \in Insts, sandbox'[i] = "up"
               PROVE  \/ Registered(i)
                      \/ \E q \in Reqs : req'[q].inst = i /\ req'[q].pc \in {"insert", "undo"}
    BY DEF NoOrphanSandbox, Registered
  <2> QED
    BY DEF SerialInv, NoOrphanSandbox
<1>4. NoStrandedWaiter'
  <2> SUFFICES ASSUME NEW q \in Reqs, req'[q].pc = "waiting", q \notin woken'
               PROVE  WaitSafe(q)'
    BY DEF NoStrandedWaiter, WaitSafe, At
  <2>1. CASE q = r
    BY <2>1 DEF WaitSafe
  <2>2. CASE q # r
    <3>1. req'[q] = req[q] /\ q \notin woken /\ req[q].inst \in Insts
      BY <2>2 DEF WaitersServed, TypeInv, LocalsKnown, Known, Holding
    <3>2. WaitSafe(q)
      BY <3>1 DEF SerialInv, NoStrandedWaiter, WaitSafe, At
    <3> QED
      BY <3>1, <3>2 DEF WaitSafe, WaitersServed, Alive
  <2> QED
    BY <2>1, <2>2
<1> QED
  BY <1>1, <1>2, <1>3, <1>4 DEF SerialInv

\* Every step keeps what holds when Deletes of one ID do not overlap.
LEMMA SerialStep ==
  ASSUME TypeInv, TypeInv', TaskInv, SerialInv, [Next]_vars, Client # "any"
  PROVE  SerialInv'
<1>t. /\ req \in [Reqs -> Request]
      /\ ts \in [Insts -> TaskState]
      /\ sandbox \in [Insts -> {"none", "up", "dead", "stopped"}]
      /\ tasks \in [TaskIds -> Insts \cup {NoInst}]
  BY DEF TypeInv, TypeOK
<1>k. \A q \in Reqs : req[q].pc \in Holding =>
        req[q].inst \in Insts /\ req[q].id \in TaskIds /\ Point(req[q])
  BY DEF TypeInv, LocalsKnown, Known, TaskInv
<1>r. ASSUME NEW r \in Reqs, Return(r) \/ \E i, c : ReturnRecord(r, i, c)
      PROVE  OnlyMoves(r) /\ req'[r].pc = "done" /\ DeleteFollows(r)
  BY <1>t, <1>r DEF Return, ReturnRecord, NewReq, OnlyMoves, DeleteFollows
<1>g. ASSUME NEW r \in Reqs, NEW pc, Goto(r, pc), pc \in Deleting => req[r].pc \in Deleting
      PROVE  /\ OnlyMoves(r)
             /\ DeleteFollows(r)
             /\ req'[r].pc = pc
             /\ req'[r].op = req[r].op
             /\ req'[r].id = req[r].id
             /\ req'[r].inst = req[r].inst
  BY <1>t, <1>g DEF Goto, OnlyMoves, DeleteFollows, Request
\* A step of an RPC that holds no sandbox of its own and answers.
<1>q. ASSUME NEW r \in Reqs, UNCHANGED <<tasks, sandbox>>, WaitersServed,
             Return(r) \/ (\E i, c : ReturnRecord(r, i, c)),
             req[r].pc \notin {"insert", "undo"}
      PROVE  SerialInv'
  BY <1>q, <1>r, SerialKeep
<1>w. UNCHANGED <<ts, woken>> => WaitersServed
  BY DEF WaitersServed, Alive
<1>n. \A r \in Reqs : Arrives(r) => req[r].pc = "new"
  BY DEF Arrives, At
<1>1. ASSUME NEW r \in Reqs, NEW id \in TaskIds, Create(r, id)
      PROVE  SerialInv'
  <2>1. CASE Return(r)
    BY <1>1, <1>n, <1>q, <1>w, <2>1 DEF Create
  <2>2. CASE ~Return(r)
    <3>1. OnlyMoves(r) /\ req'[r].pc = "boot" /\ req'[r].op = "Create"
      BY <1>1, <1>t, <2>2 DEF Create, OnlyMoves, Request
    <3>2. DeleteFollows(r)
      BY <3>1 DEF DeleteFollows
    <3> QED
      BY <1>1, <1>n, <1>w, <3>1, <3>2, SerialKeep DEF Create
  <2> QED
    BY <2>1, <2>2
<1>2. ASSUME NEW r \in Reqs, NEW id \in TaskIds, Start(r, id)
      PROVE  SerialInv'
  <2>1. WaitersServed
    BY <1>2, <1>t DEF Start, WaitersServed, Alive, TaskState
  <2> QED
    BY <1>2, <1>n, <1>q, <2>1 DEF Start
<1>3. ASSUME NEW r \in Reqs, NEW id \in TaskIds, NEW op \in {"Kill", "Delete"}, NEW c,
             Lookup(r, id, op, c), op = "Delete" => MayDelete(id)
      PROVE  SerialInv'
  <2>1. CASE Return(r)
    BY <1>3, <1>n, <1>q, <1>w, <2>1 DEF Lookup
  <2>2. CASE ~Return(r)
    <3>1. OnlyMoves(r) /\ req'[r] = [pc |-> "stop", op |-> op, id |-> id,
                                     inst |-> tasks[id], code |-> c]
      BY <1>3, <1>t, <2>2 DEF Lookup, OnlyMoves
    <3>2. DeleteFollows(r)
      BY <1>3, <3>1 DEF DeleteFollows, MayDelete
    <3> QED
      BY <1>3, <1>n, <1>w, <3>1, <3>2, SerialKeep DEF Lookup
  <2> QED
    BY <2>1, <2>2
<1>4. ASSUME NEW r \in Reqs, NEW id \in TaskIds, Wait(r, id)
      PROVE  SerialInv'
  <2>1. WaitersServed
    BY <1>4, <1>t DEF Wait, WaitersServed, Alive, TaskState
  <2>2. CASE Return(r) \/ \E i, c : ReturnRecord(r, i, c)
    BY <1>4, <1>n, <1>q, <2>1, <2>2 DEF Wait
  <2>3. CASE ~(Return(r) \/ \E i, c : ReturnRecord(r, i, c))
    <3> DEFINE i == tasks[id]
    <3>1. /\ i \in Insts
          /\ ts[i].status # "STOPPED"
          /\ ts' = [ts EXCEPT ![i].waiters = @ \cup {r}]
          /\ req' = [req EXCEPT ![r] = [@ EXCEPT !.pc = "waiting", !.op = "Wait",
                                                 !.id = id, !.inst = i]]
          /\ UNCHANGED <<tasks, sandbox>>
      BY <1>4, <1>t, <2>3 DEF Wait
    <3>2. /\ OnlyMoves(r)
          /\ req'[r].pc = "waiting"
          /\ req'[r].op = "Wait"
          /\ req'[r].id = id
          /\ req'[r].inst = i
      BY <1>t, <3>1 DEF OnlyMoves, Request
    <3>3. ts[i].status \in {"CREATED", "RUNNING"}
      BY <1>t, <3>1, ConstantsAssumption DEF TaskInv, Listed, TaskState, Statuses
    <3>4. ts'[i].status = ts[i].status /\ r \in ts'[i].waiters
      BY <1>t, <3>1 DEF TaskState
    <3>5. WaitSafe(r)'
      BY <3>1, <3>2, <3>3, <3>4 DEF WaitSafe
    <3>6. DeleteFollows(r)
      BY <3>2 DEF DeleteFollows
    <3> QED
      BY <1>4, <1>n, <2>1, <3>1, <3>2, <3>5, <3>6, SerialKeep DEF Wait
  <2> QED
    BY <2>2, <2>3
<1>5. ASSUME NEW r \in Reqs, Boot(r)
      PROVE  SerialInv'
  <2>1. CASE Return(r) /\ UNCHANGED sandbox
    BY <1>5, <1>q, <1>w, <2>1 DEF Boot, At
  <2>2. CASE ~(Return(r) /\ UNCHANGED sandbox)
    <3>1. PICK i \in Insts :
            /\ sandbox' = [sandbox EXCEPT ![i] = "up"]
            /\ req' = [req EXCEPT ![r] = [@ EXCEPT !.pc = "insert", !.inst = i]]
      BY <1>5, <2>2 DEF Boot
    <3>2. /\ OnlyMoves(r)
          /\ req'[r].pc = "insert"
          /\ req'[r].op = req[r].op
          /\ req'[r].id = req[r].id
          /\ req'[r].inst = i
      BY <1>t, <3>1 DEF OnlyMoves, Request
    <3>3. DeleteFollows(r)
      BY <3>2 DEF DeleteFollows, Deleting
    <3>4. \A j \in Insts : sandbox'[j] = "up" => sandbox[j] = "up" \/ j = i
      BY <1>t, <3>1
    <3> QED
      BY <1>5, <1>w, <3>2, <3>3, <3>4, SerialKeep DEF Boot, At
  <2> QED
    BY <2>1, <2>2

<1>6. ASSUME NEW r \in Reqs, InsertTask(r)
      PROVE  SerialInv'
  <2> DEFINE i == req[r].inst
             id == req[r].id
  <2>0. req[r].pc = "insert" /\ i \in Insts /\ id \in TaskIds
    BY <1>6, <1>k DEF InsertTask, At, Holding
  <2>1. CASE tasks[id] # NoInst
    <3>1. Goto(r, "undo") /\ UNCHANGED <<tasks, ts, woken, sandbox>>
      BY <1>6, <2>1 DEF InsertTask
    <3> QED
      BY <1>g, <1>w, <2>0, <3>1, SerialKeep DEF Deleting
  <2>2. CASE tasks[id] = NoInst
    <3>1. /\ tasks' = [tasks EXCEPT ![id] = i]
          /\ ts' = [ts EXCEPT ![i].status = "CREATED"]
          /\ Goto(r, "pubCreate")
          /\ UNCHANGED <<sandbox, woken>>
      BY <1>6, <2>2 DEF InsertTask
    <3>2. /\ OnlyMoves(r)
          /\ req'[r].pc = "pubCreate"
          /\ req'[r].op = req[r].op
          /\ req'[r].id = id
      BY <1>g, <3>1 DEF Deleting
    <3>3. tasks'[id] = i /\ \A x \in TaskIds : x # id => tasks'[x] = tasks[x]
      BY <1>t, <2>0, <3>1
    <3>4. OneDelete'
      BY <3>2 DEF SerialInv, OneDelete, OnlyMoves
    <3>5. DeleteHolds'
      <4> SUFFICES ASSUME NEW q \in Reqs
                   PROVE  /\ req'[q].pc = "remove" => req'[q].op = "Delete"
                          /\ req'[q].op = "Delete" /\ req'[q].pc \in Deleting =>
                               tasks'[req'[q].id] = req'[q].inst
        BY DEF DeleteHolds, Deleting
      <4>1. CASE q = r
        BY <3>2, <4>1 DEF Deleting
      <4>2. CASE q # r
        <5>1. req'[q] = req[q]
          BY <3>2, <4>2 DEF OnlyMoves
        <5>2. req[q].pc \in Deleting => req[q].inst \in Insts /\ req[q].id \in TaskIds
          BY <1>k DEF Deleting, Holding
        <5> QED
          BY <2>2, <3>3, <5>1, <5>2, ConstantsAssumption DEF SerialInv, DeleteHolds
      <4> QED
        BY <4>1, <4>2
    <3>6. NoOrphanSandbox'
      <4> SUFFICES ASSUME NEW j \in Insts, sandbox[j] = "up"
                   PROVE  \/ \E x \in TaskIds : tasks'[x] = j
                          \/ \E q \in Reqs : req'[q].inst = j /\ req'[q].pc \in {"insert", "undo"}
        BY <3>1 DEF NoOrphanSandbox, Registered
      <4>1. CASE j = i
        BY <2>0, <3>3, <4>1
      <4>2. CASE Registered(j)
        BY <2>2, <3>3, <4>2, ConstantsAssumption DEF Registered
      <4>3. CASE j # i /\ ~Registered(j)
        <5>1. PICK q \in Reqs : req[q].inst = j /\ req[q].pc \in {"insert", "undo"}
          BY <4>3 DEF SerialInv, NoOrphanSandbox
        <5> QED
          BY <3>2, <4>3, <5>1 DEF OnlyMoves
      <4> QED
        BY <4>1, <4>2, <4>3
    <3>7. NoStrandedWaiter'
      <4> SUFFICES ASSUME NEW q \in Reqs, req'[q].pc = "waiting", q \notin woken
                   PROVE  WaitSafe(q)'
        BY <3>1 DEF NoStrandedWaiter, WaitSafe, At
      <4>1. q # r /\ req'[q] = req[q]
        BY <3>2 DEF OnlyMoves
      <4>2. WaitSafe(q)
        BY <4>1 DEF SerialInv, NoStrandedWaiter, WaitSafe, At
      <4>3. req[q].inst \in Insts /\ req[q].id \in TaskIds
        BY <1>k, <4>1 DEF Holding
      <4>4. req[q].id # id
        BY <2>2, <4>2, <4>3, ConstantsAssumption DEF WaitSafe
      <4>5. ts[i].status = "NONE"
        BY <1>k, <2>0 DEF Point, Holding
      <4>6. ts'[req[q].inst] = ts[req[q].inst]
        BY <1>t, <3>1, <4>2, <4>3, <4>5 DEF WaitSafe
      <4> QED
        BY <3>3, <4>1, <4>2, <4>3, <4>4, <4>6 DEF WaitSafe
    <3> QED
      BY <3>4, <3>5, <3>6, <3>7 DEF SerialInv
  <2> QED
    BY <2>1, <2>2
<1>7. ASSUME NEW r \in Reqs, StopLoser(r)
      PROVE  SerialInv'
  <2>1. req[r].inst \in Insts
    BY <1>7, <1>k DEF StopLoser, At, Holding
  <2>2. \A j \in Insts : sandbox'[j] = "up" => sandbox[j] = "up" /\ j # req[r].inst
    BY <1>7, <1>t, <2>1 DEF StopLoser
  <2> QED
    BY <1>7, <1>r, <1>w, <2>2, SerialKeep DEF StopLoser
<1>8. ASSUME NEW r \in Reqs, PublishCreate(r)
      PROVE  SerialInv'
  BY <1>8, <1>q, <1>w DEF PublishCreate, At
<1>9. ASSUME NEW r \in Reqs, StopSandbox(r)
      PROVE  SerialInv'
  <2>1. req[r].pc = "stop"
    BY <1>9 DEF StopSandbox, At
  <2>2. \A j \in Insts : sandbox'[j] = "up" => sandbox[j] = "up"
    BY <1>9, <1>t DEF StopSandbox
  <2>3. Goto(r, "mark")
    BY <1>9 DEF StopSandbox
  <2>4. OnlyMoves(r) /\ DeleteFollows(r) /\ req'[r].pc = "mark"
    BY <1>g, <2>1, <2>3 DEF Deleting
  <2> QED
    BY <1>9, <1>w, <2>1, <2>2, <2>4, SerialKeep DEF StopSandbox
<1>10. ASSUME NEW r \in Reqs, AfterMark(r), UNCHANGED <<tasks, sandbox, ts, woken>>,
              req[r].pc \in {"mark", "pubExit"}
       PROVE  SerialInv'
  <2>1. CASE Return(r)
    BY <1>10, <1>q, <1>w, <2>1
  <2>2. CASE req[r].op = "Delete" /\ Goto(r, "remove")
    <3>1. /\ OnlyMoves(r) /\ DeleteFollows(r)
          /\ req'[r].pc = "remove" /\ req'[r].op = "Delete"
      BY <1>10, <1>g, <2>2 DEF Deleting
    <3> QED
      BY <1>10, <1>w, <3>1, SerialKeep
  <2> QED
    BY <1>10, <2>1, <2>2 DEF AfterMark
<1>11. ASSUME NEW r \in Reqs, MarkExited(r)
       PROVE  SerialInv'
  <2> DEFINE i == req[r].inst
  <2>0. req[r].pc = "mark" /\ i \in Insts
    BY <1>11, <1>k DEF MarkExited, At, Holding
  <2>1. CASE ts[i].status = "STOPPED"
    BY <1>10, <1>11, <2>0, <2>1 DEF MarkExited
  <2>2. CASE ts[i].status # "STOPPED"
    <3>1. RecordExit(r, i) /\ UNCHANGED <<tasks, sandbox>>
      BY <1>11, <2>2 DEF MarkExited
    <3>2. \A j \in Insts : j # i => ts'[j] = ts[j]
      BY <1>t, <3>1 DEF RecordExit
    <3>3. woken' = woken \cup ts[i].waiters
      BY <3>1 DEF RecordExit, Wake
    <3>4. WaitersServed
      BY <3>2, <3>3 DEF WaitersServed, Alive
    <3>5. OnlyMoves(r) /\ DeleteFollows(r) /\ req'[r].pc = "pubExit"
      BY <1>g, <2>0, <3>1 DEF RecordExit, Deleting
    <3> QED
      BY <2>0, <3>1, <3>4, <3>5, SerialKeep
  <2> QED
    BY <2>1, <2>2
<1>12. ASSUME NEW r \in Reqs, PublishExit(r)
       PROVE  SerialInv'
  BY <1>10, <1>12 DEF PublishExit, At
<1>13. ASSUME NEW r \in Reqs, RemoveTask(r)
       PROVE  SerialInv'
  <2> DEFINE i == req[r].inst
             id == req[r].id
  <2>1. /\ req[r].pc = "remove"
        /\ tasks' = [tasks EXCEPT ![id] = NoInst]
        /\ UNCHANGED <<ts, sandbox, woken>>
    BY <1>13 DEF RemoveTask, At
  <2>2. /\ i \in Insts /\ id \in TaskIds
        /\ sandbox[i] = "stopped"
        /\ ts[i].status = "STOPPED"
    BY <1>k, <2>1 DEF Holding, Point
  <2>3. req[r].op = "Delete" /\ tasks[id] = i
    BY <2>1 DEF SerialInv, DeleteHolds, Deleting
  <2>4. /\ OnlyMoves(r)
        /\ req'[r].pc = "pubDelete"
        /\ req'[r].op = req[r].op
        /\ req'[r].id = id
    BY <1>13, <1>t DEF RemoveTask, OnlyMoves, Request
  <2>5. tasks'[id] = NoInst /\ \A x \in TaskIds : x # id => tasks'[x] = tasks[x]
    BY <1>t, <2>1, <2>2
  <2>6. OneDelete'
    BY <2>4 DEF SerialInv, OneDelete, OnlyMoves
  <2>7. DeleteHolds'
    <3> SUFFICES ASSUME NEW q \in Reqs
                 PROVE  /\ req'[q].pc = "remove" => req'[q].op = "Delete"
                        /\ req'[q].op = "Delete" /\ req'[q].pc \in Deleting =>
                             tasks'[req'[q].id] = req'[q].inst
      BY DEF DeleteHolds, Deleting
    <3>1. CASE q = r
      BY <2>4, <3>1 DEF Deleting
    <3>2. CASE q # r
      <4>1. req'[q] = req[q]
        BY <2>4, <3>2 DEF OnlyMoves
      <4>2. req[q].op = "Delete" => req[q].id # id
        BY <2>3, <3>2 DEF SerialInv, OneDelete
      <4>3. req[q].pc \in Deleting => req[q].id \in TaskIds
        BY <1>k DEF Deleting, Holding
      <4> QED
        BY <2>5, <4>1, <4>2, <4>3 DEF SerialInv, DeleteHolds
    <3> QED
      BY <3>1, <3>2
  <2>8. NoOrphanSandbox'
    <3> SUFFICES ASSUME NEW j \in Insts, sandbox[j] = "up"
                 PROVE  \/ \E x \in TaskIds : tasks'[x] = j
                        \/ \E q \in Reqs : req'[q].inst = j /\ req'[q].pc \in {"insert", "undo"}
      BY <2>1 DEF NoOrphanSandbox, Registered
    <3>1. CASE Registered(j)
      BY <2>2, <2>3, <2>5, <3>1 DEF Registered
    <3>2. CASE ~Registered(j)
      <4>1. PICK q \in Reqs : req[q].inst = j /\ req[q].pc \in {"insert", "undo"}
        BY <3>2 DEF SerialInv, NoOrphanSandbox
      <4> QED
        BY <2>1, <2>4, <4>1 DEF OnlyMoves
    <3> QED
      BY <3>1, <3>2
  <2>9. NoStrandedWaiter'
    <3> SUFFICES ASSUME NEW q \in Reqs, req'[q].pc = "waiting", q \notin woken
                 PROVE  WaitSafe(q)'
      BY <2>1 DEF NoStrandedWaiter, WaitSafe, At
    <3>1. q # r /\ req'[q] = req[q]
      BY <2>4 DEF OnlyMoves
    <3>2. WaitSafe(q) /\ req[q].id \in TaskIds
      BY <1>k, <3>1 DEF SerialInv, NoStrandedWaiter, WaitSafe, At, Holding
    <3>3. req[q].id # id
      BY <2>2, <2>3, <3>2 DEF WaitSafe
    <3> QED
      BY <2>1, <2>5, <3>1, <3>2, <3>3 DEF WaitSafe
  <2> QED
    BY <2>6, <2>7, <2>8, <2>9 DEF SerialInv
<1>14. ASSUME NEW r \in Reqs,
              PublishDelete(r) \/ WaitWakes(r) \/ WaitCancelled(r) \/ EndServing(r)
       PROVE  SerialInv'
  BY <1>14, <1>q, <1>w DEF PublishDelete, WaitWakes, WaitCancelled, EndServing, At
<1>15. ASSUME NEW r \in Reqs, Shutdown(r)
       PROVE  SerialInv'
  <2>1. CASE Return(r)
    BY <1>15, <1>n, <1>q, <1>w, <2>1 DEF Shutdown
  <2>2. CASE ~Return(r)
    <3>1. OnlyMoves(r) /\ req'[r].pc = "shutdown" /\ req'[r].op = "Shutdown"
      BY <1>15, <1>t, <2>2 DEF Shutdown, OnlyMoves, Request
    <3>2. DeleteFollows(r)
      BY <3>1 DEF DeleteFollows
    <3> QED
      BY <1>15, <1>n, <1>w, <3>1, <3>2, SerialKeep DEF Shutdown
  <2> QED
    BY <2>1, <2>2
<1>16. ASSUME NEW i \in Insts, SandboxDies(i)
       PROVE  SerialInv'
  <2>1. UNCHANGED <<tasks, ts, req, woken>>
    BY <1>16 DEF SandboxDies
  <2>2. \A j \in Insts : sandbox'[j] = "up" => sandbox[j] = "up"
    BY <1>16, <1>t DEF SandboxDies
  <2> QED
    BY <2>1, <2>2 DEF SerialInv, OneDelete, DeleteHolds, NoOrphanSandbox, Registered,
                      NoStrandedWaiter, At
<1>17. CASE UNCHANGED vars
  BY <1>17 DEF vars, SerialInv, OneDelete, DeleteHolds, NoOrphanSandbox, Registered,
               NoStrandedWaiter, At
<1>18. ASSUME NEW r \in Reqs, Call(r)
       PROVE  SerialInv'
  BY <1>1, <1>2, <1>3, <1>4, <1>15, <1>18 DEF Call, Kill, Delete
<1>19. ASSUME NEW r \in Reqs, Continue(r) \/ WaitCancelled(r)
       PROVE  SerialInv'
  BY <1>5, <1>6, <1>7, <1>8, <1>9, <1>11, <1>12, <1>13, <1>14, <1>19 DEF Continue
<1> QED
  BY <1>16, <1>17, <1>18, <1>19 DEF Next

\* The three invariants together hold of every behaviour of serial clients.
LEMMA SerialInvariant ==
  ASSUME Client # "any"
  PROVE  Spec => [](TypeInv /\ TaskInv /\ SerialInv)
<1>1. Init => TypeInv /\ TaskInv /\ SerialInv
  <2> SUFFICES ASSUME Init PROVE SerialInv
    BY TypeInit, TaskInit
  <2>1. \A r \in Reqs : req[r].pc = "new" /\ req[r].op = ""
    BY DEF Init, NewReq
  <2>2. \A i \in Insts : sandbox[i] = "none"
    BY DEF Init
  <2> QED
    BY <2>1, <2>2 DEF SerialInv, OneDelete, DeleteHolds, Deleting, NoOrphanSandbox,
                      NoStrandedWaiter, At
<1>2. (TypeInv /\ TaskInv /\ SerialInv) /\ [Next]_vars => (TypeInv /\ TaskInv /\ SerialInv)'
  BY TypeStep, TaskStep, SerialStep
<1> QED
  BY <1>1, <1>2, PTL DEF Spec

\* No sandbox is left running without an owner, as long as the Deletes of one
\* ID do not overlap. (service.go Create, Delete)
THEOREM NoOrphan ==
  ASSUME Client # "any"
  PROVE  Spec => []NoOrphanSandbox
<1>1. SerialInv => NoOrphanSandbox
  BY DEF SerialInv
<1> QED
  BY <1>1, SerialInvariant, PTL

\* No Wait loses its wakeup or is left behind by the task it waits for, under
\* the same assumption. (service.go Wait, markExited, Delete)
THEOREM NoStranded ==
  ASSUME Client # "any"
  PROVE  Spec => []NoStrandedWaiter
<1>1. SerialInv => NoStrandedWaiter
  BY DEF SerialInv
<1> QED
  BY <1>1, SerialInvariant, PTL

\* A task object leaves the table torn down and with its exit recorded, under
\* the same assumption. (service.go:222-224)
THEOREM DeleteIsTeardown ==
  ASSUME Client # "any"
  PROVE  Spec => DeleteTearsDown
<1> DEFINE Left == \A id \in TaskIds :
                     tasks[id] # NoInst /\ tasks'[id] # tasks[id] =>
                       /\ sandbox[tasks[id]] = "stopped"
                       /\ StateOf(id).status = "STOPPED"
<1>1. TypeInv /\ TaskInv /\ SerialInv /\ [Next]_vars => [Left]_vars
  <2> SUFFICES ASSUME TypeInv, TaskInv, SerialInv, Next PROVE Left
    BY DEF vars
  <2>t. /\ tasks \in [TaskIds -> Insts \cup {NoInst}]
        /\ \A r \in Reqs : req[r].pc \in Holding =>
             req[r].inst \in Insts /\ req[r].id \in TaskIds /\ Point(req[r])
    BY DEF TypeInv, TypeOK, LocalsKnown, Known, TaskInv
  <2>1. CASE UNCHANGED tasks
    BY <2>1
  <2>2. ASSUME NEW r \in Reqs, InsertTask(r) PROVE Left
    BY <2>2, <2>t DEF InsertTask
  <2>3. ASSUME NEW r \in Reqs, RemoveTask(r) PROVE Left
    <3>1. req[r].pc = "remove" /\ tasks' = [tasks EXCEPT ![req[r].id] = NoInst]
      BY <2>3 DEF RemoveTask, At
    <3>2. tasks[req[r].id] = req[r].inst
      BY <3>1 DEF SerialInv, DeleteHolds, Deleting
    <3>3. /\ sandbox[req[r].inst] = "stopped"
          /\ ts[req[r].inst].status = "STOPPED"
          /\ req[r].inst \in Insts
      BY <2>t, <3>1 DEF Holding, Point
    <3> QED
      BY <2>t, <3>1, <3>2, <3>3, ConstantsAssumption DEF StateOf
  <2>4. \/ UNCHANGED tasks
        \/ \E r \in Reqs : InsertTask(r) \/ RemoveTask(r)
    BY DEF Next, Call, Continue, Create, Start, Kill, Delete, Lookup, Wait, Shutdown, Boot,
           StopLoser, PublishCreate, StopSandbox, MarkExited, PublishExit, PublishDelete,
           WaitWakes, WaitCancelled, EndServing, SandboxDies
  <2> QED
    BY <2>1, <2>2, <2>3, <2>4
<1> QED
  BY <1>1, SerialInvariant, PTL DEF Spec, DeleteTearsDown
=============================================================================
