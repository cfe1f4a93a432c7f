--------------------------- MODULE ShimEvents_proofs ---------------------------
(***************************************************************************)
(* What the shim tells containerd about a task object (ShimTask): that all *)
(* answers and events carry its one exit, that no event is sent twice or   *)
(* against the exit, and that an object lives as TaskLifecycle says.       *)
(*                                                                         *)
(* Every step is first shown to be of one of eight kinds, which say no     *)
(* more of it than these proofs need (StepKind).  Each invariant is then   *)
(* proved kind by kind.                                                    *)
(***************************************************************************)
EXTENDS ShimTask_proofs

Publishing == {"pubCreate", "pubExit", "pubDelete"}

TopicAt(pc) == CASE pc = "pubCreate" -> "create"
                 [] pc = "pubExit"   -> "exit"
                 [] pc = "pubDelete" -> "delete"

\* Object i has exited with this code.
Recorded(i, code) == ts[i].status = "STOPPED" /\ ts[i].exitStatus = code

\* An exit record or an event in the making, and an answer given, agree with
\* the exit of the object they are about.
RecordRight(q) ==
  q.pc \in {"pubExit", "pubDelete"} \/ (q.pc = "done" /\ q.inst # NoInst) =>
    Recorded(q.inst, q.code)

\* A waiter of an object is a Wait on it or one that gave up, and a waiter is
\* woken by the exit only.
WaitersWait ==
  /\ \A i \in Insts : \A r \in ts[i].waiters :
       req[r].pc # "done" => req[r].pc = "waiting" /\ req[r].inst = i
  /\ \A r \in woken :
       req[r].pc # "done" => req[r].pc = "waiting" /\ ts[req[r].inst].status = "STOPPED"

\* So does every exit or delete event that was sent.
EventRight(e) ==
  e.topic \in {"exit", "delete"} =>
    Recorded(e.inst, e.code)

EventsRight == \A id \in TaskIds : \A n \in DOMAIN events[id] : EventRight(events[id][n])

ExitInv == /\ \A r \in Reqs : RecordRight(req[r])
           /\ WaitersWait
           /\ EventsRight

-----------------------------------------------------------------------------
OneId == \A x, y \in TaskIds : tasks[x] # NoInst /\ tasks[x] = tasks[y] => x = y

\* An event in the making has one author and has not been sent.
OnePublisher ==
  \A r, q \in Reqs :
    /\ req[r].pc \in Publishing
    /\ req[q].pc = req[r].pc
    /\ req[q].inst = req[r].inst
    => r = q

NotYetTold ==
  \A r \in Reqs :
    req[r].pc \in Publishing => ~ToldOf(req[r].inst, TopicAt(req[r].pc))

\* What was told has happened, and a deleted object is out of the table.
ToldTrue ==
  \A i \in Insts :
    /\ ToldOf(i, "create") => ts[i].status # "NONE"
    /\ ToldOf(i, "start") => ts[i].status \in {"RUNNING", "STOPPED"}
    /\ ToldOf(i, "delete") => ~Registered(i)

GoneIsGone == \A r \in Reqs : req[r].pc = "pubDelete" => ~Registered(req[r].inst)

EventInv == OneId /\ OnePublisher /\ NotYetTold /\ ToldTrue /\ GoneIsGone /\ EventsOnce

-----------------------------------------------------------------------------
(* The kinds of step *)

\* Every list of events stays as it is or gets this event at its end.
Tells(topic, i, c) ==
  \A id \in TaskIds :
    \/ events'[id] = events[id]
    \/ events'[id] = Append(events[id], [topic |-> topic, inst |-> i, code |-> c])

\* Object i becomes this, and no other object changes.
Becomes(i, status, exitStatus, waiters) ==
  /\ ts'[i].status = status
  /\ ts'[i].exitStatus = exitStatus
  /\ ts'[i].waiters = waiters
  /\ \A j \in Insts : j # i => ts'[j] = ts[j]

\* RPC r moves, and no other does.
Moves(r, from, to, i) ==
  OnlyMoves(r) /\ req[r].pc = from /\ req'[r].pc = to /\ req'[r].inst = i

Idle == UNCHANGED <<tasks, ts, req, woken, events>>

\* A step that says and records nothing.
Quiet(r) ==
  /\ UNCHANGED <<tasks, ts, woken, events>>
  /\ OnlyMoves(r)
  /\ req[r].pc \notin Publishing \cup {"done"}
  /\ req'[r].pc \notin Publishing \cup {"new", "waiting"}
  /\ req'[r].pc = "done" => req'[r].inst = NoInst
  /\ req[r].pc = "waiting" => req'[r].pc = "done"

\* InsertTask of a Create that finds the ID free.
Inserts(r) ==
  LET i  == req[r].inst
      id == req[r].id
  IN /\ i \in Insts /\ id \in TaskIds
     /\ Moves(r, "insert", "pubCreate", i)
     /\ tasks[id] = NoInst /\ tasks' = [tasks EXCEPT ![id] = i]
     /\ ts[i].status = "NONE"
     /\ Becomes(i, "CREATED", ts[i].exitStatus, ts[i].waiters)
     /\ UNCHANGED <<woken, events>>

\* A Start that is not refused.
Starts(r, i) ==
  /\ Moves(r, "new", "done", NoInst)
  /\ Registered(i)
  /\ ts[i].status = "CREATED"
  /\ Becomes(i, "RUNNING", ts[i].exitStatus, ts[i].waiters)
  /\ Tells("start", i, 0)
  /\ UNCHANGED <<tasks, woken>>

\* MarkExited of the first to come.
Marks(r) ==
  LET i == req[r].inst
  IN /\ i \in Insts
     /\ Moves(r, "mark", "pubExit", i)
     /\ req'[r].code = req[r].code
     /\ ts[i].status \in {"CREATED", "RUNNING"}
     /\ Becomes(i, "STOPPED", req[r].code, {})
     /\ woken' = woken \cup ts[i].waiters
     /\ UNCHANGED <<tasks, events>>

\* RemoveTask.
Removes(r) ==
  LET i == req[r].inst
  IN /\ i \in Insts /\ req[r].id \in TaskIds
     /\ Moves(r, "remove", "pubDelete", i)
     /\ ts[i].status = "STOPPED"
     /\ req'[r].code = ts[i].exitStatus
     /\ tasks' = [tasks EXCEPT ![req[r].id] = NoInst]
     /\ UNCHANGED <<ts, woken, events>>

\* A Wait that blocks.
Waits(r, i) ==
  /\ Moves(r, "new", "waiting", i)
  /\ ts[i].status # "STOPPED"
  /\ Becomes(i, ts[i].status, ts[i].exitStatus, ts[i].waiters \cup {r})
  /\ UNCHANGED <<tasks, woken, events>>

\* A Wait that answers, at once or when woken.
Answers(r, i) ==
  /\ \/ Moves(r, "new", "done", i) /\ ts[i].status = "STOPPED"
     \/ Moves(r, "waiting", "done", i) /\ r \in woken /\ req[r].inst = i
  /\ req'[r].code = ts[i].exitStatus
  /\ UNCHANGED <<tasks, ts, woken, events>>

\* One of the three publishing steps; only PublishDelete answers with a record.
Publishes(r) ==
  LET i == req[r].inst
  IN /\ i \in Insts
     /\ req[r].pc \in Publishing
     /\ OnlyMoves(r)
     /\ req'[r].pc \in {"done", "remove"}
     /\ req'[r].pc = "done" /\ req'[r].inst # NoInst =>
          req[r].pc = "pubDelete" /\ req'[r].inst = i /\ req'[r].code = req[r].code
     /\ Tells(TopicAt(req[r].pc), i, IF req[r].pc = "pubCreate" THEN 0 ELSE req[r].code)
     /\ UNCHANGED <<tasks, ts, woken>>

Kind(r) ==
  \/ Quiet(r) \/ Inserts(r) \/ Marks(r) \/ Removes(r) \/ Publishes(r)
  \/ \E i \in Insts : Starts(r, i) \/ Waits(r, i) \/ Answers(r, i)

\* publish adds one event to one list, or none. (events.go publish)
LEMMA PublishTells ==
  ASSUME TypeOK, NEW id \in TaskIds, NEW topic, NEW i, NEW c, Publish(id, topic, i, c)
  PROVE  Tells(topic, i, c)
  BY DEF TypeOK, Publish, Tells

\* What an RPC leaves behind when it returns.
LEMMA ReturnMoves ==
  ASSUME TypeOK, NEW r \in Reqs, Return(r)
  PROVE  OnlyMoves(r) /\ req'[r].pc = "done" /\ req'[r].inst = NoInst
  BY DEF TypeOK, Return, NewReq, OnlyMoves

\* ... with an exit record.
LEMMA RecordMoves ==
  ASSUME TypeOK, NEW r \in Reqs, NEW i, NEW c, ReturnRecord(r, i, c)
  PROVE  /\ OnlyMoves(r) /\ req'[r].pc = "done"
         /\ req'[r].inst = i /\ req'[r].code = c
  BY DEF TypeOK, ReturnRecord, NewReq, OnlyMoves

\* What Goto keeps.
LEMMA GotoMoves ==
  ASSUME TypeOK, NEW r \in Reqs, NEW pc, Goto(r, pc)
  PROVE  /\ OnlyMoves(r) /\ req'[r].pc = pc
         /\ req'[r].inst = req[r].inst /\ req'[r].code = req[r].code
  BY DEF TypeOK, Goto, OnlyMoves, Request

\* The first step of an RPC is of one of the kinds. (service.go, the handlers)
LEMMA CallKind ==
  ASSUME TypeInv, TaskInv, NEW r \in Reqs, Call(r)
  PROVE  Kind(r)
<1> USE DEF TypeInv
<1>t. /\ req \in [Reqs -> Request]
      /\ ts \in [Insts -> TaskState]
      /\ \A id \in TaskIds : tasks[id] # NoInst => tasks[id] \in Insts
  BY DEF TypeOK
<1>1. ASSUME Return(r), UNCHANGED <<tasks, ts, woken, events>>, req[r].pc = "new"
      PROVE  Kind(r)
  BY <1>1, ReturnMoves DEF Kind, Quiet, Publishing
<1>2. ASSUME OnlyMoves(r), req'[r].pc \in {"boot", "stop", "shutdown"},
             UNCHANGED <<tasks, ts, woken, events>>, req[r].pc = "new"
      PROVE  Kind(r)
  BY <1>2 DEF Kind, Quiet, Publishing
<1>n. Arrives(r) => req[r].pc = "new"
  BY DEF Arrives, At
<1>3. ASSUME NEW id \in TaskIds, Create(r, id) PROVE Kind(r)
  <2>1. CASE Return(r)
    BY <1>1, <1>3, <1>n, <2>1 DEF Create
  <2>2. CASE ~Return(r)
    <3>1. OnlyMoves(r) /\ req'[r].pc = "boot"
      BY <1>t, <1>3, <2>2 DEF Create, OnlyMoves, Request
    <3> QED
      BY <1>2, <1>3, <1>n, <3>1 DEF Create
  <2> QED
    BY <2>1, <2>2
<1>4. ASSUME NEW id \in TaskIds, Start(r, id) PROVE Kind(r)
  <2>1. CASE UNCHANGED <<ts, events>>
    BY <1>1, <1>4, <1>n, <2>1 DEF Start
  <2>2. CASE ~UNCHANGED <<ts, events>>
    <3> DEFINE i == tasks[id]
    <3>1. /\ i \in Insts /\ ts[i].status = "CREATED"
          /\ ts' = [ts EXCEPT ![i].status = "RUNNING"]
          /\ Publish(id, "start", i, 0)
          /\ req[r].pc = "new" /\ Return(r) /\ UNCHANGED <<tasks, woken>>
      BY <1>4, <1>n, <1>t, <2>2 DEF Start
    <3>2. Becomes(i, "RUNNING", ts[i].exitStatus, ts[i].waiters)
      BY <1>t, <3>1 DEF Becomes, TaskState
    <3>3. Moves(r, "new", "done", NoInst)
      BY <3>1, ReturnMoves DEF Moves
    <3>4. Tells("start", i, 0)
      BY <3>1, PublishTells
    <3>5. Registered(i)
      BY DEF Registered
    <3>6. Starts(r, i)
      BY <3>1, <3>2, <3>3, <3>4, <3>5 DEF Starts
    <3> QED
      BY <3>1, <3>6 DEF Kind
  <2> QED
    BY <2>1, <2>2
<1>5. ASSUME NEW id \in TaskIds, NEW op, NEW c, Lookup(r, id, op, c) PROVE Kind(r)
  <2>1. CASE Return(r)
    BY <1>1, <1>5, <1>n, <2>1 DEF Lookup
  <2>2. CASE ~Return(r)
    <3>1. OnlyMoves(r) /\ req'[r].pc = "stop"
      BY <1>t, <1>5, <2>2 DEF Lookup, OnlyMoves
    <3> QED
      BY <1>2, <1>5, <1>n, <3>1 DEF Lookup
  <2> QED
    BY <2>1, <2>2
<1>6. ASSUME NEW id \in TaskIds, Wait(r, id) PROVE Kind(r)
  <2> DEFINE i == tasks[id]
  <2>0. req[r].pc = "new" /\ UNCHANGED <<tasks, woken, events>>
    BY <1>6, <1>n DEF Wait
  <2>1. CASE i = NoInst
    BY <1>1, <1>6, <2>0, <2>1 DEF Wait
  <2>2. CASE i # NoInst /\ ts[i].status = "STOPPED"
    <3>1. ReturnRecord(r, i, ts[i].exitStatus) /\ UNCHANGED ts
      BY <1>6, <2>2 DEF Wait
    <3>2. Answers(r, i)
      BY <2>0, <2>2, <3>1, RecordMoves DEF Answers, Moves
    <3> QED
      BY <1>t, <2>2, <3>2 DEF Kind
  <2>3. CASE i # NoInst /\ ts[i].status # "STOPPED"
    <3>1. /\ ts' = [ts EXCEPT ![i].waiters = @ \cup {r}]
          /\ req' = [req EXCEPT ![r] = [@ EXCEPT !.pc = "waiting", !.op = "Wait",
                                                 !.id = id, !.inst = i]]
      BY <1>6, <2>3 DEF Wait
    <3>2. Becomes(i, ts[i].status, ts[i].exitStatus, ts[i].waiters \cup {r})
      BY <1>t, <2>3, <3>1 DEF Becomes, TaskState
    <3>3. Moves(r, "new", "waiting", i)
      BY <1>t, <2>0, <3>1 DEF Moves, OnlyMoves, Request
    <3>4. Waits(r, i)
      BY <2>0, <2>3, <3>2, <3>3 DEF Waits
    <3> QED
      BY <1>t, <2>3, <3>4 DEF Kind
  <2> QED
    BY <2>1, <2>2, <2>3
<1>7. CASE Shutdown(r)
  <2>1. CASE Return(r)
    BY <1>1, <1>7, <1>n, <2>1 DEF Shutdown
  <2>2. CASE ~Return(r)
    <3>1. OnlyMoves(r) /\ req'[r].pc = "shutdown"
      BY <1>t, <1>7, <2>2 DEF Shutdown, OnlyMoves, Request
    <3> QED
      BY <1>2, <1>7, <1>n, <3>1 DEF Shutdown
  <2> QED
    BY <2>1, <2>2
<1> QED
  BY <1>3, <1>4, <1>5, <1>6, <1>7 DEF Call, Kill, Delete

\* So is every later step. (service.go, the handlers)
LEMMA ContinueKind ==
  ASSUME TypeInv, TaskInv, NEW r \in Reqs, Continue(r) \/ WaitCancelled(r)
  PROVE  Kind(r)
<1> USE DEF TypeInv
<1>t. /\ req \in [Reqs -> Request]
      /\ ts \in [Insts -> TaskState]
  BY DEF TypeOK
<1>k. /\ req[r].pc \in Holding => req[r].id \in TaskIds /\ req[r].inst \in Insts
      /\ Point(req[r])
  BY DEF LocalsKnown, Known, TaskInv
<1>1. ASSUME Return(r), UNCHANGED <<tasks, ts, woken, events>>,
             req[r].pc \in {"boot", "undo", "mark", "waiting", "shutdown"}
      PROVE  Kind(r)
  BY <1>1, ReturnMoves DEF Kind, Quiet, Publishing
<1>2. ASSUME OnlyMoves(r), req'[r].pc \in {"insert", "undo", "mark", "remove"},
             UNCHANGED <<tasks, ts, woken, events>>,
             req[r].pc \in {"boot", "insert", "stop", "mark"}
      PROVE  Kind(r)
  BY <1>2 DEF Kind, Quiet, Publishing
<1>3. CASE Boot(r)
  <2>1. CASE Return(r)
    BY <1>1, <1>3, <2>1 DEF Boot, At
  <2>2. CASE ~Return(r)
    <3>1. OnlyMoves(r) /\ req'[r].pc = "insert"
      BY <1>t, <1>3, <2>2 DEF Boot, OnlyMoves, Request
    <3> QED
      BY <1>2, <1>3, <3>1 DEF Boot, At
  <2> QED
    BY <2>1, <2>2
<1>4. CASE InsertTask(r)
  <2> DEFINE i == req[r].inst
             id == req[r].id
  <2>0. req[r].pc = "insert" /\ UNCHANGED <<woken, events>>
    BY <1>4 DEF InsertTask, At
  <2>1. CASE tasks[id] # NoInst
    BY <1>2, <1>4, <2>0, <2>1, GotoMoves DEF InsertTask
  <2>2. CASE tasks[id] = NoInst
    <3>1. /\ tasks' = [tasks EXCEPT ![id] = i]
          /\ ts' = [ts EXCEPT ![i].status = "CREATED"]
          /\ Goto(r, "pubCreate")
      BY <1>4, <2>2 DEF InsertTask
    <3>2. i \in Insts /\ id \in TaskIds /\ ts[i].status = "NONE"
      BY <1>k, <2>0 DEF Holding, Point
    <3>3. Becomes(i, "CREATED", ts[i].exitStatus, ts[i].waiters)
      BY <1>t, <3>1, <3>2 DEF Becomes, TaskState
    <3>4. Moves(r, "insert", "pubCreate", i)
      BY <2>0, <3>1, GotoMoves DEF Moves
    <3>5. Inserts(r)
      BY <2>0, <2>2, <3>1, <3>2, <3>3, <3>4 DEF Inserts
    <3> QED
      BY <3>5 DEF Kind
  <2> QED
    BY <2>1, <2>2
<1>5. CASE StopLoser(r)
  BY <1>1, <1>5 DEF StopLoser, At
<1>6. CASE StopSandbox(r)
  BY <1>2, <1>6, GotoMoves DEF StopSandbox, At
<1>7. CASE MarkExited(r)
  <2> DEFINE i == req[r].inst
  <2>0. /\ req[r].pc = "mark" /\ UNCHANGED <<tasks, events>>
        /\ i \in Insts /\ ts[i].status # "NONE"
    BY <1>7, <1>k DEF MarkExited, At, Holding, Point
  <2>1. CASE ts[i].status = "STOPPED"
    <3>1. AfterMark(r) /\ UNCHANGED <<ts, woken>>
      BY <1>7, <2>1 DEF MarkExited
    <3> QED
      BY <1>1, <1>2, <2>0, <3>1, GotoMoves DEF AfterMark
  <2>2. CASE ts[i].status # "STOPPED"
    <3>1. /\ ts' = [ts EXCEPT ![i] = [status |-> "STOPPED", exitStatus |-> req[r].code,
                                      waiters |-> {}]]
          /\ woken' = woken \cup ts[i].waiters
          /\ Goto(r, "pubExit")
      BY <1>7, <2>2 DEF MarkExited, RecordExit, Wake
    <3>2. Becomes(i, "STOPPED", req[r].code, {})
      BY <1>t, <2>0, <3>1 DEF Becomes
    <3>3. Moves(r, "mark", "pubExit", i) /\ req'[r].code = req[r].code
      BY <2>0, <3>1, GotoMoves DEF Moves
    <3>4. ts[i].status \in {"CREATED", "RUNNING"}
      BY <1>t, <2>0, <2>2 DEF TaskState, Statuses
    <3>5. Marks(r)
      BY <2>0, <3>1, <3>2, <3>3, <3>4 DEF Marks
    <3> QED
      BY <3>5 DEF Kind
  <2> QED
    BY <2>1, <2>2
<1>8. CASE PublishCreate(r)
  <2>1. req[r].pc = "pubCreate" /\ req[r].inst \in Insts /\ req[r].id \in TaskIds
    BY <1>8, <1>k DEF PublishCreate, At, Holding
  <2>2. Tells("create", req[r].inst, 0)
    BY <1>8, <2>1, PublishTells DEF PublishCreate
  <2>3. Publishes(r)
    BY <1>8, <2>1, <2>2, ReturnMoves DEF PublishCreate, Publishes, Publishing, TopicAt
  <2> QED
    BY <2>3 DEF Kind
<1>9. CASE PublishExit(r)
  <2>1. req[r].pc = "pubExit" /\ req[r].inst \in Insts /\ req[r].id \in TaskIds
    BY <1>9, <1>k DEF PublishExit, At, Holding
  <2>2. Tells("exit", req[r].inst, req[r].code)
    BY <1>9, <2>1, PublishTells DEF PublishExit
  <2>3. /\ OnlyMoves(r) /\ req'[r].pc \in {"done", "remove"}
        /\ req'[r].pc = "done" => req'[r].inst = NoInst
    BY <1>9, ReturnMoves, GotoMoves DEF PublishExit, AfterMark
  <2>4. Publishes(r)
    BY <1>9, <2>1, <2>2, <2>3 DEF PublishExit, Publishes, Publishing, TopicAt
  <2> QED
    BY <2>4 DEF Kind
<1>10. CASE RemoveTask(r)
  <2> DEFINE i == req[r].inst
  <2>1. /\ req[r].pc = "remove" /\ i \in Insts /\ req[r].id \in TaskIds
        /\ ts[i].status = "STOPPED"
    BY <1>10, <1>k DEF RemoveTask, At, Holding, Point
  <2>2. Moves(r, "remove", "pubDelete", i) /\ req'[r].code = ts[i].exitStatus
    BY <1>10, <1>t, <2>1 DEF RemoveTask, Moves, OnlyMoves, Request
  <2>3. Removes(r)
    BY <1>10, <2>1, <2>2 DEF RemoveTask, Removes
  <2> QED
    BY <2>3 DEF Kind
<1>11. CASE PublishDelete(r)
  <2>1. req[r].pc = "pubDelete" /\ req[r].inst \in Insts /\ req[r].id \in TaskIds
    BY <1>11, <1>k DEF PublishDelete, At, Holding
  <2>2. Tells("delete", req[r].inst, req[r].code)
    BY <1>11, <2>1, PublishTells DEF PublishDelete
  <2>3. /\ OnlyMoves(r) /\ req'[r].pc = "done"
        /\ req'[r].inst = req[r].inst /\ req'[r].code = req[r].code
    BY <1>11, RecordMoves DEF PublishDelete
  <2>4. Publishes(r)
    BY <1>11, <2>1, <2>2, <2>3 DEF PublishDelete, Publishes, Publishing, TopicAt
  <2> QED
    BY <2>4 DEF Kind
<1>12. CASE WaitWakes(r)
  <2>1. req[r].pc = "waiting" /\ r \in woken /\ req[r].inst \in Insts
    BY <1>12, <1>k DEF WaitWakes, At, Holding
  <2>2. Answers(r, req[r].inst)
    BY <1>12, <2>1, RecordMoves DEF WaitWakes, Answers, Moves
  <2> QED
    BY <2>1, <2>2 DEF Kind
<1>13. CASE WaitCancelled(r) \/ EndServing(r)
  BY <1>1, <1>13 DEF WaitCancelled, EndServing, At
<1> QED
  BY <1>3, <1>4, <1>5, <1>6, <1>7, <1>8, <1>9, <1>10, <1>11, <1>12, <1>13 DEF Continue

\* Every step of the system is of one of the kinds. (service.go)
LEMMA StepKind ==
  ASSUME TypeInv, TaskInv, [Next]_vars
  PROVE  Idle \/ \E r \in Reqs : Kind(r)
  BY CallKind, ContinueKind DEF Next, vars, SandboxDies, Idle

-----------------------------------------------------------------------------
(* What a step does to the events *)

\* An event in a list was there before, or it is the last and the one told.
LEMMA NewEvent ==
  ASSUME TypeInv, NEW topic, NEW i, NEW c, Tells(topic, i, c),
         NEW id \in TaskIds, NEW n \in DOMAIN events'[id]
  PROVE  \/ n \in DOMAIN events[id] /\ events'[id][n] = events[id][n]
         \/ /\ events'[id][n] = [topic |-> topic, inst |-> i, code |-> c]
            /\ \A m \in DOMAIN events'[id] :
                 m # n => m < n /\ m \in DOMAIN events[id] /\ events'[id][m] = events[id][m]
<1> DEFINE e == [topic |-> topic, inst |-> i, code |-> c]
<1>1. events[id] \in Seq(Event)
  BY DEF TypeInv, TypeOK
<1>2. CASE events'[id] = events[id]
  BY <1>2
<1>3. CASE events'[id] = Append(events[id], e)
  <2>1. /\ DOMAIN events[id] = 1..Len(events[id]) /\ Len(events[id]) \in Nat
        /\ DOMAIN events'[id] = 1..(Len(events[id]) + 1)
        /\ \A m \in 1..Len(events[id]) : events'[id][m] = events[id][m]
        /\ events'[id][Len(events[id]) + 1] = e
    BY <1>1, <1>3
  <2>2. CASE n \in DOMAIN events[id]
    BY <2>1, <2>2
  <2>3. CASE n \notin DOMAIN events[id]
    <3>1. n = Len(events[id]) + 1
      BY <2>1, <2>3
    <3> QED
      BY <2>1, <3>1
  <2> QED
    BY <2>2, <2>3
<1> QED
  BY <1>2, <1>3 DEF Tells

\* Nothing else has been told after it.
LEMMA ToldBefore ==
  ASSUME TypeInv, NEW topic, NEW i, NEW c, Tells(topic, i, c), NEW j, NEW t, ToldOf(j, t)'
  PROVE  ToldOf(j, t) \/ (j = i /\ t = topic)
<1>1. PICK id \in TaskIds : \E n \in DOMAIN events'[id] :
        events'[id][n].inst = j /\ events'[id][n].topic = t
  BY DEF ToldOf
<1>n. PICK n \in DOMAIN events'[id] : events'[id][n].inst = j /\ events'[id][n].topic = t
  BY <1>1
<1>2. CASE n \in DOMAIN events[id] /\ events'[id][n] = events[id][n]
  BY <1>n, <1>2 DEF ToldOf
<1>3. CASE events'[id][n] = [topic |-> topic, inst |-> i, code |-> c]
  BY <1>n, <1>3
<1> QED
  BY <1>2, <1>3, NewEvent

-----------------------------------------------------------------------------
(* ExitAgreement, for all clients *)

\* Once an object has exited it never changes.
ExitKept ==
  \A i \in Insts : ts[i].status = "STOPPED" =>
    ts'[i].status = "STOPPED" /\ ts'[i].exitStatus = ts[i].exitStatus

\* Each kind of step leaves the exits that are recorded alone. (service.go
\* markExited: exactly once)
LEMMA KindKeepsExit ==
  ASSUME NEW r \in Reqs, Kind(r)
  PROVE  ExitKept
  BY DEF ExitKept, Kind, Quiet, Inserts, Marks, Removes, Publishes, Starts, Waits,
         Answers, Becomes

\* A step that moves RPC r keeps what is known of exits if it is right about r,
\* about the event it sends and about whom it wakes.
LEMMA ExitKeep ==
  ASSUME TypeInv, TypeInv', ExitInv, NEW r \in Reqs, OnlyMoves(r), ExitKept,
         RecordRight(req[r])', req[r].pc # "done",
         \/ UNCHANGED events
         \/ \E topic, i, c :
              /\ Tells(topic, i, c)
              /\ topic \in {"exit", "delete"} => Recorded(i, c)',
         \A i \in Insts : \A q \in ts'[i].waiters :
           q \in ts[i].waiters \/ (q = r /\ req'[r].pc = "waiting" /\ req'[r].inst = i),
         \A q \in woken' :
           q \in woken \/ \E i \in Insts : q \in ts[i].waiters /\ ts'[i].status = "STOPPED",
         req[r].pc = "waiting" => req'[r].pc = "done",
         req'[r].pc = "waiting" => req[r].pc = "new"
  PROVE  ExitInv'
<1> USE DEF OnlyMoves
<1>t. /\ \A q \in Reqs : req[q].inst \in Insts \cup {NoInst}
      /\ \A q \in Reqs : req[q].pc \in {"waiting", "pubExit", "pubDelete"} => req[q].inst \in Insts
      /\ \A i \in Insts : ts[i].waiters \subseteq Reqs /\ ts'[i].waiters \subseteq Reqs
      /\ woken \subseteq Reqs /\ woken' \subseteq Reqs
      /\ events \in [TaskIds -> Seq(Event)]
  BY DEF TypeInv, TypeOK, LocalsKnown, Known, Holding, Request, TaskState
<1>1. \A q \in Reqs : RecordRight(req[q])'
  <2> SUFFICES ASSUME NEW q \in Reqs PROVE RecordRight(req[q])'
    OBVIOUS
  <2>1. CASE q # r
    <3>1. RecordRight(req[q]) /\ req'[q] = req[q]
      BY <2>1 DEF ExitInv
    <3> QED
      BY <1>t, <3>1 DEF RecordRight, Recorded, ExitKept
  <2> QED
    BY <2>1
<1>2. WaitersWait'
  <2>1. ASSUME NEW i \in Insts, NEW q \in ts'[i].waiters, req'[q].pc # "done"
        PROVE  req'[q].pc = "waiting" /\ req'[q].inst = i
    BY <1>t, <2>1 DEF ExitInv, WaitersWait
  <2>2. ASSUME NEW q \in woken', req'[q].pc # "done"
        PROVE  req'[q].pc = "waiting" /\ ts'[req'[q].inst].status = "STOPPED"
    BY <1>t, <2>2 DEF ExitInv, WaitersWait, ExitKept
  <2> QED
    BY <2>1, <2>2 DEF WaitersWait
<1>3. EventsRight'
  <2> SUFFICES ASSUME NEW id \in TaskIds, NEW n \in DOMAIN events'[id]
               PROVE  EventRight(events[id][n])'
    BY DEF EventsRight
  <2>1. ASSUME n \in DOMAIN events[id], events'[id][n] = events[id][n]
        PROVE  EventRight(events[id][n])'
    <3>1. EventRight(events[id][n])
      BY <2>1 DEF ExitInv, EventsRight
    <3>2. events[id][n] \in Event
      BY <1>t, <2>1
    <3>3. events[id][n].inst \in Insts
      BY <3>2 DEF Event
    <3> QED
      BY <2>1, <3>1, <3>3 DEF EventRight, Recorded, ExitKept
  <2>2. CASE UNCHANGED events
    BY <2>1, <2>2
  <2>3. CASE ~UNCHANGED events
    <3>1. PICK topic, i, c :
            /\ Tells(topic, i, c)
            /\ topic \in {"exit", "delete"} => Recorded(i, c)'
      BY <2>3
    <3>2. CASE events'[id][n] = [topic |-> topic, inst |-> i, code |-> c]
      BY <3>1, <3>2 DEF EventRight, Recorded
    <3> QED
      BY <2>1, <3>1, <3>2, NewEvent
  <2> QED
    BY <2>2, <2>3
<1> QED
  BY <1>1, <1>2, <1>3 DEF ExitInv

\* Every kind of step keeps it. (service.go markExited, Wait, Delete)
LEMMA ExitKind ==
  ASSUME TypeInv, TypeInv', TaskInv, ExitInv, NEW r \in Reqs, Kind(r)
  PROVE  ExitInv'
<1>0. ExitKept
  BY KindKeepsExit
<1>p. Point(req[r]) /\ RecordRight(req[r]) /\ WaitersWait
  BY DEF TaskInv, ExitInv
<1>1. CASE Quiet(r)
  BY <1>0, <1>1, ExitKeep DEF Quiet, RecordRight, Recorded, Publishing
<1>2. CASE Inserts(r)
  <2>1. \A i \in Insts : ts'[i].waiters = ts[i].waiters
    BY <1>2 DEF Inserts, Becomes
  <2>2. RecordRight(req[r])'
    BY <1>2 DEF Inserts, Moves, RecordRight
  <2>3. /\ OnlyMoves(r) /\ req[r].pc = "insert" /\ req'[r].pc = "pubCreate"
        /\ UNCHANGED <<woken, events>>
    BY <1>2 DEF Inserts, Moves
  <2> QED
    BY <1>0, <2>1, <2>2, <2>3, ExitKeep
<1>3. CASE Marks(r)
  <2>1. \A i \in Insts : ts'[i].waiters \subseteq ts[i].waiters
    BY <1>3 DEF Marks, Becomes
  <2>2. RecordRight(req[r])'
    BY <1>3 DEF Marks, Moves, Becomes, RecordRight, Recorded
  <2>3. \A q \in woken' :
          q \in woken \/ \E i \in Insts : q \in ts[i].waiters /\ ts'[i].status = "STOPPED"
    BY <1>3 DEF Marks, Becomes
  <2> QED
    BY <1>0, <1>3, <2>1, <2>2, <2>3, ExitKeep DEF Marks, Moves
<1>4. CASE Removes(r)
  BY <1>0, <1>4, ExitKeep DEF Removes, Moves, RecordRight, Recorded
<1>5. CASE Publishes(r)
  <2> DEFINE topic == TopicAt(req[r].pc)
             i     == req[r].inst
             c     == IF req[r].pc = "pubCreate" THEN 0 ELSE req[r].code
  <2>1. Tells(topic, i, c) /\ UNCHANGED <<tasks, ts, woken>>
    BY <1>5 DEF Publishes
  <2>2. topic \in {"exit", "delete"} => ts'[i].status = "STOPPED" /\ ts'[i].exitStatus = c
    BY <1>p, <1>5, <2>1 DEF Publishes, Publishing, TopicAt, RecordRight, Recorded
  <2>3. RecordRight(req[r])'
    BY <1>p, <1>5 DEF Publishes, RecordRight, Recorded
  <2>4. \E t, j, k : Tells(t, j, k) /\ (t \in {"exit", "delete"} => Recorded(j, k)')
    BY <2>1, <2>2 DEF Recorded
  <2>5. /\ OnlyMoves(r) /\ req[r].pc \notin {"done", "waiting"}
        /\ req'[r].pc # "waiting"
    BY <1>5 DEF Publishes, Publishing
  <2> QED
    BY <1>0, <2>1, <2>3, <2>4, <2>5, ExitKeep
<1>6. ASSUME NEW i \in Insts, Starts(r, i) PROVE ExitInv'
  <2>1. \A j \in Insts : ts'[j].waiters = ts[j].waiters
    BY <1>6 DEF Starts, Becomes
  <2>2. Tells("start", i, 0)
    BY <1>6 DEF Starts
  <2>3. \E t, j, k : Tells(t, j, k) /\ (t \in {"exit", "delete"} => Recorded(j, k)')
    BY <2>2
  <2> QED
    BY <1>0, <1>6, <2>1, <2>3, ExitKeep DEF Starts, Moves, RecordRight, Recorded
<1>7. ASSUME NEW i \in Insts, Waits(r, i) PROVE ExitInv'
  <2>1. \A j \in Insts : \A q \in ts'[j].waiters : q \in ts[j].waiters \/ (q = r /\ j = i)
    BY <1>7 DEF Waits, Becomes
  <2> QED
    BY <1>0, <1>7, <2>1, ExitKeep DEF Waits, Moves, RecordRight, Recorded
<1>8. ASSUME NEW i \in Insts, Answers(r, i) PROVE ExitInv'
  <2>1. ts[i].status = "STOPPED"
    BY <1>p, <1>8 DEF Answers, Moves, WaitersWait
  <2> QED
    BY <1>0, <1>8, <2>1, ExitKeep DEF Answers, Moves, RecordRight, Recorded
<1> QED
  BY <1>1, <1>2, <1>3, <1>4, <1>5, <1>6, <1>7, <1>8 DEF Kind

\* Nothing has exited and nobody waits when the service starts.
LEMMA ExitInit == Init => ExitInv
<1> SUFFICES ASSUME Init PROVE ExitInv
  OBVIOUS
<1>1. /\ \A r \in Reqs : req[r].pc = "new"
      /\ \A i \in Insts : ts[i].waiters = {}
      /\ woken = {}
  BY DEF Init, NewReq, NoTask
<1>2. \A id \in TaskIds : DOMAIN events[id] = {}
  <2>1. \A id \in TaskIds : events[id] = <<>>
    BY DEF Init
  <2>2. \A n : n \notin DOMAIN <<>>
    OBVIOUS
  <2> QED
    BY <2>1, <2>2, Zenon
<1> QED
  BY <1>1, <1>2 DEF ExitInv, RecordRight, WaitersWait, EventsRight

\* No step breaks it.
LEMMA ExitStep ==
  ASSUME TypeInv, TypeInv', TaskInv, ExitInv, [Next]_vars
  PROVE  ExitInv'
<1>1. CASE Idle
  BY <1>1 DEF Idle, ExitInv, RecordRight, WaitersWait, EventsRight, EventRight, Recorded
<1> QED
  BY <1>1, StepKind, ExitKind

\* What is inductive for all clients always holds. (service.go)
LEMMA ExitInvariant == Spec => [](TypeInv /\ TaskInv /\ ExitInv)
<1>1. Init => TypeInv /\ TaskInv /\ ExitInv
  BY TypeInit, TaskInit, ExitInit
<1>2. (TypeInv /\ TaskInv /\ ExitInv) /\ [Next]_vars => (TypeInv /\ TaskInv /\ ExitInv)'
  BY TypeStep, TaskStep, ExitStep
<1> QED
  BY <1>1, <1>2, PTL DEF Spec

\* Whatever the clients do, every Wait and Delete answer and every TaskExit and
\* TaskDelete event about an object carries the code of its one exit.
\* (service.go markExited: exactly once)
THEOREM OneExit == Spec => []ExitAgreement
<1>1. ExitInv => ExitAgreement
  BY DEF ExitInv, ExitAgreement, RecordRight, Answered, At, ExitEvents, EventsRight, EventRight, Recorded
<1> QED
  BY <1>1, ExitInvariant, PTL

-----------------------------------------------------------------------------
(* EventsOnce, for clients that issue the Deletes of one ID one by one *)

\* Objects only go forward.
Forward ==
  \A i \in Insts :
    /\ ts'[i].status = "NONE" => ts[i].status = "NONE"
    /\ ts[i].status \in {"RUNNING", "STOPPED"} => ts'[i].status \in {"RUNNING", "STOPPED"}

\* A kind of step never takes an object back. (service.go)
LEMMA KindForward ==
  ASSUME TypeInv, TypeInv', NEW r \in Reqs, Kind(r)
  PROVE  Forward
  BY DEF TypeInv, TypeOK, TaskState, Statuses, Forward, Kind, Quiet, Inserts, Marks, Removes,
         Publishes, Starts, Waits, Answers, Becomes

\* Who has been told of an exit is right that it happened.
LEMMA ToldStopped ==
  ASSUME ExitInv, NEW i, NEW t \in {"exit", "delete"}, ToldOf(i, t)
  PROVE  ts[i].status = "STOPPED"
  BY DEF ExitInv, EventsRight, EventRight, Recorded, ToldOf

\* What moves r has to show of the event r is going to send.
Fresh(r) ==
  req'[r].pc \in Publishing =>
    /\ \A q \in Reqs : q # r /\ req[q].pc = req'[r].pc => req[q].inst # req'[r].inst
    /\ ~ToldOf(req'[r].inst, TopicAt(req'[r].pc))
    /\ req'[r].pc = "pubDelete" => ~Registered(req[r].inst)'

\* A step that sends nothing.
LEMMA SilentKeep ==
  ASSUME TypeInv, TaskInv, ExitInv, EventInv, NEW r \in Reqs, OnlyMoves(r), Forward,
         UNCHANGED events, OneId', Fresh(r),
         \A i \in Insts : Registered(i)' => Registered(i) \/ ts[i].status = "NONE"
  PROVE  EventInv'
<1> USE DEF OnlyMoves
<1>t. \A q \in Reqs : req[q].pc \in Publishing => req[q].inst \in Insts
  BY DEF TypeInv, LocalsKnown, Known, Publishing, Holding
<1>e. \A i, t : ToldOf(i, t)' <=> ToldOf(i, t)
  BY DEF ToldOf
<1>1. OnePublisher'
  <2> SUFFICES ASSUME NEW p \in Reqs, NEW q \in Reqs, req'[p].pc \in Publishing,
                      req'[q].pc = req'[p].pc, req'[q].inst = req'[p].inst
               PROVE  p = q
    BY DEF OnePublisher
  <2> QED
    BY DEF EventInv, OnePublisher, Fresh
<1>2. NotYetTold'
  <2> SUFFICES ASSUME NEW q \in Reqs, req'[q].pc \in Publishing
               PROVE  ~ToldOf(req[q].inst, TopicAt(req[q].pc))'
    BY DEF NotYetTold
  <2>1. ~ToldOf(req'[q].inst, TopicAt(req'[q].pc))
    BY DEF EventInv, NotYetTold, Fresh
  <2> QED
    BY <2>1 DEF ToldOf, TopicAt
<1>3. ToldTrue'
  <2> SUFFICES ASSUME NEW i \in Insts
               PROVE  /\ ToldOf(i, "create") => ts'[i].status # "NONE"
                      /\ ToldOf(i, "start") => ts'[i].status \in {"RUNNING", "STOPPED"}
                      /\ ToldOf(i, "delete") => ~Registered(i)'
    BY <1>e DEF ToldTrue, Registered
  <2>1. ToldOf(i, "delete") => ts[i].status = "STOPPED"
    BY ToldStopped
  <2> QED
    BY <2>1 DEF EventInv, ToldTrue, Forward
<1>4. GoneIsGone'
  <2> SUFFICES ASSUME NEW q \in Reqs, req'[q].pc = "pubDelete"
               PROVE  ~Registered(req[q].inst)'
    BY DEF GoneIsGone
  <2>1. CASE q = r
    BY <2>1 DEF Fresh, Publishing, Registered
  <2>2. CASE q # r
    <3>1. req'[q] = req[q] /\ Point(req[q]) /\ req[q].inst \in Insts
      BY <1>t, <2>2 DEF TaskInv, Publishing
    <3>2. ts[req[q].inst].status = "STOPPED" /\ ~Registered(req[q].inst)
      BY <3>1 DEF Point, EventInv, GoneIsGone
    <3> QED
      BY <3>1, <3>2 DEF Registered
  <2> QED
    BY <2>1, <2>2
<1>5. EventsOnce'
  BY DEF EventInv, EventsOnce
<1> QED
  BY <1>1, <1>2, <1>3, <1>4, <1>5 DEF EventInv

\* A step that sends an event.
LEMMA TellKeep ==
  ASSUME TypeInv, TaskInv, ExitInv, EventInv, NEW r \in Reqs, OnlyMoves(r), Forward,
         UNCHANGED tasks, req'[r].pc \notin Publishing,
         NEW topic, NEW i \in Insts, NEW c, Tells(topic, i, c),
         ~ToldOf(i, topic),
         topic = "start" => ~ToldOf(i, "exit") /\ ~ToldOf(i, "delete"),
         topic = "start" => ts'[i].status = "RUNNING",
         topic = "create" => ts[i].status # "NONE",
         topic = "delete" => ~Registered(i),
         \A q \in Reqs : q # r /\ req[q].pc \in Publishing /\ req[q].inst = i =>
           TopicAt(req[q].pc) # topic
  PROVE  EventInv'
<1> USE DEF OnlyMoves
<1>e. \A j, t : ToldOf(j, t)' => ToldOf(j, t) \/ (j = i /\ t = topic)
  BY ToldBefore
<1>1. OneId' /\ OnePublisher' /\ GoneIsGone'
  BY DEF EventInv, OneId, OnePublisher, GoneIsGone, Registered, Publishing
<1>2. NotYetTold'
  <2> SUFFICES ASSUME NEW q \in Reqs, req'[q].pc \in Publishing
               PROVE  ~ToldOf(req[q].inst, TopicAt(req[q].pc))'
    BY DEF NotYetTold
  <2>1. q # r /\ req'[q] = req[q]
    OBVIOUS
  <2>2. ~ToldOf(req[q].inst, TopicAt(req[q].pc))
    BY <2>1 DEF EventInv, NotYetTold
  <2> DEFINE t == TopicAt(req[q].pc)
  <2>3. req[q].inst = i => t # topic
    BY <2>1
  <2>4. ASSUME NEW id \in TaskIds, NEW n \in DOMAIN events'[id],
               events'[id][n].inst = req[q].inst, events'[id][n].topic = t
        PROVE  FALSE
    <3>1. CASE n \in DOMAIN events[id] /\ events'[id][n] = events[id][n]
      BY <2>2, <2>4, <3>1 DEF ToldOf
    <3>2. CASE events'[id][n] = [topic |-> topic, inst |-> i, code |-> c]
      BY <2>3, <2>4, <3>2
    <3> QED
      BY <3>1, <3>2, NewEvent
  <2>5. t' = t
    BY <2>1 DEF TopicAt
  <2> HIDE DEF t
  <2>6. ~ToldOf(req[q].inst, t)'
    BY <2>1, <2>4, <2>5 DEF ToldOf
  <2> QED
    BY <2>6 DEF t
<1>3. ToldTrue'
  <2> SUFFICES ASSUME NEW j \in Insts
               PROVE  /\ ToldOf(j, "create")' => ts'[j].status # "NONE"
                      /\ ToldOf(j, "start")' => ts'[j].status \in {"RUNNING", "STOPPED"}
                      /\ ToldOf(j, "delete")' => ~Registered(j)'
    BY DEF ToldTrue
  <2> QED
    BY <1>e DEF EventInv, ToldTrue, Forward, Registered
<1>4. EventsOnce'
  <2> SUFFICES ASSUME NEW id \in TaskIds, NEW m \in DOMAIN events'[id],
                      NEW n \in DOMAIN events'[id], m < n,
                      events'[id][m].inst = events'[id][n].inst
               PROVE  /\ events'[id][m].topic # events'[id][n].topic
                      /\ ~(/\ events'[id][m].topic \in {"exit", "delete"}
                           /\ events'[id][n].topic = "start")
    BY DEF EventsOnce
  <2>0. m \in Nat /\ n \in Nat
    <3>1. events'[id] \in Seq(Event) \/ \E e : events'[id] = Append(events[id], e)
      BY DEF Tells, TypeInv, TypeOK
    <3>2. events[id] \in Seq(Event)
      BY DEF TypeInv, TypeOK
    <3> QED
      BY <3>1, <3>2
  <2>1. m \in DOMAIN events[id] /\ events'[id][m] = events[id][m]
    <3>1. \/ m \in DOMAIN events[id] /\ events'[id][m] = events[id][m]
          \/ \A k \in DOMAIN events'[id] : k # m => k < m
      BY NewEvent
    <3> QED
      BY <2>0, <3>1
  <2>2. CASE n \in DOMAIN events[id] /\ events'[id][n] = events[id][n]
    BY <2>1, <2>2 DEF EventInv, EventsOnce
  <2>3. CASE events'[id][n] = [topic |-> topic, inst |-> i, code |-> c]
    <3>1. ToldOf(i, events[id][m].topic)
      BY <2>1, <2>3 DEF ToldOf
    <3> QED
      BY <2>1, <2>3, <3>1
  <2> QED
    BY <2>2, <2>3, NewEvent
<1> QED
  BY <1>1, <1>2, <1>3, <1>4 DEF EventInv

\* Every kind of step keeps it. (service.go Start, markExited, Delete)
LEMMA EventKind ==
  ASSUME TypeInv, TypeInv', TaskInv, ExitInv, SerialInv, EventInv, NEW r \in Reqs, Kind(r)
  PROVE  EventInv'
<1>0. Forward
  BY KindForward
<1>t. /\ tasks \in [TaskIds -> Insts \cup {NoInst}]
      /\ \A q \in Reqs : Point(req[q])
      /\ \A q \in Reqs : req[q].pc \in Publishing => req[q].inst \in Insts
  BY DEF TypeInv, TypeOK, TaskInv, LocalsKnown, Known, Publishing, Holding
<1>u. UNCHANGED tasks => OneId' /\ \A i \in Insts : Registered(i)' => Registered(i)
  BY DEF EventInv, OneId, Registered
<1>1. CASE Quiet(r)
  BY <1>0, <1>1, <1>u, SilentKeep DEF Quiet, Fresh
<1>2. CASE Inserts(r)
  <2> DEFINE i  == req[r].inst
             id == req[r].id
  <2>1. /\ i \in Insts /\ id \in TaskIds /\ ts[i].status = "NONE"
        /\ tasks' = [tasks EXCEPT ![id] = i]
        /\ OnlyMoves(r) /\ req'[r].pc = "pubCreate" /\ req'[r].inst = i
        /\ UNCHANGED events
    BY <1>2 DEF Inserts, Moves
  <2>2. \A x \in TaskIds : tasks[x] # i
    BY <2>1, ConstantsAssumption DEF TaskInv, Listed
  <2>3. tasks'[id] = i /\ \A x \in TaskIds : x # id => tasks'[x] = tasks[x]
    BY <1>t, <2>1
  <2>4. OneId'
    BY <2>2, <2>3 DEF EventInv, OneId
  <2>5. \A j \in Insts : Registered(j)' => Registered(j) \/ ts[j].status = "NONE"
    BY <2>1, <2>3 DEF Registered
  <2>6. Fresh(r)
    <3>1. \A q \in Reqs : q # r /\ req[q].pc = "pubCreate" => req[q].inst # i
      BY <1>t, <2>1 DEF Point, Holding
    <3>2. ~ToldOf(i, "create")
      BY <2>1 DEF EventInv, ToldTrue
    <3> QED
      BY <2>1, <3>1, <3>2 DEF Fresh, TopicAt
  <2> QED
    BY <1>0, <2>1, <2>4, <2>5, <2>6, SilentKeep
<1>3. CASE Marks(r)
  <2> DEFINE i == req[r].inst
  <2>1. /\ i \in Insts /\ ts[i].status # "STOPPED"
        /\ OnlyMoves(r) /\ req'[r].pc = "pubExit" /\ req'[r].inst = i
        /\ UNCHANGED <<tasks, events>>
    BY <1>3 DEF Marks, Moves
  <2>2. Fresh(r)
    <3>1. \A q \in Reqs : q # r /\ req[q].pc = "pubExit" => req[q].inst # i
      BY <1>t, <2>1 DEF Point
    <3>2. ~ToldOf(i, "exit")
      BY <2>1, ToldStopped
    <3> QED
      BY <2>1, <3>1, <3>2 DEF Fresh, TopicAt
  <2> QED
    BY <1>0, <1>u, <2>1, <2>2, SilentKeep
<1>4. CASE Removes(r)
  <2> DEFINE i  == req[r].inst
             id == req[r].id
  <2>1. /\ i \in Insts /\ id \in TaskIds /\ req[r].pc = "remove"
        /\ tasks' = [tasks EXCEPT ![id] = NoInst]
        /\ OnlyMoves(r) /\ req'[r].pc = "pubDelete" /\ req'[r].inst = i
        /\ UNCHANGED events
    BY <1>4 DEF Removes, Moves
  <2>2. tasks[id] = i
    BY <2>1 DEF SerialInv, DeleteHolds, Deleting
  <2>3. tasks'[id] = NoInst /\ \A x \in TaskIds : x # id => tasks'[x] = tasks[x]
    BY <1>t, <2>1
  <2>4. OneId'
    BY <2>3 DEF EventInv, OneId
  <2>5. \A j \in Insts : Registered(j)' => Registered(j)
    BY <2>3, ConstantsAssumption DEF Registered
  <2>6. Registered(i) /\ ~Registered(i)'
    BY <2>1, <2>2, <2>3, ConstantsAssumption DEF Registered, EventInv, OneId
  <2>7. Fresh(r)
    <3>1. \A q \in Reqs : q # r /\ req[q].pc = "pubDelete" => req[q].inst # i
      BY <2>6 DEF EventInv, GoneIsGone
    <3>2. ~ToldOf(i, "delete")
      BY <2>1, <2>6 DEF EventInv, ToldTrue
    <3>3. ~Registered(req[r].inst)'
      BY <2>1, <2>6 DEF Registered
    <3> QED
      BY <2>1, <3>1, <3>2, <3>3 DEF Fresh, TopicAt
  <2> QED
    BY <1>0, <2>1, <2>4, <2>5, <2>7, SilentKeep
<1>5. CASE Publishes(r)
  <2> DEFINE topic == TopicAt(req[r].pc)
             i     == req[r].inst
             c     == IF req[r].pc = "pubCreate" THEN 0 ELSE req[r].code
  <2>1. /\ i \in Insts /\ req[r].pc \in Publishing /\ OnlyMoves(r)
        /\ req'[r].pc \notin Publishing /\ Tells(topic, i, c) /\ UNCHANGED tasks
    BY <1>5 DEF Publishes, Publishing
  <2>2. ~ToldOf(i, topic)
    BY <2>1 DEF EventInv, NotYetTold
  <2>3. topic # "start"
    BY <2>1 DEF Publishing, TopicAt
  <2>4. \A q \in Reqs : q # r /\ req[q].pc \in Publishing /\ req[q].inst = i =>
          TopicAt(req[q].pc) # topic
    BY <2>1 DEF EventInv, OnePublisher, Publishing, TopicAt
  <2>5. topic = "create" => ts[i].status # "NONE"
    BY <1>t, <2>1 DEF TopicAt, Publishing, Point, Holding
  <2>6. topic = "delete" => ~Registered(i)
    BY <2>1 DEF TopicAt, Publishing, EventInv, GoneIsGone
  <2> QED
    BY <1>0, <2>1, <2>2, <2>3, <2>4, <2>5, <2>6, TellKeep
<1>6. ASSUME NEW i \in Insts, Starts(r, i) PROVE EventInv'
  <2>1. /\ OnlyMoves(r) /\ req'[r].pc = "done" /\ ts[i].status = "CREATED"
        /\ ts'[i].status = "RUNNING" /\ Tells("start", i, 0) /\ UNCHANGED tasks
    BY <1>6 DEF Starts, Moves, Becomes
  <2>2. ~ToldOf(i, "start") /\ ~ToldOf(i, "exit") /\ ~ToldOf(i, "delete")
    BY <2>1, ToldStopped DEF EventInv, ToldTrue
  <2>3. \A q \in Reqs : req[q].pc \in Publishing => TopicAt(req[q].pc) # "start"
    BY DEF Publishing, TopicAt
  <2> QED
    BY <1>0, <2>1, <2>2, <2>3, TellKeep DEF Publishing
<1>7. ASSUME NEW i \in Insts, Waits(r, i) \/ Answers(r, i) PROVE EventInv'
  <2>1. OnlyMoves(r) /\ req'[r].pc \notin Publishing /\ UNCHANGED <<tasks, events>>
    BY <1>7 DEF Waits, Answers, Moves, Publishing
  <2> QED
    BY <1>0, <1>u, <2>1, SilentKeep DEF Fresh
<1> QED
  BY <1>1, <1>2, <1>3, <1>4, <1>5, <1>6, <1>7 DEF Kind

\* Nothing has been told when the service starts.
LEMMA EventInit == Init => EventInv
<1> SUFFICES ASSUME Init PROVE EventInv
  OBVIOUS
<1>1. /\ \A r \in Reqs : req[r].pc = "new"
      /\ \A id \in TaskIds : tasks[id] = NoInst
  BY DEF Init, NewReq
<1>2. \A id \in TaskIds : DOMAIN events[id] = {}
  <2>1. \A id \in TaskIds : events[id] = <<>>
    BY DEF Init
  <2>2. \A n : n \notin DOMAIN <<>>
    OBVIOUS
  <2> QED
    BY <2>1, <2>2, Zenon
<1> QED
  BY <1>1, <1>2 DEF EventInv, OneId, OnePublisher, NotYetTold, ToldTrue, ToldOf, GoneIsGone,
                    EventsOnce, Publishing

\* No step breaks it.
LEMMA EventStep ==
  ASSUME TypeInv, TypeInv', TaskInv, ExitInv, SerialInv, EventInv, [Next]_vars
  PROVE  EventInv'
<1>1. CASE Idle
  BY <1>1 DEF Idle, EventInv, OneId, OnePublisher, NotYetTold, ToldTrue, ToldOf, GoneIsGone,
              EventsOnce, Registered
<1> QED
  BY <1>1, StepKind, EventKind

\* What is inductive for serial clients always holds. (service.go)
LEMMA EventInvariant ==
  ASSUME Client # "any"
  PROVE  Spec => [](TypeInv /\ TaskInv /\ ExitInv /\ SerialInv /\ EventInv)
<1>1. Init => EventInv
  BY EventInit
<1>2. /\ TypeInv /\ TaskInv /\ ExitInv /\ SerialInv /\ EventInv
      /\ [Next]_vars
      /\ (TypeInv /\ TaskInv /\ SerialInv)' /\ ExitInv'
      => EventInv'
  BY EventStep
<1> QED
  BY <1>1, <1>2, ExitInvariant, SerialInvariant, PTL DEF Spec

\* Containerd is told of each step of an object at most once, and never of a
\* start after the exit, as long as the Deletes of one ID do not overlap.
\* (service.go Start, markExited, Delete)
THEOREM ToldOnce ==
  ASSUME Client # "any"
  PROVE  Spec => []EventsOnce
<1>1. EventInv => EventsOnce
  BY DEF EventInv
<1> QED
  BY <1>1, EventInvariant, PTL

-----------------------------------------------------------------------------
(* ShimTask implements TaskLifecycle, for the same clients *)

\* An object that has not exited is still in the table.
AliveListed == \A i \in Insts : ts[i].status \in {"CREATED", "RUNNING"} => Registered(i)

\* A step keeps it: a Delete takes out the object it tore down. (service.go Delete)
LEMMA AliveStep ==
  ASSUME TypeInv, TaskInv, SerialInv, AliveListed, [Next]_vars
  PROVE  AliveListed'
<1>t. tasks \in [TaskIds -> Insts \cup {NoInst}]
  BY DEF TypeInv, TypeOK
<1>1. CASE UNCHANGED tasks /\ \A i \in Insts : ts'[i].status \in {"CREATED", "RUNNING"} =>
                                               ts[i].status \in {"CREATED", "RUNNING"}
  BY <1>1 DEF AliveListed, Registered
<1>2. ASSUME NEW r \in Reqs, Inserts(r) PROVE AliveListed'
  <2> DEFINE i  == req[r].inst
             id == req[r].id
  <2>1. /\ i \in Insts /\ id \in TaskIds
        /\ tasks[id] = NoInst /\ tasks' = [tasks EXCEPT ![id] = i]
        /\ \A j \in Insts : j # i => ts'[j] = ts[j]
    BY <1>2 DEF Inserts, Becomes
  <2>2. tasks'[id] = i /\ \A x \in TaskIds : x # id => tasks'[x] = tasks[x]
    BY <1>t, <2>1
  <2> QED
    BY <2>1, <2>2, ConstantsAssumption DEF AliveListed, Registered
<1>3. ASSUME NEW r \in Reqs, Removes(r) PROVE AliveListed'
  <2> DEFINE id == req[r].id
  <2>1. /\ req[r].pc = "remove" /\ id \in TaskIds /\ ts[req[r].inst].status = "STOPPED"
        /\ tasks' = [tasks EXCEPT ![id] = NoInst] /\ UNCHANGED ts
    BY <1>3 DEF Removes, Moves
  <2>2. tasks[id] = req[r].inst
    BY <2>1 DEF SerialInv, DeleteHolds, Deleting
  <2>3. \A x \in TaskIds : x # id => tasks'[x] = tasks[x]
    BY <1>t, <2>1
  <2> QED
    BY <2>1, <2>2, <2>3 DEF AliveListed, Registered
<1>4. ASSUME NEW r \in Reqs, Kind(r) PROVE AliveListed'
  <2>1. \/ Inserts(r) \/ Removes(r)
        \/ /\ UNCHANGED tasks
           /\ \A i \in Insts : ts'[i].status \in {"CREATED", "RUNNING"} =>
                               ts[i].status \in {"CREATED", "RUNNING"}
    BY <1>4 DEF Kind, Quiet, Marks, Publishes, Starts, Waits, Answers, Becomes
  <2> QED
    BY <1>1, <1>2, <1>3, <2>1
<1>5. CASE Idle
  BY <1>1, <1>5 DEF Idle
<1> QED
  BY <1>4, <1>5, StepKind

\* Everything that is inductive for serial clients.
LifeInv == TypeInv /\ TaskInv /\ SerialInv /\ EventInv /\ AliveListed

\* It always holds. (service.go)
LEMMA LifeInvariant ==
  ASSUME Client # "any"
  PROVE  Spec => []LifeInv
<1>1. Init => AliveListed
  BY DEF Init, NoTask, AliveListed
<1>2. (TypeInv /\ TaskInv /\ SerialInv) /\ AliveListed /\ [Next]_vars => AliveListed'
  BY AliveStep
<1> QED
  BY <1>1, <1>2, EventInvariant, PTL DEF Spec, LifeInv

\* The phase of an object depends on its status and on its being listed only.
LEMMA PhaseKept ==
  ASSUME NEW i \in Insts, ts'[i].status = ts[i].status, Registered(i)' <=> Registered(i)
  PROVE  Phase(i)' = Phase(i)
  BY DEF Phase

\* The phases of the two specifications change together.
LEMMA PhaseEntered ==
  ASSUME NEW i \in Insts, NEW from, NEW to, Phase(i) \in from, Phase(i)' = to,
         \A j \in Insts : j # i => Phase(j)' = Phase(j)
  PROVE  Lifecycle!Enter(i, from, to)
  BY DEF Lifecycle!Enter

\* The exit codes stay.
LEMMA CodesKept ==
  ASSUME \A i \in Insts : ts'[i].exitStatus = ts[i].exitStatus
  PROVE  [i \in Insts |-> ts[i].exitStatus]' = [i \in Insts |-> ts[i].exitStatus]
  OBVIOUS

\* Every kind of step is a step of TaskLifecycle, or changes nothing there.
\* (service.go, the handlers)
LEMMA KindRefines ==
  ASSUME LifeInv, LifeInv', NEW r \in Reqs, Kind(r)
  PROVE  [Lifecycle!Next]_(Lifecycle!lifecycle)
<1> USE DEF LifeInv
<1>t. /\ tasks \in [TaskIds -> Insts \cup {NoInst}]
      /\ ts \in [Insts -> TaskState] /\ ts' \in [Insts -> TaskState]
  BY DEF TypeInv, TypeOK
<1>1. ASSUME UNCHANGED tasks,
             \A i \in Insts : /\ ts'[i].status = ts[i].status
                              /\ ts'[i].exitStatus = ts[i].exitStatus
      PROVE  UNCHANGED Lifecycle!lifecycle
  <2>1. \A i \in Insts : Phase(i)' = Phase(i)
    BY <1>1, PhaseKept DEF Registered
  <2> QED
    BY <1>1, <2>1, CodesKept DEF Lifecycle!lifecycle
<1>2. CASE Quiet(r) \/ Publishes(r) \/ \E i \in Insts : Waits(r, i) \/ Answers(r, i)
  BY <1>1, <1>2 DEF Quiet, Publishes, Waits, Answers, Becomes
<1>3. CASE Inserts(r)
  <2> DEFINE i  == req[r].inst
             id == req[r].id
  <2>1. /\ i \in Insts /\ id \in TaskIds /\ ts[i].status = "NONE"
        /\ tasks[id] = NoInst /\ tasks' = [tasks EXCEPT ![id] = i]
        /\ ts'[i].status = "CREATED" /\ ts'[i].exitStatus = ts[i].exitStatus
        /\ \A j \in Insts : j # i => ts'[j] = ts[j]
        /\ req'[r].inst = i
    BY <1>3 DEF Inserts, Moves, Becomes
  <2>2. tasks'[id] = i /\ \A x \in TaskIds : x # id => tasks'[x] = tasks[x]
    BY <1>t, <2>1
  <2>3. Phase(i) = "absent" /\ Phase(i)' = "created"
    BY <2>1, <2>2 DEF Phase, Registered
  <2>4. \A j \in Insts : j # i => Phase(j)' = Phase(j)
    <3> SUFFICES ASSUME NEW j \in Insts, j # i PROVE Phase(j)' = Phase(j)
      OBVIOUS
    <3>1. Registered(j)' <=> Registered(j)
      BY <2>1, <2>2, ConstantsAssumption DEF Registered
    <3> QED
      BY <2>1, <3>1, PhaseKept
  <2>5. Lifecycle!Enter(i, {"absent"}, "created")
    BY <2>1, <2>3, <2>4, PhaseEntered
  <2>6. Lifecycle!Create(i)
    BY <2>1, <2>5, CodesKept DEF Lifecycle!Create
  <2> QED
    BY <2>1, <2>6 DEF Lifecycle!Next
<1>4. ASSUME NEW i \in Insts, Starts(r, i) PROVE Lifecycle!Next
  <2>1. /\ Registered(i) /\ ts[i].status = "CREATED" /\ ts'[i].status = "RUNNING"
        /\ ts'[i].exitStatus = ts[i].exitStatus
        /\ \A j \in Insts : j # i => ts'[j] = ts[j]
        /\ UNCHANGED tasks
    BY <1>4 DEF Starts, Becomes
  <2>2. Phase(i) = "created" /\ Phase(i)' = "running"
    BY <2>1 DEF Phase, Registered
  <2>3. \A j \in Insts : j # i => Phase(j)' = Phase(j)
    BY <2>1, PhaseKept DEF Registered
  <2>4. Lifecycle!Enter(i, {"created"}, "running")
    BY <2>2, <2>3, PhaseEntered
  <2>5. Lifecycle!Start(i)
    BY <2>1, <2>4, CodesKept DEF Lifecycle!Start
  <2> QED
    BY <2>5 DEF Lifecycle!Next
<1>5. CASE Marks(r)
  <2>0. PICK i \in Insts, c \in ExitCodes : i = req[r].inst /\ c = req[r].code
    BY <1>5 DEF Marks, TypeInv, TypeOK, Request
  <2>1. /\ ts[i].status \in {"CREATED", "RUNNING"}
        /\ ts'[i].status = "STOPPED" /\ ts'[i].exitStatus = c
        /\ \A j \in Insts : j # i => ts'[j] = ts[j]
        /\ UNCHANGED tasks
    BY <1>5, <2>0 DEF Marks, Becomes
  <2>2. Registered(i) /\ Registered(i)'
    BY <2>1 DEF AliveListed, Registered
  <2>3. Phase(i) \in {"created", "running"} /\ Phase(i)' = "exited"
    BY <2>1, <2>2 DEF Phase
  <2>4. \A j \in Insts : j # i => Phase(j)' = Phase(j)
    BY <2>1, PhaseKept DEF Registered
  <2>5. Lifecycle!Enter(i, {"created", "running"}, "exited")
    BY <2>1, <2>3, <2>4, PhaseEntered
  <2>6. [j \in Insts |-> ts[j].exitStatus]' = [[j \in Insts |-> ts[j].exitStatus] EXCEPT ![i] = c]
    BY <2>1
  <2>7. Lifecycle!Exit(i)
    BY <2>5, <2>6 DEF Lifecycle!Exit
  <2> QED
    BY <2>7 DEF Lifecycle!Next
<1>6. CASE Removes(r)
  <2> DEFINE i  == req[r].inst
             id == req[r].id
  <2>1. /\ i \in Insts /\ id \in TaskIds /\ req[r].pc = "remove" /\ req'[r].pc = "pubDelete"
        /\ req'[r].inst = i
        /\ ts[i].status = "STOPPED"
        /\ tasks' = [tasks EXCEPT ![id] = NoInst] /\ UNCHANGED ts
    BY <1>6 DEF Removes, Moves
  <2>2. tasks[id] = i
    BY <2>1 DEF SerialInv, DeleteHolds, Deleting
  <2>3. tasks'[id] = NoInst /\ \A x \in TaskIds : x # id => tasks'[x] = tasks[x]
    BY <1>t, <2>1
  <2>4. Registered(i) /\ ~Registered(i)'
    BY <2>1, <2>2, <2>3, ConstantsAssumption DEF Registered, EventInv, OneId
  <2>5. Phase(i) = "exited" /\ Phase(i)' = "deleted"
    BY <2>1, <2>4 DEF Phase
  <2>6. \A j \in Insts : j # i => Phase(j)' = Phase(j)
    <3> SUFFICES ASSUME NEW j \in Insts, j # i PROVE Phase(j)' = Phase(j)
      OBVIOUS
    <3>1. Registered(j)' <=> Registered(j)
      BY <2>2, <2>3, ConstantsAssumption DEF Registered
    <3> QED
      BY <2>1, <3>1, PhaseKept
  <2>7. Lifecycle!Enter(i, {"exited"}, "deleted")
    BY <2>1, <2>5, <2>6, PhaseEntered
  <2>8. Lifecycle!Delete(i)
    BY <2>1, <2>7, CodesKept DEF Lifecycle!Delete
  <2> QED
    BY <2>1, <2>8 DEF Lifecycle!Next
<1> QED
  BY <1>2, <1>3, <1>4, <1>5, <1>6 DEF Kind

\* At first no object exists. (service.go NewService)
LEMMA InitRefines == Init => Lifecycle!Init
  BY DEF Init, NoTask, Lifecycle!Init, Phase

\* Every step is a step of TaskLifecycle or a stutter. (service.go)
LEMMA StepRefines ==
  ASSUME LifeInv, LifeInv', [Next]_vars
  PROVE  [Lifecycle!Next]_(Lifecycle!lifecycle)
<1>1. CASE Idle
  <2>1. \A i \in Insts : Phase(i)' = Phase(i)
    BY <1>1 DEF Idle, Phase, Registered
  <2> QED
    BY <1>1, <2>1 DEF Idle, Lifecycle!lifecycle
<1> QED
  BY <1>1, StepKind, KindRefines DEF LifeInv

\* Whatever the order of its RPCs, the shim shows containerd a TaskLifecycle
\* per task object, as long as the Deletes of one ID do not overlap.
\* (service.go, all task RPCs)
THEOREM LifecycleRefined ==
  ASSUME Client # "any"
  PROVE  Spec => RefinesLifecycle
<1>1. LifeInv /\ LifeInv' /\ [Next]_vars => [Lifecycle!Next]_(Lifecycle!lifecycle)
  BY StepRefines
<1> QED
  BY <1>1, InitRefines, LifeInvariant, PTL DEF Spec, RefinesLifecycle, Lifecycle!Spec
===============================================================================
