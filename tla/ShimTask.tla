------------------------------- MODULE ShimTask -------------------------------
(***************************************************************************)
(* The task half of the containerd shim (pkg/shim/service.go, events.go).  *)
(* Every RPC runs in a goroutine of its own.  s.mu guards the task table   *)
(* and the task objects, and is released around everything that is slow:   *)
(* booting or stopping a sandbox and publishing an event.  An action here  *)
(* is one stretch of an RPC between two such points; a request carries the *)
(* locals the handler keeps across them.                                   *)
(***************************************************************************)
EXTENDS Integers, Sequences

CONSTANTS
  TaskIds,            \* containerd task IDs
  Insts,              \* sandbox instances; bounds how many Creates can boot one
  Reqs,               \* RPCs; bounds how many are ever issued
  Signals,            \* signals a Kill may carry; 0 means unspecified
  NoInst,             \* no sandbox
  NoId,               \* no task ID
  LossyPublisher,     \* events.go: a publish may fail, which is only logged
  SandboxCrashes,     \* a sandbox may die on its own
  Client              \* how the clients of the shim behave, see MayDelete

ASSUME ConstantsAssumption ==
  /\ NoInst \notin Insts
  /\ NoId \notin TaskIds
  /\ Signals \subseteq 0..64
  /\ LossyPublisher \in BOOLEAN
  /\ SandboxCrashes \in BOOLEAN
  /\ Client \in {"any", "serial", "orderly"}

VARIABLES
  tasks,      \* s.tasks: ID -> the instance of the task object, or NoInst
  ts,         \* the taskState of each instance
  sandbox,    \* what the driver did with each instance
  req,        \* the RPC goroutines
  woken,      \* requests whose waiter channel is closed
  events,     \* what containerd received, per task ID
  down        \* the serve loop is cancelled: the shim process ends

vars == <<tasks, ts, sandbox, req, woken, events, down>>

-----------------------------------------------------------------------------
ExitCodes == {0} \cup {128 + s : s \in 1..64}

Statuses == {"NONE", "CREATED", "RUNNING", "STOPPED"}

\* Where an RPC is between two releases of s.mu.
PCs == {"new", "boot", "insert", "undo", "pubCreate", "stop", "mark",
        "pubExit", "remove", "pubDelete", "waiting", "shutdown", "done"}

TaskState == [status : Statuses, exitStatus : ExitCodes, waiters : SUBSET Reqs]

Request == [pc : PCs, op : {"", "Create", "Kill", "Delete", "Wait", "Shutdown"},
            id : TaskIds \cup {NoId}, inst : Insts \cup {NoInst},
            code : ExitCodes]

Event == [topic : {"create", "start", "exit", "delete"},
          inst : Insts, code : ExitCodes]

TypeOK ==
  /\ tasks \in [TaskIds -> Insts \cup {NoInst}]
  /\ ts \in [Insts -> TaskState]
  /\ sandbox \in [Insts -> {"none", "up", "dead", "stopped"}]
  /\ req \in [Reqs -> Request]
  /\ woken \in SUBSET Reqs
  /\ events \in [TaskIds -> Seq(Event)]
  /\ down \in BOOLEAN

NoTask == [status |-> "NONE", exitStatus |-> 0, waiters |-> {}]

NewReq == [pc |-> "new", op |-> "", id |-> NoId, inst |-> NoInst, code |-> 0]

Init ==
  /\ tasks = [id \in TaskIds |-> NoInst]
  /\ ts = [i \in Insts |-> NoTask]
  /\ sandbox = [i \in Insts |-> "none"]
  /\ req = [r \in Reqs |-> NewReq]
  /\ woken = {}
  /\ events = [id \in TaskIds |-> <<>>]
  /\ down = FALSE

-----------------------------------------------------------------------------
(* Helpers *)

At(r, pc) == req[r].pc = pc

Arrives(r) == At(r, "new") /\ ~down

Goto(r, pc) == req' = [req EXCEPT ![r].pc = pc]

\* The RPC returns; its locals go with it.
Return(r) == req' = [req EXCEPT ![r] = [NewReq EXCEPT !.pc = "done"]]

\* The RPC returns an exit record: task object i exited with the given code.
ReturnRecord(r, i, code) ==
  req' = [req EXCEPT ![r] =
            [NewReq EXCEPT !.pc = "done", !.inst = i, !.code = code]]

\* publish: five seconds at most, and a failure is logged and dropped.
Publish(id, topic, i, code) ==
  \/ events' = [events EXCEPT ![id] =
                  Append(@, [topic |-> topic, inst |-> i, code |-> code])]
  \/ LossyPublisher /\ UNCHANGED events

(***************************************************************************)
(* The clients.  "any": every RPC at any moment.  "serial": any, but the    *)
(* Deletes of one ID are issued one after the other.  "orderly": a task is  *)
(* used once its Create returned and deleted once a Wait on it was          *)
(* answered, as containerd's own client does.                               *)
(***************************************************************************)
Answered(r) == At(r, "done") /\ req[r].inst # NoInst

InFlight(op, id) == \E r \in Reqs : req[r].op = op /\ req[r].id = id

MayUse(id) == Client = "orderly" => ~InFlight("Create", id)

MayDelete(id) ==
  /\ Client # "any" => ~InFlight("Delete", id)
  /\ Client = "orderly" => \E r \in Reqs : Answered(r) /\ req[r].inst = tasks[id]

\* What State, Pids and Stats answer from: the task object ID names now.
StateOf(id) == IF tasks[id] = NoInst THEN NoTask ELSE ts[tasks[id]]

-----------------------------------------------------------------------------
(* Create *)

Create(r, id) ==
  /\ Arrives(r)
  /\ \/ tasks[id] # NoInst /\ Return(r)                    \* AlreadyExists
     \/ /\ tasks[id] = NoInst
        /\ req' = [req EXCEPT ![r] = [@ EXCEPT !.pc = "boot", !.op = "Create", !.id = id]]
  /\ UNCHANGED <<tasks, ts, sandbox, woken, events, down>>

\* mgr.Create or mgr.RestoreFrom, without the lock; an unknown template and a
\* driver error both end the RPC with nothing left behind.
Boot(r) ==
  /\ At(r, "boot")
  /\ \/ \E i \in Insts :
          /\ sandbox[i] = "none"
          /\ sandbox' = [sandbox EXCEPT ![i] = "up"]
          /\ req' = [req EXCEPT ![r] = [@ EXCEPT !.pc = "insert", !.inst = i]]
     \/ Return(r) /\ UNCHANGED sandbox
  /\ UNCHANGED <<tasks, ts, woken, events, down>>

\* The second look at the table: a concurrent Create may have won.
InsertTask(r) ==
  LET id == req[r].id
      i  == req[r].inst
  IN /\ At(r, "insert")
     /\ \/ tasks[id] # NoInst /\ Goto(r, "undo") /\ UNCHANGED <<tasks, ts>>
        \/ /\ tasks[id] = NoInst
           /\ tasks' = [tasks EXCEPT ![id] = i]
           /\ ts' = [ts EXCEPT ![i].status = "CREATED"]
           /\ Goto(r, "pubCreate")
     /\ UNCHANGED <<sandbox, woken, events, down>>

\* Faulty: the loser of the race is forgotten.
StopLoserForgotten(r) ==
  /\ At(r, "undo")
  /\ Return(r)
  /\ UNCHANGED <<tasks, ts, sandbox, woken, events, down>>

StopLoser(r) ==
  /\ At(r, "undo")
  /\ sandbox' = [sandbox EXCEPT ![req[r].inst] = "stopped"]
  /\ Return(r)
  /\ UNCHANGED <<tasks, ts, woken, events, down>>

PublishCreate(r) ==
  /\ At(r, "pubCreate")
  /\ Publish(req[r].id, "create", req[r].inst, 0)
  /\ Return(r)
  /\ UNCHANGED <<tasks, ts, sandbox, woken, down>>

-----------------------------------------------------------------------------
(* Start: one critical section, publishing inside it *)

Start(r, id) ==
  LET i == tasks[id]
  IN /\ Arrives(r)
     /\ \/ /\ i # NoInst
           /\ ts[i].status = "CREATED"
           /\ ts' = [ts EXCEPT ![i].status = "RUNNING"]
           /\ Publish(id, "start", i, 0)
        \/ /\ StateOf(id).status # "CREATED"     \* NotFound, FailedPrecondition
           /\ UNCHANGED <<ts, events>>
     /\ Return(r)
     /\ UNCHANGED <<tasks, sandbox, woken, down>>

-----------------------------------------------------------------------------
(* Kill and Delete *)

\* Read the task object under the lock, then go on without it.
Lookup(r, id, op, code) ==
  /\ Arrives(r)
  /\ \/ tasks[id] = NoInst /\ Return(r)                        \* NotFound
     \/ /\ tasks[id] # NoInst
        /\ req' = [req EXCEPT ![r] = [pc |-> "stop", op |-> op, id |-> id,
                                      inst |-> tasks[id], code |-> code]]
  /\ UNCHANGED <<tasks, ts, sandbox, woken, events, down>>

\* Faulty: the signal itself is recorded.
KillRawSignal(r, id) == \E sig \in Signals : Lookup(r, id, "Kill", sig)

Kill(r, id) ==
  \E sig \in Signals :
    Lookup(r, id, "Kill", 128 + (IF sig = 0 THEN 9 ELSE sig))

Delete(r, id) == MayDelete(id) /\ Lookup(r, id, "Delete", 0)

\* Faulty: Delete trusts the stop and leaves the exit record to Kill.
StopWithoutRecord(r) ==
  /\ At(r, "stop")
  /\ sandbox' = [sandbox EXCEPT ![req[r].inst] = "stopped"]
  /\ Goto(r, IF req[r].op = "Delete" THEN "remove" ELSE "mark")
  /\ UNCHANGED <<tasks, ts, woken, events, down>>

\* Faulty: an error of inst.Stop is returned to the caller at once.
StopErrorReturned(r) ==
  /\ At(r, "stop")
  /\ sandbox' = [sandbox EXCEPT ![req[r].inst] = "stopped"]
  /\ Goto(r, "mark") \/ Return(r)
  /\ UNCHANGED <<tasks, ts, woken, events, down>>

StopSandbox(r) ==
  /\ At(r, "stop")
  /\ sandbox' = [sandbox EXCEPT ![req[r].inst] = "stopped"]
  /\ Goto(r, "mark")
  /\ UNCHANGED <<tasks, ts, woken, events, down>>

\* What is left of the RPC once markExited returns.
AfterMark(r) == IF req[r].op = "Delete" THEN Goto(r, "remove") ELSE Return(r)

\* Faulty: one waiter is signalled instead of all of them.
WakeOne(i) ==
  IF ts[i].waiters = {} THEN UNCHANGED woken
  ELSE \E q \in ts[i].waiters : woken' = woken \cup {q}

\* Every waiter's channel is closed.
Wake(i) == woken' = woken \cup ts[i].waiters

RecordExit(r, i) ==
  /\ ts' = [ts EXCEPT ![i] = [status |-> "STOPPED", exitStatus |-> req[r].code,
                              waiters |-> {}]]
  /\ Wake(i)
  /\ Goto(r, "pubExit")

\* Faulty: every caller records its own exit.
MarkExitedAgain(r) ==
  /\ At(r, "mark")
  /\ RecordExit(r, req[r].inst)
  /\ UNCHANGED <<tasks, sandbox, events, down>>

\* markExited up to its unlock: the first caller records the exit and wakes the
\* waiters, a later one changes nothing.
MarkExited(r) ==
  LET i == req[r].inst
  IN /\ At(r, "mark")
     /\ \/ ts[i].status = "STOPPED" /\ AfterMark(r) /\ UNCHANGED <<ts, woken>>
        \/ ts[i].status # "STOPPED" /\ RecordExit(r, i)
     /\ UNCHANGED <<tasks, sandbox, events, down>>

\* Faulty: only Kill announces the exit it recorded.
PublishKillExit(r) ==
  /\ At(r, "pubExit")
  /\ \/ req[r].op = "Kill" /\ Publish(req[r].id, "exit", req[r].inst, req[r].code)
     \/ req[r].op = "Delete" /\ UNCHANGED events
  /\ AfterMark(r)
  /\ UNCHANGED <<tasks, ts, sandbox, woken, down>>

\* ... and after it.
PublishExit(r) ==
  /\ At(r, "pubExit")
  /\ Publish(req[r].id, "exit", req[r].inst, req[r].code)
  /\ AfterMark(r)
  /\ UNCHANGED <<tasks, ts, sandbox, woken, down>>

\* delete(s.tasks, r.ID): by ID, whatever object the ID names by now.
RemoveTask(r) ==
  /\ At(r, "remove")
  /\ tasks' = [tasks EXCEPT ![req[r].id] = NoInst]
  /\ req' = [req EXCEPT ![r] = [@ EXCEPT !.pc = "pubDelete",
                                         !.code = ts[req[r].inst].exitStatus]]
  /\ UNCHANGED <<ts, sandbox, woken, events, down>>

PublishDelete(r) ==
  /\ At(r, "pubDelete")
  /\ Publish(req[r].id, "delete", req[r].inst, req[r].code)
  /\ ReturnRecord(r, req[r].inst, req[r].code)
  /\ UNCHANGED <<tasks, ts, sandbox, woken, down>>

-----------------------------------------------------------------------------
(* Wait *)

Wait(r, id) ==
  LET i == tasks[id]
  IN /\ Arrives(r)
     /\ \/ i = NoInst /\ Return(r) /\ UNCHANGED ts             \* NotFound
        \/ /\ i # NoInst
           /\ ts[i].status = "STOPPED"
           /\ ReturnRecord(r, i, ts[i].exitStatus)
           /\ UNCHANGED ts
        \/ /\ i # NoInst
           /\ ts[i].status # "STOPPED"
           /\ ts' = [ts EXCEPT ![i].waiters = @ \cup {r}]
           /\ req' = [req EXCEPT ![r] = [@ EXCEPT !.pc = "waiting", !.op = "Wait",
                                                  !.id = id, !.inst = i]]
     /\ UNCHANGED <<tasks, sandbox, woken, events, down>>

WaitWakes(r) ==
  /\ At(r, "waiting")
  /\ r \in woken
  /\ ReturnRecord(r, req[r].inst, ts[req[r].inst].exitStatus)
  /\ UNCHANGED <<tasks, ts, sandbox, woken, events, down>>

\* The caller gives up; its channel stays in the waiter list.
WaitCancelled(r) ==
  /\ At(r, "waiting")
  /\ Return(r)
  /\ UNCHANGED <<tasks, ts, sandbox, woken, events, down>>

-----------------------------------------------------------------------------
(* Shutdown *)

\* The idle check, under the lock ...
Shutdown(r) ==
  /\ Arrives(r)
  /\ \/ /\ \A id \in TaskIds : tasks[id] = NoInst
        /\ req' = [req EXCEPT ![r] = [@ EXCEPT !.pc = "shutdown", !.op = "Shutdown"]]
     \/ (\E id \in TaskIds : tasks[id] # NoInst) /\ Return(r)
  /\ UNCHANGED <<tasks, ts, sandbox, woken, events, down>>

\* ... and onShutdown, after it is released.
EndServing(r) ==
  /\ At(r, "shutdown")
  /\ down' = TRUE
  /\ Return(r)
  /\ UNCHANGED <<tasks, ts, sandbox, woken, events>>

\* The VM under an instance goes away; no code of the shim looks.
SandboxDies(i) ==
  /\ SandboxCrashes
  /\ sandbox[i] = "up"
  /\ sandbox' = [sandbox EXCEPT ![i] = "dead"]
  /\ UNCHANGED <<tasks, ts, req, woken, events, down>>

-----------------------------------------------------------------------------
Call(r) == \/ \E id \in TaskIds : Create(r, id)
           \/ \E id \in TaskIds :
                /\ MayUse(id)
                /\ Start(r, id) \/ Kill(r, id) \/ Delete(r, id) \/ Wait(r, id)
           \/ Shutdown(r)

Continue(r) == \/ Boot(r) \/ InsertTask(r) \/ StopLoser(r) \/ PublishCreate(r)
               \/ StopSandbox(r) \/ MarkExited(r) \/ PublishExit(r)
               \/ RemoveTask(r) \/ PublishDelete(r)
               \/ WaitWakes(r) \/ EndServing(r)

Next == \/ \E r \in Reqs : Call(r) \/ Continue(r) \/ WaitCancelled(r)
        \/ \E i \in Insts : SandboxDies(i)

Spec == Init /\ [][Next]_vars

\* A handler goroutine that can go on does: boots, stops and publishes are all
\* bounded by a timeout.  Nothing makes a client call, and nothing runs once
\* the process is on its way out.
Fairness == \A r \in Reqs : WF_vars(~down /\ Continue(r))

FairSpec == Spec /\ Fairness

-----------------------------------------------------------------------------
(* Properties *)

Registered(i) == \E id \in TaskIds : tasks[id] = i

\* No sandbox is left running without an owner: its task object is in the
\* table, or the Create that booted it is still going to insert or stop it.
\* (service.go Create, Delete)
NoOrphanSandbox ==
  \A i \in Insts :
    sandbox[i] = "up" =>
      \/ Registered(i)
      \/ \E r \in Reqs : req[r].inst = i /\ req[r].pc \in {"insert", "undo"}

\* A task of the table that still reads CREATED or RUNNING over a stopped
\* sandbox is in the window between Kill's or Delete's inst.Stop and its
\* markExited: the RPC that will correct the record is still running.
StaleOnlyDuringTeardown ==
  \A i \in Insts :
    /\ Registered(i)
    /\ sandbox[i] = "stopped"
    /\ ts[i].status # "STOPPED"
    => \E r \in Reqs : At(r, "mark") /\ req[r].inst = i

\* No lost wakeup and no stranded waiter: while a Wait blocks on an open
\* channel, the task has not exited, is still reachable by ID for the Kill or
\* Delete that will end it, and lists the channel. (service.go Wait, markExited)
NoStrandedWaiter ==
  \A r \in Reqs :
    At(r, "waiting") /\ r \notin woken =>
      LET i == req[r].inst
      IN /\ ts[i].status \in {"CREATED", "RUNNING"}
         /\ tasks[req[r].id] = i
         /\ r \in ts[i].waiters

ExitEvents(id) == {e \in {events[id][n] : n \in DOMAIN events[id]} :
                     e.topic \in {"exit", "delete"}}

\* Whoever asks learns the same exit: every Wait and Delete response and every
\* TaskExit and TaskDelete event about an object carries the code that its one
\* recorded exit has. (service.go markExited: exactly once)
ExitAgreement ==
  /\ \A r \in Reqs : Answered(r) =>
       /\ ts[req[r].inst].status = "STOPPED"
       /\ ts[req[r].inst].exitStatus = req[r].code
  /\ \A id \in TaskIds : \A e \in ExitEvents(id) :
       /\ ts[e.inst].status = "STOPPED"
       /\ ts[e.inst].exitStatus = e.code

\* Containerd is told of each step of an object at most once, and never of a
\* start after the exit: Start publishes inside the critical section that
\* excludes markExited. (service.go Start, markExited)
EventsOnce ==
  \A id \in TaskIds : \A m, n \in DOMAIN events[id] :
    LET a == events[id][m]
        b == events[id][n]
    IN m < n /\ a.inst = b.inst =>
         /\ a.topic # b.topic
         /\ ~(a.topic \in {"exit", "delete"} /\ b.topic = "start")

\* Delete tears the sandbox down, and the task stays visible as STOPPED until
\* that is complete: an object leaves the table stopped and with its exit
\* recorded. (service.go:222-224)
DeleteTearsDown ==
  [][\A id \in TaskIds :
       tasks[id] # NoInst /\ tasks'[id] # tasks[id] =>
         /\ sandbox[tasks[id]] = "stopped"
         /\ StateOf(id).status = "STOPPED"]_vars

Phase(i) ==
  CASE ts[i].status = "NONE"    -> "absent"
    [] ts[i].status = "CREATED" -> IF Registered(i) THEN "created" ELSE "deleted"
    [] ts[i].status = "RUNNING" -> IF Registered(i) THEN "running" ELSE "deleted"
    [] ts[i].status = "STOPPED" -> IF Registered(i) THEN "exited" ELSE "deleted"

Lifecycle == INSTANCE TaskLifecycle WITH
               Tasks <- Insts,
               phase <- [i \in Insts |-> Phase(i)],
               exitCode <- [i \in Insts |-> ts[i].exitStatus]

\* Every interleaving of the RPCs shows containerd a TaskLifecycle per object.
RefinesLifecycle == Lifecycle!Spec

\* Wait returns once the task it names has exited. (service.go:250)
WaitReturns ==
  \A r \in Reqs :
    At(r, "waiting") /\ ts[req[r].inst].status = "STOPPED" ~> At(r, "done") \/ down

ToldOf(i, topic) ==
  \E id \in TaskIds : \E n \in DOMAIN events[id] :
    events[id][n].inst = i /\ events[id][n].topic = topic

\* A recorded exit reaches containerd, when publishing works: the events
\* kubelet depends on are not skipped by losing the race to record the exit.
ExitAnnounced ==
  \A i \in Insts : ts[i].status = "STOPPED" ~> ToldOf(i, "exit") \/ down

-----------------------------------------------------------------------------
(* What the repository says of the service and the service does not do *)

Rank == [create |-> 1, start |-> 2, exit |-> 3, delete |-> 4]

\* "The Service must emit the four lifecycle events kubelet's view of a pod
\* depends on, in order." (events_test.go:39-40)
EventsInOrder ==
  \A id \in TaskIds : \A m, n \in DOMAIN events[id] :
    m < n /\ events[id][m].inst = events[id][n].inst =>
      Rank[events[id][m].topic] <= Rank[events[id][n].topic]
=============================================================================
