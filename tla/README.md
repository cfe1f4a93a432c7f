# Vessel: a TLA+ verification of the sandbox runtime

Vessel runs containers and agent sandboxes in Cloud Hypervisor microVMs. Two
front ends share one core: the containerd shim (`containerd-shim-vessel-v1`,
one process per pod) and the HTTP daemon (`vessel serve`, `vessel up`) with a
native and an E2B-compatible API. All paths below are under `src/`.

## 1. The system

### Components, their state and their operations

| Component | Source | State | Operations | Module |
|---|---|---|---|---|
| Shim task service | `pkg/shim/service.go`, `events.go` | `s.tasks`, the `taskState` objects, waiter channels, the shutdown flag | Create, Start, State, Kill, Delete, Wait, Shutdown (ttrpc, one goroutine per call) | `ShimTask` |
| Shim execs | `pkg/shim/exec.go` | `ts.execs`, the `execState` objects, one goroutine per running exec | Exec, Start, Wait, Delete, Kill with an exec ID | `ShimExec` |
| Shim life cycle | `pkg/shim/bootstrap.go`, `serve.go`, `cmd/containerd-shim-vessel-v1` | the socket, `address` and `shim.pid` in the bundle, the detached daemon | `start`, daemon, `delete` | `ShimBootstrap` |
| Sandbox manager | `pkg/sandbox/sandbox.go` | `m.instances`, `m.drivers` | Create, Delete, Snapshot, RestoreFrom, Fork, Shutdown | `SandboxManager` |
| Cloud Hypervisor driver | `pkg/driver/cloudhypervisor/driver.go` | one VM per instance, snapshot directories | Create/boot, Restore, Exec, Stop; Snapshot | `Instance`; `SandboxManager` for Snapshot |
| VMM pool | `pkg/driver/cloudhypervisor/pool.go` | `p.idle`, `p.refilling`, `p.closed`, the VMM processes | get, kickRefill, spawnInNetns, close, Warm | `VmmPool` |
| HTTP API | `pkg/api/server.go` | none | create, delete, exec, snapshot, fork, restore | requests of `SandboxManager` |
| E2B front door | `pkg/e2b/e2b.go` | templates, `meta` | create, list, kill | create and kill in `SandboxManager` |
| Daemon | `cmd/vessel/main.go` | the main goroutine | serve until SIGTERM, shut down, exit | `SandboxManager` |
| Guest agent | `pkg/agent` | one locked connection | dial, ping, exec, files, network, Close | `Agent` |
| Pod network | `pkg/vmnet`, `netguest.go` | a TAP per sandbox, eth0's qdisc and redirect, `i.netCfg` | set up with rollback, hotplug, tear down | `PodNet`, `Instance` |
| VMM API client | `client.go`, `hvsock.go`, `restore_fds.go` | none | HTTP over a Unix socket, with or without a deadline | the calls of `Instance` (partly) |
| Process driver, config, templates, image, asset download, vsock, guest binary | the rest of `pkg` and `cmd` | files, system calls | start-up and I/O | not modelled |

### Interactions

    containerd --ttrpc--> task service --+                      +--> VMM pool --> VMM processes
         ^                   | execs     |                      |
         +---- events -------+           +--> sandbox manager --+--> Instance --> VMM API, guest agent
                                         |                      |        \--> the pod's network namespace
    HTTP, E2B clients --> api, e2b ------+                      +--> snapshot directories

Everything is a goroutine: an RPC, an HTTP request, a running exec, a refill of
the pool, the main goroutine of the daemon. Of the locks, `s.mu`, `m.mu` and `p.mu`
are never held over a slow call and no goroutine takes two; the agent client's
`c.mu` is held from a request to its response, which may never come. So what is
hard comes from what happens between two critical sections of one handler, and
from a guest that does not answer:

- the shim looks a task up, stops its sandbox without the lock, and then
  records, announces and removes by what it looked up;
- waiters block on channels that another handler closes;
- the pool checks how many spares it needs, boots one and adds it, while `get`
  takes spares and `close` empties the pool;
- the manager boots, restores, snapshots and stops without its lock, while
  `Shutdown` empties its map;
- a snapshot is pause, write, resume over a request context that the client can
  cancel, each call may fail or take effect after its caller has left, and a clone
  reads a directory in two steps;
- the creator of an instance may fail at every step, and then runs Stop itself;
  two Stops of one instance meet (two Kills, or a Kill and a Delete), the VMM
  may die, or hang with its socket open, and its guest may hang, under any of them;
- the sandboxes of one pod share eth0, and set it up with six commands each, whose
  undoing may fail without anybody looking;
- an exec's goroutine opens and writes FIFOs that containerd may not be reading;
- calls to one guest queue behind one that may last for ever, and only Stop, which
  does not take their lock, frees them;
- the shim's start, daemon and delete are three processes that share a socket
  path and two files, and containerd may kill a subcommand anywhere.

### What makes each component correct

- Task service: a sandbox always has an owner; the exit of a task is recorded
  once, everybody learns the same code, every blocked Wait returns, containerd
  hears of each step at most once, and a task disappears only torn down.
- Execs: a running exec keeps its record, no wakeup is lost, an exec does not
  outlive its sandbox.
- Pool: one owner per VMM, what is handed out answers, nothing is leaked, the
  target is a bound, close is final and complete, and a get is followed by a
  refill.
- Manager and daemon: no running VM is forgotten, a Delete succeeds once, the
  daemon's end stops what was there, a clone is a clone of one VM, a VM stays
  paused only after a pause or a resume that returned an error.
- Instance: a creation that fails leaves nothing behind, a Stop that returns has
  released everything and nothing comes back (a TAP the host would not delete
  excepted), Create and Stop return unless the VMM, or the guest that is being set up, hangs.
- Pod network: a running sandbox has the pod's traffic both ways, whatever its
  neighbours do; no TAP is forgotten whose deletion was not tried.
- Guest agent: an answer reaches the caller it is for, a call is carried out at most
  once, nobody waits for ever on a sandbox that is being stopped.
- Shim life cycle: the printed address leads to the daemon just spawned, a failed
  start leaves no daemon, a delete leaves nothing.

`PROJECT.json` lists under "hazards" each place in the code where one of these
could go wrong, with the properties that watch it.

## 2. The modules

An action is one stretch of a goroutine between two points where other
goroutines can run: one critical section, or one call that takes time. A
goroutine is a record with a program counter and the locals the handler keeps.

**TaskLifecycle** is the abstract specification: what containerd may rely on for
one task object. It goes absent, created, (running,) exited, deleted, gets one
exit code, and nothing changes afterwards.

**ShimTask** is `service.go` and `events.go`. `tasks` is `s.tasks`; a task object
is named by its instance, so a re-created ID is a new object. `ts` holds status,
exit code and waiters; `sandbox` what the driver did with the instance; `req` the
RPC goroutines; `woken` the requests whose channel is closed; `events` what
containerd received. Create is Create, Boot, InsertTask (or StopLoser when
another Create won), PublishCreate; Kill and Delete are the lookup, StopSandbox,
MarkExited, PublishExit and, for Delete, RemoveTask and PublishDelete; Wait is
Wait and WaitWakes or WaitCancelled; Shutdown is Shutdown and EndServing. State,
Pids and Stats only read, so they are the invariants' own view (`StateOf`).
A sandbox may die by itself, which no code notices. `Client` says how the callers
behave: "any" (every RPC at any moment), "serial" (the Deletes of one ID do not
overlap), "orderly" (use a task once Create answered, delete it once a Wait on it
answered).

**ShimExec** extends ShimTask with `exec.go`: `execs` is `ts.execs` of each task
object, `es` the exec objects, `runner` the goroutine `startExec` leaves behind,
`xreq` the RPCs that name an exec. The goroutine opens its output FIFOs ("open"), which
blocks until containerd reads them, calls the guest ("exec"), and writes the output, which may
block again ("mark"); `readers` are the execs whose FIFOs are being read, which changes as
containerd likes (`ReaderChanges`).

**VmmPool** is `pool.go`. `vmm` is each process (booting until its API answers;
`hung` is one that has taken a ping's connection and never answers; `stray` is one that was killed
and not waited for), `caller` the goroutines that
create sandboxes, `refill` the refill goroutines, `victims` the spares close took.
A model value stands for a new process once its sandbox has released the old one.

**VmmSupply** is the abstract specification of the pool: how far each VMM is (`life`: gone,
starting, spare, used, doomed) and which one each user was handed. A VMM is kept only while the
pool is open and below its target, and a doomed one is never handed out. VmmPool's `Life` reads it off
whose hands a VMM is in.

**SandboxManager** is `sandbox.go` with its callers and with the driver calls
whose steps interleave: Instance.Snapshot is ClearDir, PauseVM, SnapshotVM, SnapshotReturns,
ResumeVM; Driver.Restore is LinkFiles, ReadConfig, RestoreVM. A snapshot
directory has two parts (the memory files, `config.json`), each marked with the VM
it is of, and a clone remembers which it got. `good` are the directories whose last snapshot was answered with success. `gone` says that the client of a
request has left, which cancels `r.Context()`; calls that take the context then
fail. A call may also fail with its client there (the transport breaks, the VMM refuses; `VmmErrs`), and
`errs` remembers which calls of a snapshot did. What the VMM still has to do of a request's last call is in
`todo`: while the call is waited for it writes the two parts one after the other (`VmmWrites`), and after a call that failed
it may do so still, or pause or resume late (`LatePause`, `LateResume`), or not (`VmmDrops`). `main` is the main goroutine from
SIGTERM to the exit, where Pdeathsig kills what is left (`DieWithDaemon`).

**PodNet** is `vmnet.go`. `setup` is how far each sandbox of a pod is in SetupTap, its
rollback and TeardownTap; `pod` the devices of the namespace: the TAPs, those
redirected to eth0, eth0's ingress qdisc and where eth0 is redirected to. An
action is a command, or several that nobody can tell apart; each may fail, the `ip link del` of
TeardownTap and of the rollback too: the TAP it leaves is in `pod.stuck`. A
TAP is named after the first eight hex digits of its instance's random ID, which are
taken to differ.

**DriverInstance** is the abstract specification of one `sandbox.Instance`: absent,
creating, running, ended; only creating gains resources, and an ended instance
holds none for good but those that the host has `refused` to take back.

**Instance** is Create, Restore and Stop of `driver.go` with `netguest.go`; it EXTENDS
Agent and PodNet, whose actions are the instance's steps. `creator` is the
goroutine of Create or Restore (`After` gives the order of its steps), `stop` the goroutines in
Stop: those of users, and the creator's own (`Self`) when a step has failed. `vmm` is
the process ("hung": it answers nobody; "deaf": it does, but its guest hangs), `netCfg` is `i.netCfg`. `HasNetns` says
whether the instance was given a network namespace; without one the network steps are skipped (`After`). Every step may fail, and a call to the API also
because its caller left (`Cancel`, `CancelStop`). `CheckNet` and `DeleteTap` are the two
halves of teardownNetwork, between which another Stop may run; where that one has cleared `i.netCfg`, the second load of
the pointer may be nil, and the Stop ends "panicked". Other
sandboxes of the pod take PodNet's steps (`Neighbour`). A spare of the pool and a
VMM spawned in the pod's namespace are one beginning here; who owns a spare is
VmmPool's subject.

**AgentCalls** is the abstract specification of the guest connection: a call is
pending, then answered or failed; the guest carries it out at most once, before the
answer, or perhaps after the failure.

**Agent** is `agent/client.go` and `server.go` over one connection, which `Dial` opens once. `call` is each
caller in `roundTrip`, `holder` is `c.mu`, `sent` and `replies` are the two
directions of the connection, `server` the goroutine in the guest. A call is its
own request id. It runs inside Instance, whose creator makes `PingCall` and `NetCall` and whose
users make the rest. `conn` becomes "closed" when Stop closes it, without the lock, and
"broken" when the guest goes away. An error the guest reports is an answer.

**ShimBootstrap** is `bootstrap.go` and the shim's `main`. `socket` is where the
socket path leads, `address` and `pidFile` are the files in the bundle, `daemon` the
processes, `cmd` the subcommands. `KillCmd` ends a subcommand between any two steps;
`DaemonEnds` is Shutdown, a signal or a crash.

**MCShimTask**, **MCSandboxManager** add the symmetry sets for TLC.
**ShimTask_proofs**, **ShimEvents_proofs** (exits, events, refinement), **ShimExec_proofs**, **ShimBootstrap_proofs**,
**VmmPool_proofs**, **VmmSupply_proofs** (refinement), **SandboxManager_proofs**, **Instance_proofs** hold the theorems.

Operators whose comment begins with "Faulty:" are not part of a specification:
each is a plausible bug in the operator it stands next to, and putting it there
makes TLC violate a property (`PROJECT.json`, "mutants").

## 3. The runs

| Run | Instance | Shows |
|---|---|---|
| ShimTaskSafety | 1 task ID, 2 sandboxes, 5 RPCs, 2 signals (0 is "unspecified"), lossy events, dying sandboxes, serial clients | owners, waiters, events and Delete are right in every interleaving, and each task object implements TaskLifecycle |
| ShimTaskLive | 1 ID, 1 sandbox, 4 RPCs, any client, fair handlers | a stale status only during teardown; one exit code; Wait returns; the exit is announced |
| ShimTaskDeleteRace | 1 ID, 2 sandboxes, 5 RPCs, any client | **violated**: DeleteTearsDown (section 6) |
| ShimTaskEventOrder | 1 ID, 1 sandbox, 4 RPCs, orderly clients | **violated**: EventsInOrder |
| ShimExecAll | 3 task RPCs, 3 exec RPCs, 2 exec objects under one exec ID, fair | execs agree on the code, wake their waiters and end with the sandbox, if their output is read in the end |
| VmmPoolAll | 4 VMMs, 2 callers, 2 refill goroutines, target 2, spawns that fail or hang, fair | ownership, target, close; the pool implements VmmSupply |
| VmmPoolRefill | 3 VMMs, 1 caller, target 1, no failing spawn, fair | **violated**: GetIsFollowedByRefill |
| SandboxManagerSafety | 3 instances, 4 requests, 1 directory, 1 client that leaves, calls that fail or take effect late, shutdown | no lost VM, one Delete, a Shutdown that stops all but what is created after it, faithful clones, pauses left only by a failed pause or resume |
| SandboxManagerPaused | 2 instances, 2 requests, 1 client that leaves, no other call fails | **violated**: SourceKeepsRunning |
| InstanceAll | 2 Stops, the creator's 2 agent calls and 2 of users, 1 neighbour in the pod, every failure, a VMM that dies or hangs, a guest that hangs, fair host goroutines | no TAP forgotten but one whose deletion failed, bridged while running, true answers, everybody returns who does not wait for a hung VMM or guest; Instance implements DriverInstance, its connection AgentCalls |
| PodNetLeftover | 2 sandboxes of a pod | **violated**: LeftoverHarmless |
| ShimBootstrapAll | 3 starts, 3 deletes, each may be killed | the files lead to the right daemon, delete is complete and can be repeated |

*Bounds.* The sets of requests bound how many calls are ever made, and so every
other counter. One task ID is enough because handlers of different IDs share no
state but the lock; two sandboxes let an ID be re-created under a running
handler; five RPCs are the least that hold Create, a teardown, a second Create and
two bystanders. Two exec objects let an exec ID be reused. With target 2 the pool
can be empty, partly and quite full, and a second refill goroutine is there so
that "only one runs" is a result. Three instances are two sources and a clone, or
a source and two clones, and four requests two creations and two operations that
meet. One directory is the contended case. One client that leaves (`MaxGone`) is enough beside calls that fail
anyway, since both fail in the same way.
In InstanceAll two users' calls are one in the guest and one in the queue
behind it, whose ids are handed out in the order of the calls; two Stops meet each other, and a third finds nothing they left; one
neighbour is enough because eth0 takes one redirect. Three
starts and deletes are a killed one, one that meets what it left, and a next life. Symmetry (permutations of requests and
instances) is used in runs without liveness only. Deadlock is checked in
VmmPoolAll, where callers come back for ever, and off elsewhere: requests run out, so
the system may stop.

*Fairness.* `FairSpec` of ShimTask is weak fairness of each handler's next step
while the process lives: booting, stopping (three seconds, then SIGKILL) and
publishing (five seconds) have timeouts, and Go runs every runnable goroutine. No
call, no cancellation and no death is fair. `FairXSpec` adds the exec's
goroutine: the return of a guest command only once its sandbox has stopped, since
a command may run for ever, and the opening and the writing of the output only while it is being read.
Reading is not fair, so ExecEndsWithSandbox speaks of execs that are read in the end. `FairSpec` of VmmPool is weak fairness of the steps
inside get, the refill goroutine and close. bootWait bounds a boot, unless the VMM hangs: `waitReady` looks at its
deadline between pings, and a ping has no timeout, so that a goroutine which boots a hung VMM has no fairness and
CloseReapsSpares excepts its spare. Nobody has to create, release or close. `IFairness` of Instance is weak
fairness of the creator's next step, its own agent calls included, of each Stop and of each
user's call between two waits; and of the guest's server while its VMM runs, where carrying
out ping and configure-net is fair and a user's command is not, since it may last for ever.
All of the guest's fairness is off once the guest hangs ("deaf"). Nobody has to call Stop, leave, die or hang. A call to a VMM that hangs does not
return, because `client.go` sets no timeout, and neither does the creator's ping or ConfigureNet to a guest that hangs, because
`agent/client.go` sets none; CallsReturn excepts these two and nothing else. A guest hangs in the model only while the instance is
being created: later it is to its users a command that never ends.

*Assumed of the clients.* The safety run of ShimTask assumes that Deletes of one
ID do not overlap; without that ShimTaskDeleteRace is the result. CloneFidelity
assumes `DirsOwned`, since nothing in the code serialises them: clients snapshot or fork into a directory
only while no other request is at work there, and restore, any number at a time, only from a
directory whose last snapshot succeeded and that nobody is replacing. A client that has left is taken to
know when its handler has ended. What the VMM writes after a call has failed is not excluded: it can mix only a directory
whose snapshot failed, or is refused by the next. ShimBootstrap assumes that
containerd runs one subcommand of a task at a time, and starts a task anew only when the
daemon of a start that succeeded is gone.

*Assumed of the VMM.* A boot, a restore, a pause, the writing of a snapshot or a resume may fail at
any time, and those of a snapshot may also take effect after they have failed for their caller. The VMM carries out one
call at a time, pauses only what runs, resumes only what is paused, and refuses to overwrite a snapshot's files (`driver.go:311-312`).
ShimTask, ShimExec and SandboxManager take a boot and a Stop as one call that
returns. Instance shows when that is so: a Stop returns unless the VMM hangs, a boot unless the VMM or the guest does. For them and for
any caller DriverInstance is the contract, and ImplementsDriver shows that
the driver keeps it.

## 4. What is proved

tlapm checks every theorem, for any number of IDs, instances, RPCs, execs, starts, deletes, VMMs,
callers, refill goroutines and any target, from the named assumptions on the constants
alone (the set of VMMs is finite, "none" values are outside the sets) and, where said
below, from an assumption on the clients. Every safety property and refinement that a
passing run checks is a theorem.

*ShimTask_proofs.* `TypeCorrect` (TypeOK, and a handler past its lookup holds an
object). `StaleDuringTeardown` holds for every client. StaleOnlyDuringTeardown is
not inductive: one must know that an RPC at "mark" stopped its sandbox, that
before the insert a sandbox belongs to one Create only, and that the table names
existing objects. `TaskInv` adds `Point` (what is known at each program point),
`OneOwner` and `Listed`. `NoOrphan`, `NoStranded` and `DeleteIsTeardown` assume
`Client # "any"`. Their invariant `SerialInv` adds `OneDelete` (at most one Delete
per ID) and `DeleteHolds` (from its lookup to its removal the ID names the object
the Delete holds). DeleteHolds is just what fails in ShimTaskDeleteRace.
The proof has one step per action, and under it one per conjunct; steps that
leave the table alone share the lemma SerialKeep.

*ShimEvents_proofs.* The lemma `StepKind` sorts the steps of the task service into those of no
interest here and eight that are (insert, start, mark, remove, the start of a Wait, an answer, an event, and
quiet moves of one RPC), so that an invariant has eight cases, in plain equalities, instead of nineteen
actions. `OneExit` (ExitAgreement) holds for every client: its `ExitInv` says that an exit or delete event in the
making and an answer given carry the recorded code (`RecordRight`), that a woken Wait's object has exited
(`WaitersWait`), and that the events sent carry it (`EventsRight`). `ToldOnce` (EventsOnce) and `LifecycleRefined`
(RefinesLifecycle) assume `Client # "any"`. For events one must know that an object belongs to one ID
(`OneId`), that an event in the making has one author (`OnePublisher`) and
has not been sent (`NotYetTold`), that what was told has happened (`ToldTrue`), and that a removed object does not come
back (`GoneIsGone`). For the refinement `AliveListed` says that an object that was
inserted and has not exited is in the table, which is what keeps its phase from falling back to absent;
each kind of step is then a step of TaskLifecycle or a stutter. With overlapping Deletes both are false, for the
reason ShimTaskDeleteRace shows.

*ShimExec_proofs.* For any clients. XTypeOK is about exec.go only, and `TasksAsBefore` (XSpec implies Spec of ShimTask) carries
the theorems of the task service over. `ExecInv` ties a goroutine's program point to the status of its exec
(`RunnerFits`), and says that a listed waiter waits on that exec and that a woken one's exec has stopped
(`ExecWaitersWait`). `ExecTypeCorrect`, `ExecWakeupKept` and `ExecOneExit` follow.

*ShimBootstrap_proofs.* `TypeCorrect`, `StartServes`, `DeleteCleansUp` and the action property `PidKept`, for any number of starts and deletes
and a kill between any two steps. `StartServes` and `DeleteCleansUp` speak of the moment a
subcommand returns; `BootInv` says what holds on the way: one subcommand runs at a time (`OneCommand`), which
step of a start or a delete has done what (`Places`, `StartDone`, `DeleteDone`), and that a serving daemon is
named by shim.pid once its start has returned, and otherwise its start is past the spawn or was killed (`Serving`). The
last is why a delete that finds no shim.pid may finish.

*VmmPool_proofs.* `TypeCorrect` ties the program point of each goroutine to
whether it holds a VMM. `Exclusive`, `NoLeak` and `HandedOut` need each other:
`OwnInv` adds `HandsReady`, the state of the process that belongs to each program
point. `WithinTarget` and `StaysEmpty` follow from `CountInv`: one refill
goroutine works at a time, exactly while `p.refilling` is set, and between its
check and its append the pool is below target, since get can only lower the
count.

*VmmSupply_proofs.* `SupplyImplemented`: the pool implements VmmSupply. Since a VMM has one owner, the owner's
program point alone says how far it is (`LifeFacts`); `LifeKept` says that a step changes nothing for the
others, so each action needs to look at one VMM. Keep's guard is the part of CountInv between check and append.

*SandboxManager_proofs.* `MgrInv` proves the manager's properties together, for they need each other:
ExitKillsOnlyLate follows at the exit from NoLostSandbox and from `Ending` (Shutdown has stopped what
it took), and DeletedOnce needs `Fresh`, that what a request is about to track is known to no other,
or a Track could list again what a Delete has taken out. Fresh rests on `Known`: what anybody
holds has been created. Most steps are alike, so `Quiet`, `Born` and `Toggled` name what they do to the
invariant, and each of them has one lemma. `PausesOwned` needs `TodoOK`: a pause that is still to
come is of a request whose own pause returned an error. `ClonesFaithful` assumes `DirsOwned`; its `CloneInv` says
that a request which replaces a directory is alone there (`Exclusive`), that a directory whose last snapshot
succeeded is of one VM (`GoodWhole`), and what a request knows of its directory: of its own snapshot, that what is not left to
write is there, and of a restore, that the directory is still good (`HeldOK`). A late write is harmless because it is
refused where a file is, and a whole directory has both.

*Instance_proofs.* For any set of sandboxes in the pod, of Stops and of calls. `Bridged` is of
PodNet alone; its invariant `PodInv` says that eth0's qdisc and redirect
have an owner, which has succeeded in adding the qdisc, that there is at most one, and that a TAP
which outlives its sandbox's teardown is stuck:
UpIsBridged by itself does not exclude a neighbour that is about to take the
redirect. `NoCrossed` needs `AgentInv`, which ties the holder of the lock, the
request and the response on the wire and the server's loop to each other (at most one
of them has the call at a time). `IInv` is these two and `OwnInv`: what the creator's program
point says of `setup`, `netCfg`, `vmm` and `conn` (`CreatorKnows`), what a Stop's
says (`StopKnows`), and that a TAP that is up is recorded (`Recorded`). The lemma `Parts` says that a
step of the instance is a step of Agent or none, and of PodNet or none, so that
each part's invariant is proved once, in its own terms. From IInv follow
`TypeCorrect`, `Accounted`, `RunningBridged` and two refinements:
`DriverImplemented` and `AtMostOnceImplemented`, each a step simulation with a case per action. They hold for both values of
`HasNetns`; for the first, `HeldOK` says that an ended instance holds at most its stuck TAP.

*Only model-checked.* Liveness (WaitReturns, ExitAnnounced, ExecEndsWithSandbox, ExecWaitReturns, CloseReapsSpares,
EndFreesUsers, CallsReturn): it rests on fairness and so on ENABLED, which is out of this prover's reach. The runs
that end in a violation are TLC's too.

## 5. What is not modelled

`RunDelete` ignores the errors of `os.Remove` (`bootstrap.go:195-197`); ShimBootstrap takes each of the three
removals as done, which leaves out a filesystem that refuses to remove a file. InstanceAll is an instance with a pod network;
one without (`HasNetns` FALSE) skips the network's steps, and what is proved is proved for both. A pid that the kernel reuses between a
daemon's death and a delete is not modelled, nor is the second connection a host
could open to one agent (the driver opens one). Of Restore's retry with an eager copy only the last attempt is
modelled: it changes latency and not the outcome. The instance's directory
(overlay, packed image, sockets) is written once and nothing removes it after a Stop. The
commands by which the guest applies an address are one request whose answer may be an error. The thread
whose end is what Pdeathsig really waits for is taken for the process; the
runtime could retire it earlier. `Spec.Timeout` is read nowhere, so no model has it.
The E2B handler's metadata steers nothing. Left out for good: parsing and encoding, log files, the
contents of an exec's output, the process driver (a stub without background work), asset download
and image building (start-up calls of external tools), the vsock transport and
the guest's PID 1 (system calls). The state string of an instance (`Instance.state`)
is read without a lock by listings; it is not modelled. Context deadlines are in
the models only where an outcome depends on them.

## 6. Where the code and its documentation disagree

With a run:

1. `service.go:240`: Delete removes by ID after an unlocked Stop. With two
   overlapping Deletes and a Create between them, the new task disappears while it
   is running and its sandbox is orphaned.
2. `service.go:297`: TaskExit is published after the waiters were woken; a client
   that deletes on Wait's answer can get TaskDelete first.
3. `pool.go:66`: a kick between the refill goroutine's last check and the clearing
   of `p.refilling` is dropped, so a get may be followed by no refill.
4. `driver.go:324`: the resume of a snapshot uses the request's context; a client
   that leaves in the middle leaves the source paused.
5. `vmnet.go:110`: TeardownTap leaves eth0's ingress qdisc and calls that harmless
   (126-127), but SetupTap's `tc qdisc add` fails on one that is there. A second
   sandbox in the same namespace, be it a restarted container (`service.go:119-130`
   takes the pod's namespace from the bundle) or one after a failed Create, gets
   no network although nobody uses eth0.

Without a run of their own: a sandbox whose creation is in flight at SIGTERM is
tracked after Shutdown emptied the map, gets no Stop and is killed with the daemon
(`sandbox.go:125` with `main.go:162-163`; ExitKillsOnlyLate says that only such a one is); BootWait is said to bound
the wait for API socket and agent (`driver.go:31`), but it bounds no single ping of the socket (`pool.go:159-174`), nor the API calls
before the dial, which a VMM that hangs holds up (`client.go:24-36`), nor the agent's ping and ConfigureNet, which a guest
that hangs holds up (`driver.go:281,285`, `agent/client.go:27-50`); a refill goroutine that boots a VMM which hangs stays, and its VMM
outlives close (`pool.go:126`); an `ip link del` that fails is not looked at and the TAP is forgotten (`vmnet.go:119`, `netguest.go:88-89`);
two Stops of one instance can meet in teardownNetwork so that one dereferences the nil the other has just stored
(`netguest.go:85-89`), which net/http recovers in the daemon and which ends a shim, and its VMM with it by Pdeathsig;
a pause whose call failed, or a resume that is refused, leaves the VM paused (`driver.go:320-326`); an exec whose output FIFO
nobody reads never gets an exit record, whatever becomes of its sandbox (`exec.go:118-127`); Shutdown's idle check is stale when it acts
(`service.go:332` against 325-327); nobody notices a VM that dies by itself
(`service.go:281`, `docs/kubernetes.md:79`); deleting an exec that never ran, or its task,
strands its waiters (`exec.go:202`); an exec's TaskExit follows the wakeup of its
waiters (`exec.go:241` against `exec_test.go:215-219`); E2B kill leaves the stopped
sandbox listed (`e2b.go:172`), and its metadata is in another handler's map
(`main.go:40-41`); RunDelete cannot find the daemon of a start that was killed between
the spawn and `shim.pid` (`bootstrap.go:119-133` against 178-180), which DeleteEndsShim
therefore excepts.

## 7. Plan

Done: TaskLifecycle, ShimTask, ShimExec, VmmSupply, VmmPool, SandboxManager, AgentCalls, Agent,
PodNet, DriverInstance, Instance, ShimBootstrap, and a proof of every safety property they state.

Next: an abstract manager (a set of sandboxes, each created, deleted once) that SandboxManager implements; an
invariant of its own for a Wait of ShimTask that ties `woken` to the closed channels, as a lemma for the
liveness TLC checks; a pool and an instance composed, with DriverInstance in the place of Instance.
