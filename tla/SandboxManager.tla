---------------------------- MODULE SandboxManager ----------------------------
(***************************************************************************)
(* The sandbox manager (pkg/sandbox/sandbox.go) behind the HTTP daemon     *)
(* (pkg/api, pkg/e2b, cmd/vessel serveHTTP), with what its calls do to a   *)
(* Cloud Hypervisor instance and to a snapshot directory                   *)
(* (pkg/driver/cloudhypervisor/driver.go Snapshot, Restore).  Every HTTP   *)
(* request is a goroutine; m.mu guards only the map of instances and is    *)
(* never held over a driver call.  A call of the VMM's API whose client    *)
(* has gone, or whose transport broke, may still be carried out.           *)
(***************************************************************************)
EXTENDS Naturals, FiniteSets

CONSTANTS
  Insts,          \* sandbox instances; bounds how many are ever created
  Reqs,           \* HTTP requests; bounds how many are ever issued
  Dirs,           \* snapshot directories
  NoInst, NoDir,  \* no instance, no directory
  DirsOwned,      \* clients replace a snapshot only while nobody uses it, and
                  \* restore only what a successful snapshot left
  MaxGone,        \* bounds how many requests run on with their client gone
  VmmErrs         \* a call of the VMM may fail with its client still there

ASSUME ConstantsAssumption ==
  /\ NoInst \notin Insts
  /\ NoDir \notin Dirs
  /\ DirsOwned \in BOOLEAN
  /\ MaxGone \in Nat
  /\ VmmErrs \in BOOLEAN

VARIABLES
  instances,  \* m.instances
  vm,         \* the VM of each instance
  origin,     \* for a clone, whose memory and whose config.json it restored
  dirs,       \* the two parts of each snapshot directory, by the VM they are of
  good,       \* the directories whose last snapshot was answered with success
  req,        \* the request goroutines
  todo,       \* what a VMM still has to do of the last call a request sent it
  main,       \* the main goroutine of the daemon
  victims     \* the instances Shutdown took from the map

vars == <<instances, vm, origin, dirs, good, req, todo, main, victims>>

InstOrNone == Insts \cup {NoInst}

\* A snapshot: guest memory (and device state), and config.json.
Snap == [mem : InstOrNone, config : InstOrNone]

Ops == {"", "Create", "Restore", "Snapshot", "Fork", "Delete", "Kill"}

PCs == {"new", "boot", "clear", "pause", "write", "wait", "resume", "link",
        "config", "restore", "track", "stop", "failed", "ok"}

\* errs are the calls of Instance.Snapshot that returned an error.
Request == [pc : PCs, op : Ops, inst : InstOrNone, dir : Dirs \cup {NoDir},
            clone : InstOrNone, snap : Snap, gone : BOOLEAN,
            errs : SUBSET {"pause", "snapshot", "resume"}]

\* Of a snapshot call, the parts that are still to be written.
Todos == {"pause", "mem", "config", "resume"}

TypeOK ==
  /\ instances \in SUBSET Insts
  /\ vm \in [Insts -> {"none", "up", "paused", "stopped", "killed"}]
  /\ origin \in [Insts -> Snap]
  /\ dirs \in [Dirs -> Snap]
  /\ good \in SUBSET Dirs
  /\ req \in [Reqs -> Request]
  /\ todo \in [Reqs -> SUBSET Todos]
  /\ main \in {"serving", "stopping", "closing", "draining", "exited"}
  /\ victims \in SUBSET Insts

NoSnap == [mem |-> NoInst, config |-> NoInst]

NewReq == [pc |-> "new", op |-> "", inst |-> NoInst, dir |-> NoDir,
           clone |-> NoInst, snap |-> NoSnap, gone |-> FALSE, errs |-> {}]

Init ==
  /\ instances = {}
  /\ vm = [i \in Insts |-> "none"]
  /\ origin = [i \in Insts |-> NoSnap]
  /\ dirs = [d \in Dirs |-> NoSnap]
  /\ good = {}
  /\ req = [r \in Reqs |-> NewReq]
  /\ todo = [r \in Reqs |-> {}]
  /\ main = "serving"
  /\ victims = {}

-----------------------------------------------------------------------------
(* Requests *)

Running(r) == req[r].pc \notin {"new", "failed", "ok"}

\* The listener is open until srv.Shutdown, which mgr.Shutdown precedes.
Arrives(r) == req[r].pc = "new" /\ main \in {"serving", "stopping", "closing"}

At(r, pc) == req[r].pc = pc /\ main # "exited"

Goto(r, pc) == req' = [req EXCEPT ![r].pc = pc]

\* The handler returns an error, and what it held is gone.
Fails(r) == req' = [req EXCEPT ![r] = [NewReq EXCEPT !.pc = "failed"]]

Accept(r, op, pc, i, d) ==
  req' = [req EXCEPT ![r].pc = pc, ![r].op = op, ![r].inst = i, ![r].dir = d]

\* The request's context is cancelled, and the later calls that take it fail.
\* Told apart only inside Instance.Snapshot: to Boot and RestoreVM it is one of
\* the ways to fail, and nothing else depends on it.
ClientLeaves(r) ==
  /\ Cardinality({q \in Reqs : req[q].gone}) < MaxGone
  /\ req[r].pc \in {"pause", "write", "wait", "resume"}
  /\ ~req[r].gone
  /\ req' = [req EXCEPT ![r].gone = TRUE]
  /\ UNCHANGED <<instances, vm, origin, dirs, good, todo, main, victims>>

Snaps(r) == req[r].op \in {"Snapshot", "Fork"}

\* Any number of clones may be restored from one template at a time.
MayWrite(d) == DirsOwned => \A q \in Reqs : req[q].dir = d => ~Running(q)

MayRead(d) ==
  DirsOwned => /\ d \in good
               /\ \A q \in Reqs : req[q].dir = d /\ Snaps(q) => ~Running(q)

Create(r) ==
  /\ Arrives(r)
  /\ Accept(r, "Create", "boot", NoInst, NoDir)
  /\ UNCHANGED <<instances, vm, origin, dirs, good, todo, main, victims>>

\* Faulty: the error of d.Create is not looked at.
BootUnchecked(r) ==
  /\ At(r, "boot")
  /\ Goto(r, "track")
  /\ UNCHANGED <<instances, vm, origin, dirs, good, todo, main, victims>>

\* d.Create; on failure the driver stops what it started.
Boot(r) ==
  /\ At(r, "boot")
  /\ \/ \E i \in Insts :
          /\ vm[i] = "none"
          /\ vm' = [vm EXCEPT ![i] = "up"]
          /\ req' = [req EXCEPT ![r].pc = "track", ![r].clone = i]
     \/ Fails(r) /\ UNCHANGED vm
  /\ UNCHANGED <<instances, origin, dirs, good, todo, main, victims>>

\* Faulty: the new instance is handed to the client and not remembered.
ForgetTrack(r) ==
  /\ At(r, "track")
  /\ Goto(r, "ok")
  /\ UNCHANGED <<instances, vm, origin, dirs, good, todo, main, victims>>

Track(r) ==
  /\ At(r, "track")
  /\ instances' = instances \cup {req[r].clone}
  /\ Goto(r, "ok")
  /\ UNCHANGED <<vm, origin, dirs, good, todo, main, victims>>

\* Get, Snapshot and Fork look the instance up and use it without the lock.
Lookup(r, op, pc, i, d) ==
  /\ Arrives(r)
  /\ IF i \in instances THEN Accept(r, op, pc, i, d) ELSE Fails(r)
  /\ UNCHANGED <<instances, vm, origin, dirs, good, todo, main, victims>>

Snapshot(r, i, d) == MayWrite(d) /\ Lookup(r, "Snapshot", "clear", i, d)

\* Faulty: a snapshot found in the directory is used as it is.
ForkReusing(r, i, d) ==
  /\ MayWrite(d)
  /\ Lookup(r, "Fork", IF dirs[d].mem = NoInst THEN "clear" ELSE "link", i, d)

Fork(r, i, d) == MayWrite(d) /\ Lookup(r, "Fork", "clear", i, d)

RestoreFrom(r, d) ==
  /\ MayRead(d)
  /\ Arrives(r)
  /\ Accept(r, "Restore", "link", NoInst, d)
  /\ UNCHANGED <<instances, vm, origin, dirs, good, todo, main, victims>>

-----------------------------------------------------------------------------
(* Instance.Snapshot *)

\* RemoveAll, MkdirAll; either may fail, with some of the files gone.
ClearDir(r) ==
  LET d == req[r].dir
  IN /\ At(r, "clear")
     /\ \/ dirs' = [dirs EXCEPT ![d] = NoSnap] /\ Goto(r, "pause")
        \/ /\ \E m \in {NoInst, dirs[d].mem}, c \in {NoInst, dirs[d].config} :
                dirs' = [dirs EXCEPT ![d] = [mem |-> m, config |-> c]]
           /\ Fails(r)
     /\ good' = good \ {d}
     /\ UNCHANGED <<instances, vm, origin, todo, main, victims>>

\* The VMM takes one call at a time.
Writing(i) == \E q \in Reqs : req[q].inst = i /\ todo[q] \cap {"mem", "config"} # {}

\* The context is cancelled, or the connection to the VMM breaks.
CallMayFail(r) == req[r].gone \/ VmmErrs

CallFails(r, call) == req' = [req EXCEPT ![r].errs = @ \cup {call}, ![r].pc = "resume"]

CallEnds(r, call) ==
  req' = [req EXCEPT ![r].errs = @ \cup {call}, ![r].pc = "failed", ![r].gone = FALSE]

\* What failed for its caller the VMM may carry out later.
MayLeave(r, call) ==
  \/ UNCHANGED todo
  \/ CallMayFail(r) /\ todo' = [todo EXCEPT ![r] = @ \cup {call}]

\* The VMM refuses to pause a VM that is paused or gone.  After an error
\* Snapshot returns, whether or not the VM is paused.
PauseVM(r) ==
  LET i == req[r].inst
  IN /\ At(r, "pause")
     /\ \/ /\ vm[i] = "up"
           /\ ~Writing(i)
           /\ ~req[r].gone
           /\ vm' = [vm EXCEPT ![i] = "paused"]
           /\ Goto(r, "write")
           /\ UNCHANGED todo
        \/ /\ vm[i] # "up" \/ CallMayFail(r)
           /\ CallEnds(r, "pause")
           /\ MayLeave(r, "pause")
           /\ UNCHANGED vm
     /\ UNCHANGED <<instances, origin, dirs, good, main, victims>>

\* The call is sent, or fails before it is.
SnapshotVM(r) ==
  /\ At(r, "write")
  /\ \/ /\ ~req[r].gone
        /\ Goto(r, "wait")
        /\ todo' = [todo EXCEPT ![r] = {"mem", "config"}]
     \/ /\ CallMayFail(r)
        /\ CallFails(r, "snapshot")
        /\ UNCHANGED todo
  /\ UNCHANGED <<instances, vm, origin, dirs, good, main, victims>>

\* The call returns when all is written or refused; or it fails, and the VMM
\* writes on.
SnapshotReturns(r) ==
  LET i == req[r].inst
      d == req[r].dir
  IN /\ At(r, "wait")
     /\ \/ /\ todo[r] = {}
           /\ Goto(r, "resume")
           /\ UNCHANGED todo
        \/ /\ \/ vm[i] # "paused"
              \/ "mem" \in todo[r] /\ dirs[d].mem # NoInst
              \/ "config" \in todo[r] /\ dirs[d].config # NoInst
           /\ CallFails(r, "snapshot")
           /\ todo' = [todo EXCEPT ![r] = {}]
        \/ /\ CallMayFail(r)
           /\ CallFails(r, "snapshot")
           /\ UNCHANGED todo
     /\ UNCHANGED <<instances, vm, origin, dirs, good, main, victims>>

\* Faulty: Snapshot returns as soon as the snapshot failed.
ResumeOnSuccess(r) ==
  LET i == req[r].inst
  IN /\ At(r, "resume")
     /\ \/ req[r].errs # {} /\ Fails(r) /\ UNCHANGED vm
        \/ /\ req[r].errs = {}
           /\ vm[i] = "paused"
           /\ ~req[r].gone
           /\ vm' = [vm EXCEPT ![i] = "up"]
           /\ Goto(r, IF req[r].op = "Fork" THEN "link" ELSE "ok")
     /\ UNCHANGED <<instances, origin, dirs, good, todo, main, victims>>

\* ResumeVM is tried whatever SnapshotVM said, with the same context; the VMM
\* refuses to resume a VM that is not paused.
ResumeVM(r) ==
  LET i == req[r].inst
  IN /\ At(r, "resume")
     /\ \/ /\ vm[i] = "paused"
           /\ ~Writing(i)
           /\ ~req[r].gone
           /\ vm' = [vm EXCEPT ![i] = "up"]
           /\ IF req[r].errs = {}
              THEN /\ Goto(r, IF req[r].op = "Fork" THEN "link" ELSE "ok")
                   /\ good' = good \cup {req[r].dir}
              ELSE Fails(r) /\ UNCHANGED good
           /\ UNCHANGED todo
        \/ /\ vm[i] # "paused" \/ CallMayFail(r)
           /\ CallEnds(r, "resume")
           /\ MayLeave(r, "resume")
           /\ UNCHANGED <<vm, good>>
     /\ UNCHANGED <<instances, origin, dirs, main, victims>>

-----------------------------------------------------------------------------
(* The VMM's side of a snapshot call, and of calls whose caller has left *)

\* It writes one file after another, and refuses to overwrite.
VmmWrites(r) ==
  LET i == req[r].inst
      d == req[r].dir
  IN /\ todo[r] \cap {"mem", "config"} # {}
     /\ vm[i] = "paused"
     /\ \/ /\ "mem" \in todo[r]
           /\ dirs[d].mem = NoInst
           /\ dirs' = [dirs EXCEPT ![d].mem = i]
           /\ todo' = [todo EXCEPT ![r] = @ \ {"mem"}]
        \/ /\ "config" \in todo[r]
           /\ dirs[d].config = NoInst
           /\ dirs' = [dirs EXCEPT ![d].config = i]
           /\ todo' = [todo EXCEPT ![r] = @ \ {"config"}]
     /\ UNCHANGED <<instances, vm, origin, good, req, main, victims>>

LatePause(r) ==
  LET i == req[r].inst
  IN /\ "pause" \in todo[r]
     /\ vm[i] = "up"
     /\ ~Writing(i)
     /\ vm' = [vm EXCEPT ![i] = "paused"]
     /\ todo' = [todo EXCEPT ![r] = @ \ {"pause"}]
     /\ UNCHANGED <<instances, origin, dirs, good, req, main, victims>>

LateResume(r) ==
  LET i == req[r].inst
  IN /\ "resume" \in todo[r]
     /\ vm[i] = "paused"
     /\ ~Writing(i)
     /\ vm' = [vm EXCEPT ![i] = "up"]
     /\ todo' = [todo EXCEPT ![r] = @ \ {"resume"}]
     /\ UNCHANGED <<instances, origin, dirs, good, req, main, victims>>

\* What is left of a call that nobody waits for comes to nothing.
VmmDrops(r) ==
  /\ todo[r] # {}
  /\ ~Running(r)
  /\ todo' = [todo EXCEPT ![r] = {}]
  /\ UNCHANGED <<instances, vm, origin, dirs, good, req, main, victims>>

-----------------------------------------------------------------------------
(* Driver.Restore: the clone's own view of the snapshot, then vm.restore *)

\* prepareCloneSnapshot hardlinks what is in the directory now ...
LinkFiles(r) ==
  /\ At(r, "link")
  /\ \/ req' = [req EXCEPT ![r].pc = "config", ![r].snap.mem = dirs[req[r].dir].mem]
     \/ Fails(r)
  /\ UNCHANGED <<instances, vm, origin, dirs, good, todo, main, victims>>

\* ... and reads config.json afterwards.
ReadConfig(r) ==
  LET c == dirs[req[r].dir].config
  IN /\ At(r, "config")
     /\ \/ /\ c # NoInst
           /\ req' = [req EXCEPT ![r].pc = "restore", ![r].snap.config = c]
        \/ Fails(r)
     /\ UNCHANGED <<instances, vm, origin, dirs, good, todo, main, victims>>

RestoreVM(r) ==
  /\ At(r, "restore")
  /\ \/ \E i \in Insts :
          /\ vm[i] = "none"
          /\ req[r].snap.mem # NoInst
          /\ vm' = [vm EXCEPT ![i] = "up"]
          /\ origin' = [origin EXCEPT ![i] = req[r].snap]
          /\ req' = [req EXCEPT ![r].pc = "track", ![r].clone = i, ![r].snap = NoSnap]
     \/ Fails(r) /\ UNCHANGED <<vm, origin>>
  /\ UNCHANGED <<instances, dirs, good, todo, main, victims>>

-----------------------------------------------------------------------------
(* Delete, and the E2B front door's kill, which stops without Delete *)

\* Faulty: the map entry goes after the stop.
DeleteLate(r, i) == Lookup(r, "Delete", "stop", i, NoDir)

Delete(r, i) ==
  /\ Arrives(r)
  /\ IF i \in instances
     THEN Accept(r, "Delete", "stop", i, NoDir) /\ instances' = instances \ {i}
     ELSE Fails(r) /\ UNCHANGED instances
  /\ UNCHANGED <<vm, origin, dirs, good, todo, main, victims>>

Kill(r, i) == Lookup(r, "Kill", "stop", i, NoDir)

\* Stop ends the VM, at worst by SIGKILL; a VMM that hangs is module Instance's.
StopInstance(r) ==
  /\ At(r, "stop")
  /\ vm' = [vm EXCEPT ![req[r].inst] = "stopped"]
  /\ Goto(r, "ok")
  /\ UNCHANGED <<instances, origin, dirs, good, todo, main, victims>>

-----------------------------------------------------------------------------
(* The daemon's end: mgr.Shutdown, then srv.Shutdown, then exit *)

BeginShutdown ==
  /\ main = "serving"
  /\ main' = "stopping"
  /\ victims' = instances
  /\ instances' = {}
  /\ UNCHANGED <<vm, origin, dirs, good, req, todo>>

\* Faulty: the first instance is stopped and the rest are forgotten.
StopOneVictim ==
  /\ main = "stopping"
  /\ \/ \E i \in victims : vm' = [vm EXCEPT ![i] = "stopped"]
     \/ victims = {} /\ UNCHANGED vm
  /\ main' = "closing"
  /\ UNCHANGED <<instances, origin, dirs, good, req, todo, victims>>

StopVictims ==
  /\ main = "stopping"
  /\ \/ /\ \E i \in victims : vm[i] # "stopped" /\ vm' = [vm EXCEPT ![i] = "stopped"]
        /\ UNCHANGED main
     \/ /\ \A i \in victims : vm[i] = "stopped"
        /\ main' = "closing"
        /\ UNCHANGED vm
  /\ UNCHANGED <<instances, origin, dirs, good, req, todo, victims>>

\* The drivers are closed (VmmPool), then the HTTP server stops listening.
CloseDrivers ==
  /\ main = "closing"
  /\ main' = "draining"
  /\ UNCHANGED <<instances, vm, origin, dirs, good, req, todo, victims>>

\* Pdeathsig: the kernel kills the VMMs the daemon leaves behind.
DieWithDaemon ==
  [i \in Insts |-> IF vm[i] \in {"up", "paused"} THEN "killed" ELSE vm[i]]

\* srv.Shutdown returns when no request runs, or after ten seconds.
Exit ==
  /\ main = "draining"
  /\ main' = "exited"
  /\ vm' = DieWithDaemon
  /\ UNCHANGED <<instances, origin, dirs, good, req, todo, victims>>

-----------------------------------------------------------------------------
\* The E2B front door's create is either of the API's create and restore,
\* depending on the template.
ResolveAndCreate(r) == Create(r) \/ \E d \in Dirs : RestoreFrom(r, d)

Call(r) == \/ ResolveAndCreate(r)
           \/ \E i \in Insts : Delete(r, i) \/ Kill(r, i)
           \/ \E i \in Insts, d \in Dirs : Snapshot(r, i, d) \/ Fork(r, i, d)

Continue(r) == \/ Boot(r) \/ Track(r) \/ ClearDir(r) \/ PauseVM(r) \/ SnapshotVM(r)
               \/ SnapshotReturns(r) \/ ResumeVM(r) \/ LinkFiles(r) \/ ReadConfig(r)
               \/ RestoreVM(r) \/ StopInstance(r)

Vmm(r) == VmmWrites(r) \/ LatePause(r) \/ LateResume(r) \/ VmmDrops(r)

Main == BeginShutdown \/ StopVictims \/ CloseDrivers \/ Exit

Next == \/ \E r \in Reqs : Call(r) \/ Continue(r) \/ ClientLeaves(r) \/ Vmm(r)
        \/ Main

Spec == Init /\ [][Next]_vars

-----------------------------------------------------------------------------
(* Properties *)

\* No sandbox is lost: whatever runs is in the map, or a request is about to
\* put it there or to stop it, or Shutdown is. (sandbox.go track, Delete,
\* Shutdown)
NoLostSandbox ==
  \A i \in Insts :
    vm[i] \in {"up", "paused"} =>
      \/ i \in instances
      \/ \E r \in Reqs : req[r].pc = "track" /\ req[r].clone = i
      \/ \E r \in Reqs : req[r].pc = "stop" /\ req[r].inst = i
      \/ main = "stopping" /\ i \in victims

\* "An unknown id is an error so callers can distinguish already gone": of any
\* number of Deletes of one sandbox at most one succeeds, and what it deleted is
\* stopped and never listed again. (sandbox.go:152-165)
DeletedOnce ==
  \A r \in Reqs :
    req[r].op = "Delete" /\ req[r].pc \in {"stop", "ok"} =>
      /\ req[r].inst \notin instances
      /\ \A q \in Reqs : req[q].op = "Delete" /\ req[q].inst = req[r].inst => q = r

\* A clone is a clone: the memory and the configuration it restored are of one
\* VM, and for Fork that VM is the one named in the call. (sandbox.go:226-228,
\* driver.go prepareCloneSnapshot)
CloneFidelity ==
  \A r \in Reqs :
    req[r].pc \in {"track", "ok"} /\ req[r].op \in {"Fork", "Restore"} =>
      LET o == origin[req[r].clone]
      IN /\ o.mem = o.config
         /\ req[r].op = "Fork" => o.mem = req[r].inst

\* A VM is paused only inside the snapshot that paused it, unless that snapshot's
\* own pause or resume returned an error: a snapshot that merely fails to be
\* written leaves no VM paused. (driver.go:313-332)
PausedOnlyInSnapshot ==
  \A i \in Insts :
    vm[i] = "paused" =>
      \E r \in Reqs : /\ req[r].inst = i
                      /\ Snaps(r)
                      /\ \/ req[r].pc \in {"write", "wait", "resume"}
                         \/ req[r].errs \cap {"pause", "resume"} # {}

-----------------------------------------------------------------------------
(* What the repository says and the code does not do *)

\* "The source sandbox keeps running" (sandbox.go:226-228): when a snapshot or
\* fork that paused its source has ended, the source is not left paused.
SourceKeepsRunning ==
  \A r \in Reqs :
    /\ req[r].pc \in {"ok", "failed"}
    /\ Snaps(r)
    /\ "pause" \notin req[r].errs
    /\ vm[req[r].inst] = "paused"
    => \E q \in Reqs : /\ req[q].inst = req[r].inst
                       /\ \/ req[q].pc \in {"write", "wait", "resume"}
                          \/ "resume" \in todo[q]

\* The daemon "stops every sandbox" on SIGTERM (main.go:142-143).  The kernel's
\* SIGKILL is left only for a sandbox that Shutdown could not know of: it was
\* tracked after the map was emptied, or its request was cut off by the exit.
ExitKillsOnlyLate ==
  \A i \in Insts : vm[i] = "killed" =>
    /\ i \notin victims
    /\ \/ i \in instances
       \/ \E r \in Reqs : req[r].pc = "track" /\ req[r].clone = i
       \/ \E r \in Reqs : req[r].pc = "stop" /\ req[r].inst = i
=============================================================================
