------------------------ MODULE SandboxManager_proofs ------------------------
(***************************************************************************)
(* Proofs about SandboxManager, for any number of instances, requests and  *)
(* snapshot directories.                                                   *)
(*                                                                         *)
(* MgrInv is what the code relies on with m.mu released: an instance that  *)
(* a request is about to track is nobody else's yet, and that a paused VM  *)
(* has a snapshot to answer for it.  CloneInv is about the snapshot        *)
(* directories, and holds when clients do not replace a snapshot that is   *)
(* in use; what a VMM still writes for a caller that has left is part of   *)
(* it.                                                                     *)
(***************************************************************************)
EXTENDS SandboxManager, TLAPS

\* What a request holds at each point of its handler.
ReqOK(q) ==
  /\ q.pc = "new" => /\ q.op = "" /\ q.inst = NoInst /\ q.dir = NoDir
                     /\ q.clone = NoInst
  /\ q.pc = "boot" => q.op = "Create"
  /\ q.pc \in {"clear", "pause", "write", "wait", "resume"} =>
       q.op \in {"Snapshot", "Fork"} /\ q.inst \in Insts /\ q.dir \in Dirs
  /\ q.pc \in {"link", "config", "restore"} =>
       q.op \in {"Fork", "Restore"} /\ q.dir \in Dirs
  /\ q.pc = "track" => q.op \in {"Create", "Restore", "Fork"} /\ q.clone \in Insts
  /\ q.pc = "stop" => q.op \in {"Delete", "Kill"} /\ q.inst \in Insts
  /\ q.pc = "ok" /\ q.op \in {"Fork", "Restore"} => q.clone \in Insts
  /\ q.op = "Delete" => q.pc \in {"stop", "ok"} /\ q.inst \in Insts
  /\ q.op = "Fork" => q.inst \in Insts
  /\ q.pc \notin {"resume", "failed"} => q.errs = {}
  /\ q.pc = "resume" => q.errs \subseteq {"snapshot"}

\* What a VMM may still do of a request's last call.
TodoOK(q, t) ==
  /\ t # {} => /\ q.pc \in {"wait", "resume", "failed"}
               /\ q.op \in {"Snapshot", "Fork"} /\ q.inst \in Insts /\ q.dir \in Dirs
  /\ t \cap {"pause", "resume"} # {} => q.pc = "failed"
  /\ "pause" \in t => "pause" \in q.errs

Typed == TypeOK /\ \A r \in Reqs : ReqOK(req[r]) /\ TodoOK(req[r], todo[r])

\* What has been handed to somebody has been created.
Known ==
  \A i \in Insts : vm[i] = "none" =>
    /\ i \notin instances \cup victims
    /\ \A r \in Reqs : req[r].inst # i /\ req[r].clone # i

\* An instance that is about to be tracked is known to that request alone.
Fresh ==
  \A r \in Reqs : req[r].pc = "track" =>
    /\ req[r].clone \notin instances \cup victims
    /\ \A q \in Reqs : /\ req[q].inst # req[r].clone
                       /\ q # r => req[q].clone # req[r].clone

\* Shutdown is done with the instances it took, and the kernel comes last.
Ending ==
  /\ main \in {"closing", "draining", "exited"} => \A i \in victims : vm[i] = "stopped"
  /\ \A i \in Insts : vm[i] = "killed" => main = "exited"

\* A request that answers for a paused VM.
Holds(q, i) ==
  /\ q.inst = i
  /\ q.op \in {"Snapshot", "Fork"}
  /\ \/ q.pc \in {"write", "wait", "resume"}
     \/ q.errs \cap {"pause", "resume"} # {}

PausesHeld == \A i \in Insts : vm[i] = "paused" => \E r \in Reqs : Holds(req[r], i)

MgrInv == /\ Typed /\ Known /\ Fresh /\ Ending
          /\ NoLostSandbox /\ DeletedOnce /\ ExitKillsOnlyLate /\ PausesHeld

-----------------------------------------------------------------------------
(* How a step changes the requests *)

\* Requests are goroutines: a step is of one of them.
OnlyMoves(r) ==
  /\ req' \in [Reqs -> Request] /\ todo' \in [Reqs -> SUBSET Todos]
  /\ \A q \in Reqs \ {r} : req'[q] = req[q] /\ todo'[q] = todo[q]

\* A step that writes one request.
LEMMA MovesTo ==
  ASSUME TypeOK, NEW r \in Reqs, NEW n \in Request, req' = [req EXCEPT ![r] = n],
         \/ UNCHANGED todo
         \/ /\ todo' \in [Reqs -> SUBSET Todos]
            /\ \A q \in Reqs \ {r} : todo'[q] = todo[q]
  PROVE  OnlyMoves(r) /\ req'[r] = n
<1>1. req \in [Reqs -> Request] /\ todo \in [Reqs -> SUBSET Todos]
  BY DEF TypeOK
<1>2. req' \in [Reqs -> Request] /\ req'[r] = n /\ \A q \in Reqs \ {r} : req'[q] = req[q]
  BY <1>1
<1>3. todo' \in [Reqs -> SUBSET Todos] /\ \A q \in Reqs \ {r} : todo'[q] = todo[q]
  BY <1>1
<1> QED
  BY <1>2, <1>3 DEF OnlyMoves

\* A request that goes on keeps what it holds.
LEMMA GotoMoves ==
  ASSUME TypeOK, NEW r \in Reqs, NEW pc \in PCs, Goto(r, pc), UNCHANGED todo
  PROVE  /\ OnlyMoves(r)
         /\ req'[r] = [req[r] EXCEPT !.pc = pc]
BY DEF TypeOK, Goto, OnlyMoves, Request

\* A request that fails holds nothing.
LEMMA FailsMoves ==
  ASSUME TypeOK, NEW r \in Reqs, Fails(r), UNCHANGED todo
  PROVE  /\ OnlyMoves(r)
         /\ req'[r].pc = "failed" /\ req'[r].op = "" /\ req'[r].inst = NoInst
         /\ req'[r].clone = NoInst /\ req'[r].dir = NoDir /\ req'[r].errs = {}
<1> DEFINE n == [NewReq EXCEPT !.pc = "failed"]
<1>1. n = [NewReq EXCEPT !.pc = "failed"] /\ req' = [req EXCEPT ![r] = n]
  BY DEF Fails
<1>2. /\ n \in Request
      /\ n.pc = "failed" /\ n.op = "" /\ n.inst = NoInst
      /\ n.clone = NoInst /\ n.dir = NoDir /\ n.errs = {}
  BY DEF NewReq, Request, PCs, Ops, NoSnap, Snap, InstOrNone
<1> HIDE DEF n
<1>3. req \in [Reqs -> Request] /\ todo' \in [Reqs -> SUBSET Todos] /\ UNCHANGED todo
  BY DEF TypeOK
<1> QED
  BY <1>1, <1>2, <1>3 DEF OnlyMoves

\* What a request that has arrived is given, and what it keeps.
Accepted(r, op, pc, i, d) ==
  LET old == req[r]
      new == req'[r]
  IN /\ OnlyMoves(r)
     /\ new.pc = pc /\ new.op = op /\ new.inst = i /\ new.dir = d
     /\ new.clone = old.clone /\ new.snap = old.snap /\ new.errs = old.errs
     /\ UNCHANGED todo

\* A request that is accepted gets its operation, instance and directory.
LEMMA AcceptMoves ==
  ASSUME TypeOK, NEW r \in Reqs, NEW op \in Ops, NEW pc \in PCs,
         NEW i \in InstOrNone, NEW d \in Dirs \cup {NoDir}, Accept(r, op, pc, i, d),
         UNCHANGED todo
  PROVE  Accepted(r, op, pc, i, d)
<1> DEFINE new == [req[r] EXCEPT !.pc = pc, !.op = op, !.inst = i, !.dir = d]
<1>1. req \in [Reqs -> Request] /\ req[r] \in Request /\ todo \in [Reqs -> SUBSET Todos]
  BY DEF TypeOK
<1>2. new \in Request
  BY <1>1 DEF Request
<1>3. req' = [req EXCEPT ![r] = new]
  BY <1>1 DEF Accept
<1> HIDE DEF new
<1>4. OnlyMoves(r) /\ req'[r] = new
  BY <1>1, <1>2, <1>3 DEF OnlyMoves
<1> QED
  BY <1>1, <1>4 DEF new, Accepted, Request

-----------------------------------------------------------------------------
(* Steps that take nothing from anybody *)

\* A request moves on and neither a VM nor the map changes.
Quiet(r) ==
  LET old == req[r]
      new == req'[r]
  IN /\ UNCHANGED <<instances, vm, main, victims>>
     /\ OnlyMoves(r)
     /\ ReqOK(new)
     /\ TodoOK(new, todo'[r])
     /\ old.pc \notin {"track", "stop", "ok"}
     /\ new.pc # "track"
     /\ new.op # "Delete"
     /\ new.clone \in {NoInst, old.clone}
     /\ new.inst \in instances \cup {NoInst, old.inst}
     /\ \A i \in Insts : Holds(old, i) => Holds(new, i) \/ vm[i] # "paused"

\* Nothing that was somebody's is lost by such a step. (sandbox.go, driver.go)
LEMMA QuietKeeps ==
  ASSUME MgrInv, NEW r \in Reqs, Quiet(r), dirs' \in [Dirs -> Snap], origin' \in [Insts -> Snap],
         good' \in SUBSET Dirs
  PROVE  MgrInv'
<1> USE ConstantsAssumption
<1>t. /\ TypeOK /\ req[r] \in Request
      /\ \A q \in Reqs : ReqOK(req[q]) /\ TodoOK(req[q], todo[q])
  BY DEF MgrInv, Typed, TypeOK
<1>q. /\ \A q \in Reqs \ {r} : req'[q] = req[q] /\ todo'[q] = todo[q]
      /\ req' \in [Reqs -> Request] /\ req'[r] \in Request
      /\ todo' \in [Reqs -> SUBSET Todos]
  BY DEF Quiet, OnlyMoves
<1>1. Typed'
  BY <1>t, <1>q DEF Typed, TypeOK, Quiet
<1>2. Known'
  <2> SUFFICES ASSUME NEW i \in Insts, vm[i] = "none"
               PROVE  /\ i \notin instances \cup victims
                      /\ \A q \in Reqs : req'[q].inst # i /\ req'[q].clone # i
    BY DEF Known, Quiet
  <2>1. /\ i \notin instances \cup victims
        /\ \A q \in Reqs : req[q].inst # i /\ req[q].clone # i
    BY DEF MgrInv, Known
  <2> QED
    BY <2>1, <1>q DEF Quiet
<1>3. Fresh'
  <2> SUFFICES ASSUME NEW p \in Reqs, req'[p].pc = "track"
               PROVE  /\ req'[p].clone \notin instances \cup victims
                      /\ \A q \in Reqs : /\ req'[q].inst # req'[p].clone
                                         /\ q # p => req'[q].clone # req'[p].clone
    BY DEF Fresh, Quiet
  <2>1. p # r /\ req'[p] = req[p]
    BY <1>q DEF Quiet
  <2>2. /\ req[p].clone \notin instances \cup victims
        /\ \A q \in Reqs : /\ req[q].inst # req[p].clone
                           /\ q # p => req[q].clone # req[p].clone
    BY <2>1 DEF MgrInv, Fresh
  <2>3. req[p].clone \in Insts
    BY <1>t, <2>1 DEF ReqOK
  <2> QED
    BY <2>1, <2>2, <2>3, <1>q DEF Quiet
<1>4. Ending'
  BY DEF MgrInv, Ending, Quiet
<1>5. NoLostSandbox'
  BY <1>q DEF MgrInv, NoLostSandbox, Quiet
<1>6. DeletedOnce'
  BY <1>q DEF MgrInv, DeletedOnce, Quiet
<1>7. ExitKillsOnlyLate'
  BY <1>q DEF MgrInv, ExitKillsOnlyLate, Quiet
<1>8. PausesHeld'
  BY <1>q DEF MgrInv, PausesHeld, Quiet
<1> QED
  BY <1>1, <1>2, <1>3, <1>4, <1>5, <1>6, <1>7, <1>8 DEF MgrInv

-----------------------------------------------------------------------------
(* Steps that create, track, pause, resume and stop *)

\* A boot or a restore has made a VM, which its request is about to track.
Born(r, i) ==
  /\ UNCHANGED <<instances, main, victims>>
  /\ vm[i] = "none"
  /\ vm' = [vm EXCEPT ![i] = "up"]
  /\ OnlyMoves(r)
  /\ req[r].pc \in {"boot", "restore"}
  /\ ReqOK(req'[r])
  /\ req'[r].pc = "track"
  /\ req'[r].clone = i
  /\ req'[r].inst = req[r].inst
  /\ req'[r].op = req[r].op
  /\ UNCHANGED todo

\* A VM that was just made is its request's alone. (sandbox.go Create, RestoreFrom)
LEMMA BornKeeps ==
  ASSUME MgrInv, NEW r \in Reqs, NEW i \in Insts, Born(r, i), origin' \in [Insts -> Snap],
         UNCHANGED <<dirs, good>>
  PROVE  MgrInv'
<1> USE ConstantsAssumption
<1>t. /\ TypeOK /\ req[r] \in Request
      /\ \A q \in Reqs : ReqOK(req[q]) /\ TodoOK(req[q], todo[q])
      /\ vm \in [Insts -> {"none", "up", "paused", "stopped", "killed"}]
  BY DEF MgrInv, Typed, TypeOK
<1>q. /\ \A q \in Reqs \ {r} : req'[q] = req[q]
      /\ req' \in [Reqs -> Request] /\ req'[r] \in Request
  BY DEF Born, OnlyMoves
<1>z. todo[r] = {}
  BY <1>t DEF Born, TodoOK
<1>v. vm'[i] = "up" /\ \A j \in Insts \ {i} : vm'[j] = vm[j]
  BY <1>t DEF Born
<1>n. /\ i \notin instances \cup victims
      /\ \A q \in Reqs : req[q].inst # i /\ req[q].clone # i
  BY DEF MgrInv, Known, Born
<1>o. /\ req[r].op # "Delete" /\ req[r].pc \notin {"track", "stop", "ok", "write", "wait", "resume"}
      /\ req[r].errs = {}
  BY <1>t DEF Born, ReqOK
<1>1. Typed'
  BY <1>t, <1>q, <1>z DEF Typed, TypeOK, Born, TodoOK
<1>2. Known'
  BY <1>q, <1>v DEF MgrInv, Known, Born
<1>3. Fresh'
  <2> SUFFICES ASSUME NEW p \in Reqs, req'[p].pc = "track"
               PROVE  /\ req'[p].clone \notin instances \cup victims
                      /\ \A q \in Reqs : /\ req'[q].inst # req'[p].clone
                                         /\ q # p => req'[q].clone # req'[p].clone
    BY DEF Fresh, Born
  <2>1. CASE p = r
    BY <2>1, <1>n, <1>q DEF Born
  <2>2. CASE p # r
    <3>1. req'[p] = req[p]
      BY <2>2, <1>q
    <3>2. /\ req[p].clone \notin instances \cup victims
          /\ \A q \in Reqs : /\ req[q].inst # req[p].clone
                             /\ q # p => req[q].clone # req[p].clone
      BY <3>1 DEF MgrInv, Fresh
    <3>3. req[p].clone # i
      BY <1>n
    <3> QED
      BY <2>2, <3>1, <3>2, <3>3, <1>q DEF Born
  <2> QED
    BY <2>1, <2>2
<1>4. Ending'
  BY <1>v, <1>n, <1>t DEF MgrInv, Ending, Born, TypeOK
<1>5. NoLostSandbox'
  <2> SUFFICES ASSUME NEW j \in Insts, vm'[j] \in {"up", "paused"}
               PROVE  \/ j \in instances
                      \/ \E p \in Reqs : req'[p].pc = "track" /\ req'[p].clone = j
                      \/ \E p \in Reqs : req'[p].pc = "stop" /\ req'[p].inst = j
                      \/ main = "stopping" /\ j \in victims
    BY DEF NoLostSandbox, Born
  <2>1. CASE j = i
    BY <2>1 DEF Born
  <2>2. CASE j # i
    BY <2>2, <1>q, <1>v, <1>o DEF MgrInv, NoLostSandbox
  <2> QED
    BY <2>1, <2>2
<1>6. DeletedOnce'
  BY <1>q, <1>o DEF MgrInv, DeletedOnce, Born
<1>7. ExitKillsOnlyLate'
  BY <1>q, <1>v, <1>o DEF MgrInv, ExitKillsOnlyLate, Born
<1>8. PausesHeld'
  BY <1>q, <1>v, <1>o DEF MgrInv, PausesHeld, Holds, Born
<1> QED
  BY <1>1, <1>2, <1>3, <1>4, <1>5, <1>6, <1>7, <1>8 DEF MgrInv

\* What was fresh is in the map from now on. (sandbox.go track)
LEMMA TrackKeeps ==
  ASSUME MgrInv, NEW r \in Reqs, Track(r)
  PROVE  MgrInv'
<1> USE ConstantsAssumption
<1>t. /\ TypeOK /\ req[r] \in Request
      /\ \A q \in Reqs : ReqOK(req[q]) /\ TodoOK(req[q], todo[q])
      /\ req[r].clone \in Insts /\ req[r].op \in {"Create", "Restore", "Fork"}
      /\ req[r].pc = "track" /\ main # "exited" /\ req[r].errs = {} /\ todo[r] = {}
      /\ UNCHANGED todo
  BY DEF MgrInv, Typed, TypeOK, Track, At, ReqOK, TodoOK
<1>m. "ok" \in PCs
  BY DEF PCs
<1>g. /\ OnlyMoves(r)
      /\ req'[r] = [req[r] EXCEPT !.pc = "ok"]
  BY <1>t, <1>m, GotoMoves DEF Track
<1>q. /\ \A q \in Reqs \ {r} : req'[q] = req[q]
      /\ req' \in [Reqs -> Request] /\ req'[r] \in Request
      /\ req'[r].pc = "ok" /\ req'[r].op = req[r].op /\ req'[r].inst = req[r].inst
      /\ req'[r].clone = req[r].clone /\ req'[r].errs = req[r].errs
  BY <1>g, <1>t DEF OnlyMoves, Request
<1>u. /\ instances' = instances \cup {req[r].clone}
      /\ UNCHANGED <<vm, origin, dirs, good, todo, main, victims>>
  BY DEF Track
<1>1. Typed'
  <2>1. ReqOK(req'[r]) /\ TodoOK(req'[r], todo[r])
    BY <1>t, <1>q DEF ReqOK, TodoOK
  <2> QED
    BY <2>1, <1>t, <1>q, <1>u DEF Typed, TypeOK
<1>f. /\ vm[req[r].clone] # "none" /\ req[r].clone \notin victims
      /\ \A q \in Reqs : /\ req[q].inst # req[r].clone
                         /\ q # r => req[q].clone # req[r].clone
  BY <1>t DEF MgrInv, Known, Fresh
<1>2. Known'
  BY <1>q, <1>u, <1>f DEF MgrInv, Known
<1>3. Fresh'
  <2> SUFFICES ASSUME NEW p \in Reqs, req'[p].pc = "track"
               PROVE  /\ req'[p].clone \notin instances' \cup victims
                      /\ \A q \in Reqs : /\ req'[q].inst # req'[p].clone
                                         /\ q # p => req'[q].clone # req'[p].clone
    BY <1>u DEF Fresh
  <2>1. p # r /\ req'[p] = req[p]
    BY <1>q
  <2>2. /\ req[p].clone \notin instances \cup victims
        /\ \A q \in Reqs : /\ req[q].inst # req[p].clone
                           /\ q # p => req[q].clone # req[p].clone
    BY <2>1 DEF MgrInv, Fresh
  <2> QED
    BY <2>1, <2>2, <1>q, <1>u
<1>4. Ending'
  BY <1>u DEF MgrInv, Ending
<1>5. NoLostSandbox'
  BY <1>q, <1>u, <1>t DEF MgrInv, NoLostSandbox
<1>6. DeletedOnce'
  BY <1>q, <1>u, <1>f, <1>t DEF MgrInv, DeletedOnce
<1>7. ExitKillsOnlyLate'
  BY <1>q, <1>u, <1>t DEF MgrInv, ExitKillsOnlyLate
<1>8. PausesHeld'
  BY <1>q, <1>u, <1>t DEF MgrInv, PausesHeld, Holds
<1> QED
  BY <1>1, <1>2, <1>3, <1>4, <1>5, <1>6, <1>7, <1>8 DEF MgrInv

\* A pause or a resume inside a snapshot.
Toggled(r, state) ==
  LET old == req[r]
      new == req'[r]
  IN /\ UNCHANGED <<instances, origin, dirs, todo, main, victims>>
     /\ vm' = [vm EXCEPT ![old.inst] = state]
     /\ good' \in SUBSET Dirs
     /\ OnlyMoves(r)
     /\ ReqOK(new)
     /\ TodoOK(new, todo[r])
     /\ new.pc \notin {"new", "track", "stop"}
     /\ new.op # "Delete"
     /\ new.clone \in {NoInst, old.clone}
     /\ new.inst \in {NoInst, old.inst}
     /\ \/ /\ old.pc = "pause" /\ vm[old.inst] = "up" /\ state = "paused"
           /\ Holds(new, old.inst)
        \/ old.pc = "resume" /\ vm[old.inst] = "paused" /\ state = "up"

\* A pause belongs to the request that made it. (driver.go Snapshot)
LEMMA ToggledKeeps ==
  ASSUME MgrInv, NEW r \in Reqs, NEW state, Toggled(r, state)
  PROVE  MgrInv'
<1> USE ConstantsAssumption
<1> DEFINE i == req[r].inst
<1>t. /\ TypeOK /\ req[r] \in Request
      /\ \A q \in Reqs : ReqOK(req[q]) /\ TodoOK(req[q], todo[q])
      /\ vm \in [Insts -> {"none", "up", "paused", "stopped", "killed"}]
  BY DEF MgrInv, Typed, TypeOK
<1>q. /\ \A q \in Reqs \ {r} : req'[q] = req[q]
      /\ req' \in [Reqs -> Request] /\ req'[r] \in Request
  BY DEF Toggled, OnlyMoves
<1>o. i \in Insts /\ req[r].op \in {"Snapshot", "Fork"} /\ state \in {"up", "paused"}
  BY <1>t DEF Toggled, ReqOK
<1>v. /\ vm'[i] = state /\ vm[i] \in {"up", "paused"}
      /\ \A j \in Insts \ {i} : vm'[j] = vm[j]
      /\ vm' \in [Insts -> {"none", "up", "paused", "stopped", "killed"}]
  BY <1>t, <1>o DEF Toggled
<1>1. Typed'
  BY <1>t, <1>q, <1>v DEF Typed, TypeOK, Toggled
<1>2. Known'
  BY <1>q, <1>v, <1>o DEF MgrInv, Known, Toggled
<1>3. Fresh'
  <2> SUFFICES ASSUME NEW p \in Reqs, req'[p].pc = "track"
               PROVE  /\ req'[p].clone \notin instances \cup victims
                      /\ \A q \in Reqs : /\ req'[q].inst # req'[p].clone
                                         /\ q # p => req'[q].clone # req'[p].clone
    BY DEF Fresh, Toggled
  <2>1. p # r /\ req'[p] = req[p]
    BY <1>q DEF Toggled
  <2>2. /\ req[p].clone \notin instances \cup victims
        /\ \A q \in Reqs : /\ req[q].inst # req[p].clone
                           /\ q # p => req[q].clone # req[p].clone
    BY <2>1 DEF MgrInv, Fresh
  <2>3. req[p].clone \in Insts
    BY <2>1, <1>t DEF ReqOK
  <2> QED
    BY <2>1, <2>2, <2>3, <1>q DEF Toggled
<1>4. Ending'
  BY <1>v, <1>o, <1>t DEF MgrInv, Ending, Toggled, TypeOK
<1>5. NoLostSandbox'
  <2>1. \A j \in Insts : vm'[j] \in {"up", "paused"} => vm[j] \in {"up", "paused"}
    BY <1>v
  <2>2. req[r].pc \notin {"track", "stop"}
    BY DEF Toggled
  <2> QED
    BY <2>1, <2>2, <1>q DEF MgrInv, NoLostSandbox, Toggled
<1>6. DeletedOnce'
  BY <1>q, <1>o DEF MgrInv, DeletedOnce, Toggled
<1>7. ExitKillsOnlyLate'
  <2>1. \A j \in Insts : vm'[j] = "killed" => vm[j] = "killed"
    BY <1>v, <1>o
  <2>2. req[r].pc \notin {"track", "stop"}
    BY DEF Toggled
  <2> QED
    BY <2>1, <2>2, <1>q DEF MgrInv, ExitKillsOnlyLate, Toggled
<1>8. PausesHeld'
  <2> SUFFICES ASSUME NEW j \in Insts, vm'[j] = "paused"
               PROVE  \E q \in Reqs : Holds(req'[q], j)
    BY DEF PausesHeld
  <2>1. CASE j = i
    BY <2>1, <1>v, <1>o DEF Toggled
  <2>2. CASE j # i
    <3>1. PICK q \in Reqs : Holds(req[q], j)
      BY <2>2, <1>v DEF MgrInv, PausesHeld
    <3>2. q # r
      BY <2>2, <3>1 DEF Holds
    <3> QED
      BY <3>1, <3>2, <1>q
  <2> QED
    BY <2>1, <2>2
<1> QED
  BY <1>1, <1>2, <1>3, <1>4, <1>5, <1>6, <1>7, <1>8 DEF MgrInv

\* A Delete takes its instance out of the map, which no other can do after it.
\* (sandbox.go:152-165)
LEMMA DeleteKeeps ==
  ASSUME MgrInv, NEW r \in Reqs, NEW i \in Insts, i \in instances, Arrives(r),
         Accept(r, "Delete", "stop", i, NoDir), instances' = instances \ {i},
         UNCHANGED <<vm, origin, dirs, good, todo, main, victims>>
  PROVE  MgrInv'
<1> USE ConstantsAssumption
<1>t. /\ TypeOK /\ req[r] \in Request
      /\ \A q \in Reqs : ReqOK(req[q]) /\ TodoOK(req[q], todo[q])
      /\ req[r].pc = "new" /\ main # "exited"
  BY DEF MgrInv, Typed, TypeOK, Arrives
<1>m. "Delete" \in Ops /\ "stop" \in PCs /\ i \in InstOrNone /\ NoDir \in Dirs \cup {NoDir}
  BY DEF Ops, PCs, InstOrNone
<1>g. Accepted(r, "Delete", "stop", i, NoDir)
  <2>1. TypeOK /\ Accept(r, "Delete", "stop", i, NoDir)
    BY <1>t
  <2> QED
    BY <1>m, <2>1, AcceptMoves
<1>o. /\ req[r].op = "" /\ req[r].inst = NoInst /\ req[r].clone = NoInst /\ req[r].errs = {}
      /\ todo[r] = {}
  BY <1>t DEF ReqOK, TodoOK
<1>q. /\ \A q \in Reqs \ {r} : req'[q] = req[q]
      /\ req' \in [Reqs -> Request] /\ req'[r] \in Request
      /\ req'[r].pc = "stop" /\ req'[r].op = "Delete" /\ req'[r].inst = i
      /\ req'[r].clone = NoInst /\ req'[r].errs = {}
  BY <1>g, <1>o DEF Accepted, OnlyMoves
<1>1. Typed'
  <2>1. ReqOK(req'[r]) /\ TodoOK(req'[r], todo[r])
    BY <1>q, <1>o DEF ReqOK, TodoOK
  <2> QED
    BY <2>1, <1>t, <1>q DEF Typed, TypeOK
<1>2. Known'
  BY <1>q, <1>o DEF MgrInv, Known
<1>3. Fresh'
  <2> SUFFICES ASSUME NEW p \in Reqs, req'[p].pc = "track"
               PROVE  /\ req'[p].clone \notin instances' \cup victims
                      /\ \A q \in Reqs : /\ req'[q].inst # req'[p].clone
                                         /\ q # p => req'[q].clone # req'[p].clone
    BY DEF Fresh
  <2>1. p # r /\ req'[p] = req[p]
    BY <1>q
  <2>2. /\ req[p].clone \notin instances \cup victims
        /\ \A q \in Reqs : /\ req[q].inst # req[p].clone
                           /\ q # p => req[q].clone # req[p].clone
    BY <2>1 DEF MgrInv, Fresh
  <2>3. req[p].clone \in Insts
    BY <2>1, <1>t DEF ReqOK
  <2> QED
    BY <2>1, <2>2, <2>3, <1>q
<1>4. Ending'
  BY DEF MgrInv, Ending
<1>5. NoLostSandbox'
  BY <1>q, <1>t DEF MgrInv, NoLostSandbox
<1>6. DeletedOnce'
  <2>1. \A q \in Reqs : req[q].op = "Delete" => req[q].inst # i
    BY <1>t DEF MgrInv, DeletedOnce, ReqOK
  <2> QED
    BY <2>1, <1>q, <1>o DEF MgrInv, DeletedOnce
<1>7. ExitKillsOnlyLate'
  <2>1. \A j \in Insts : vm[j] # "killed"
    BY <1>t DEF MgrInv, Ending
  <2> QED
    BY <2>1, <1>t DEF ExitKillsOnlyLate
<1>8. PausesHeld'
  <2> SUFFICES ASSUME NEW j \in Insts, vm[j] = "paused"
               PROVE  \E q \in Reqs : Holds(req'[q], j)
    BY DEF PausesHeld
  <2>1. PICK q \in Reqs : Holds(req[q], j)
    BY DEF MgrInv, PausesHeld
  <2>2. q # r /\ req'[q] = req[q]
    BY <2>1, <1>o, <1>q DEF Holds
  <2> QED
    BY <2>1, <2>2
<1> QED
  BY <1>1, <1>2, <1>3, <1>4, <1>5, <1>6, <1>7, <1>8 DEF MgrInv

\* What is stopped needs nobody. (driver.go Stop)
LEMMA StopKeeps ==
  ASSUME MgrInv, NEW r \in Reqs, StopInstance(r)
  PROVE  MgrInv'
<1> USE ConstantsAssumption
<1> DEFINE i == req[r].inst
<1>t. /\ TypeOK /\ req[r] \in Request
      /\ \A q \in Reqs : ReqOK(req[q]) /\ TodoOK(req[q], todo[q])
      /\ vm \in [Insts -> {"none", "up", "paused", "stopped", "killed"}]
      /\ req[r].pc = "stop" /\ main # "exited"
      /\ req[r].op \in {"Delete", "Kill"} /\ i \in Insts
      /\ req[r].errs = {} /\ todo[r] = {} /\ UNCHANGED todo
  BY DEF MgrInv, Typed, TypeOK, StopInstance, At, ReqOK, TodoOK
<1>m. "ok" \in PCs
  BY DEF PCs
<1>g. OnlyMoves(r) /\ req'[r] = [req[r] EXCEPT !.pc = "ok"]
  BY <1>t, <1>m, GotoMoves DEF StopInstance
<1>q. /\ \A q \in Reqs \ {r} : req'[q] = req[q]
      /\ req' \in [Reqs -> Request] /\ req'[r] \in Request
      /\ req'[r].pc = "ok" /\ req'[r].op = req[r].op /\ req'[r].inst = i
      /\ req'[r].clone = req[r].clone /\ req'[r].errs = req[r].errs
  BY <1>g, <1>t DEF OnlyMoves, Request
<1>u. UNCHANGED <<instances, origin, dirs, good, todo, main, victims>>
  BY DEF StopInstance
<1>v. /\ vm'[i] = "stopped" /\ (\A j \in Insts \ {i} : vm'[j] = vm[j])
      /\ vm' \in [Insts -> {"none", "up", "paused", "stopped", "killed"}]
  BY <1>t DEF StopInstance
<1>1. Typed'
  <2>1. ReqOK(req'[r]) /\ TodoOK(req'[r], todo[r])
    BY <1>t, <1>q DEF ReqOK, TodoOK
  <2> QED
    BY <2>1, <1>t, <1>q, <1>u, <1>v DEF Typed, TypeOK
<1>2. Known'
  BY <1>q, <1>u, <1>v DEF MgrInv, Known
<1>3. Fresh'
  <2> SUFFICES ASSUME NEW p \in Reqs, req'[p].pc = "track"
               PROVE  /\ req'[p].clone \notin instances \cup victims
                      /\ \A q \in Reqs : /\ req'[q].inst # req'[p].clone
                                         /\ q # p => req'[q].clone # req'[p].clone
    BY <1>u DEF Fresh
  <2>1. p # r /\ req'[p] = req[p]
    BY <1>q
  <2>2. /\ req[p].clone \notin instances \cup victims
        /\ \A q \in Reqs : /\ req[q].inst # req[p].clone
                           /\ q # p => req[q].clone # req[p].clone
    BY <2>1 DEF MgrInv, Fresh
  <2> QED
    BY <2>1, <2>2, <1>q
<1>4. Ending'
  BY <1>u, <1>v, <1>t DEF MgrInv, Ending, TypeOK
<1>5. NoLostSandbox'
  <2> SUFFICES ASSUME NEW j \in Insts, vm'[j] \in {"up", "paused"}
               PROVE  \/ j \in instances
                      \/ \E p \in Reqs : req'[p].pc = "track" /\ req'[p].clone = j
                      \/ \E p \in Reqs : req'[p].pc = "stop" /\ req'[p].inst = j
                      \/ main = "stopping" /\ j \in victims
    BY <1>u DEF NoLostSandbox
  <2>1. j # i /\ vm[j] \in {"up", "paused"}
    BY <1>v
  <2> QED
    BY <2>1, <1>q, <1>t DEF MgrInv, NoLostSandbox
<1>6. DeletedOnce'
  BY <1>q, <1>u, <1>t DEF MgrInv, DeletedOnce
<1>7. ExitKillsOnlyLate'
  BY <1>v, <1>t DEF MgrInv, ExitKillsOnlyLate, Ending
<1>8. PausesHeld'
  <2>1. \A j \in Insts : vm'[j] = "paused" => vm[j] = "paused"
    BY <1>v
  <2> QED
    BY <2>1, <1>q, <1>t DEF MgrInv, PausesHeld, Holds
<1> QED
  BY <1>1, <1>2, <1>3, <1>4, <1>5, <1>6, <1>7, <1>8 DEF MgrInv

\* Shutdown takes the map, stops what was in it, and leaves the rest to the kernel.
\* (sandbox.go Shutdown, main.go serveHTTP)
LEMMA MainKeeps ==
  ASSUME MgrInv, Main
  PROVE  MgrInv'
<1>t. /\ TypeOK /\ (\A q \in Reqs : ReqOK(req[q]) /\ TodoOK(req[q], todo[q]))
      /\ vm \in [Insts -> {"none", "up", "paused", "stopped", "killed"}]
      /\ victims \subseteq Insts
  BY DEF MgrInv, Typed, TypeOK
<1>u. UNCHANGED <<origin, dirs, good, req, todo>>
  BY DEF Main, BeginShutdown, StopVictims, CloseDrivers, Exit
<1>1. CASE BeginShutdown
  <2>1. Typed' /\ Known' /\ Fresh'
    BY <1>1, <1>t, <1>u DEF MgrInv, Typed, TypeOK, Known, Fresh, BeginShutdown
  <2>2. Ending'
    BY <1>1 DEF MgrInv, Ending, BeginShutdown
  <2>3. NoLostSandbox'
    BY <1>1 DEF MgrInv, NoLostSandbox, BeginShutdown
  <2>4. DeletedOnce' /\ PausesHeld'
    BY <1>1 DEF MgrInv, DeletedOnce, PausesHeld, BeginShutdown
  <2>5. ExitKillsOnlyLate'
    BY <1>1 DEF MgrInv, ExitKillsOnlyLate, Ending, BeginShutdown
  <2> QED
    BY <2>1, <2>2, <2>3, <2>4, <2>5 DEF MgrInv
<1>2. ASSUME NEW i \in victims, main = "stopping", vm[i] # "stopped",
             vm' = [vm EXCEPT ![i] = "stopped"], UNCHANGED <<main, instances, victims>>
      PROVE  MgrInv'
  <2>v. /\ vm'[i] = "stopped" /\ (\A j \in Insts \ {i} : vm'[j] = vm[j])
        /\ vm' \in [Insts -> {"none", "up", "paused", "stopped", "killed"}]
    BY <1>2, <1>t
  <2>1. Typed' /\ Fresh'
    BY <1>2, <1>t, <1>u, <2>v DEF MgrInv, Typed, TypeOK, Fresh
  <2>2. Known'
    BY <1>2, <1>u, <2>v DEF MgrInv, Known
  <2>3. Ending' /\ ExitKillsOnlyLate'
    BY <1>2, <2>v DEF MgrInv, Ending, ExitKillsOnlyLate
  <2>4. NoLostSandbox'
    BY <1>2, <1>u, <2>v DEF MgrInv, NoLostSandbox
  <2>5. DeletedOnce'
    BY <1>2, <1>u DEF MgrInv, DeletedOnce
  <2>6. PausesHeld'
    BY <1>u, <2>v DEF MgrInv, PausesHeld
  <2> QED
    BY <2>1, <2>2, <2>3, <2>4, <2>5, <2>6 DEF MgrInv
<1>3. ASSUME main' \in {"closing", "draining"}, main \in {"stopping", "closing"},
             \A i \in victims : vm[i] = "stopped", UNCHANGED <<vm, instances, victims>>
      PROVE  MgrInv'
  <2>1. Typed' /\ Known' /\ Fresh'
    BY <1>3, <1>t, <1>u DEF MgrInv, Typed, TypeOK, Known, Fresh
  <2>2. Ending' /\ ExitKillsOnlyLate'
    BY <1>3, <1>t, <1>u DEF MgrInv, Ending, ExitKillsOnlyLate
  <2>3. NoLostSandbox'
    BY <1>3, <1>u DEF MgrInv, NoLostSandbox
  <2>4. DeletedOnce' /\ PausesHeld'
    BY <1>3, <1>u DEF MgrInv, DeletedOnce, PausesHeld
  <2> QED
    BY <2>1, <2>2, <2>3, <2>4 DEF MgrInv
<1>4. CASE StopVictims
  <2>1. CASE \A i \in victims : vm[i] = "stopped"
    BY <1>3, <1>4, <2>1 DEF StopVictims
  <2>2. CASE \E i \in victims : vm[i] # "stopped" /\ vm' = [vm EXCEPT ![i] = "stopped"]
    BY <1>2, <1>4, <2>2 DEF StopVictims
  <2> QED
    BY <1>4, <2>1, <2>2 DEF StopVictims
<1>5. CASE CloseDrivers
  <2>1. \A i \in victims : vm[i] = "stopped"
    BY <1>5 DEF MgrInv, Ending, CloseDrivers
  <2> QED
    BY <1>3, <1>5, <2>1 DEF CloseDrivers
<1>6. CASE Exit
  <2>e. /\ main = "draining" /\ main' = "exited" /\ UNCHANGED <<instances, victims>>
        /\ \A i \in Insts : vm'[i] = IF vm[i] \in {"up", "paused"} THEN "killed" ELSE vm[i]
        /\ vm' \in [Insts -> {"none", "up", "paused", "stopped", "killed"}]
    BY <1>6, <1>t DEF Exit, DieWithDaemon
  <2>s. \A i \in victims : vm[i] = "stopped"
    BY <2>e DEF MgrInv, Ending
  <2>1. Typed' /\ Fresh'
    BY <2>e, <1>t, <1>u DEF MgrInv, Typed, TypeOK, Fresh
  <2>2. Known'
    BY <2>e, <1>u DEF MgrInv, Known
  <2>3. Ending'
    BY <2>e, <2>s, <1>t DEF Ending
  <2>4. NoLostSandbox' /\ PausesHeld'
    BY <2>e DEF NoLostSandbox, PausesHeld
  <2>5. DeletedOnce'
    BY <2>e, <1>u DEF MgrInv, DeletedOnce
  <2>6. ExitKillsOnlyLate'
    <3> SUFFICES ASSUME NEW i \in Insts, vm'[i] = "killed"
                 PROVE  /\ i \notin victims
                        /\ \/ i \in instances
                           \/ \E r \in Reqs : req[r].pc = "track" /\ req[r].clone = i
                           \/ \E r \in Reqs : req[r].pc = "stop" /\ req[r].inst = i
      BY <2>e, <1>u DEF ExitKillsOnlyLate
    <3>1. vm[i] \in {"up", "paused"}
      BY <2>e DEF MgrInv, Ending
    <3> QED
      BY <3>1, <2>e, <2>s DEF MgrInv, NoLostSandbox
  <2> QED
    BY <2>1, <2>2, <2>3, <2>4, <2>5, <2>6 DEF MgrInv
<1> QED
  BY <1>1, <1>4, <1>5, <1>6 DEF Main

-----------------------------------------------------------------------------
(* The VMM's own steps *)

\* What a VMM does late for a caller that has left touches no request, and pauses
\* only for one whose pause failed. (driver.go Snapshot, client.go call)
LEMMA VmmKeeps == MgrInv => \A r \in Reqs : Vmm(r) => MgrInv'
<1> SUFFICES ASSUME MgrInv, NEW r \in Reqs, Vmm(r) PROVE MgrInv'
  OBVIOUS
<1> USE ConstantsAssumption
<1> DEFINE i == req[r].inst
           t == todo'[r]
<1>t. /\ TypeOK /\ (\A q \in Reqs : ReqOK(req[q]) /\ TodoOK(req[q], todo[q]))
      /\ vm \in [Insts -> {"none", "up", "paused", "stopped", "killed"}]
      /\ dirs \in [Dirs -> Snap] /\ todo \in [Reqs -> SUBSET Todos]
  BY DEF MgrInv, Typed, TypeOK
<1>u. UNCHANGED <<instances, origin, good, req, main, victims>>
  BY DEF Vmm, VmmWrites, LatePause, LateResume, VmmDrops
<1>d. todo[r] # {} /\ req[r].op \in {"Snapshot", "Fork"} /\ i \in Insts /\ req[r].dir \in Dirs
  BY <1>t DEF Vmm, VmmWrites, LatePause, LateResume, VmmDrops, TodoOK
<1>o. /\ todo' \in [Reqs -> SUBSET Todos] /\ t \subseteq todo[r]
      /\ \A q \in Reqs \ {r} : todo'[q] = todo[q]
  BY <1>t DEF Vmm, VmmWrites, LatePause, LateResume, VmmDrops
<1>f. dirs' \in [Dirs -> Snap]
  <2>1. ASSUME dirs' = [dirs EXCEPT ![req[r].dir].mem = i] PROVE dirs' \in [Dirs -> Snap]
    BY <2>1, <1>t, <1>d DEF Snap, InstOrNone
  <2>2. ASSUME dirs' = [dirs EXCEPT ![req[r].dir].config = i] PROVE dirs' \in [Dirs -> Snap]
    BY <2>2, <1>t, <1>d DEF Snap, InstOrNone
  <2> QED
    BY <2>1, <2>2, <1>t DEF Vmm, VmmWrites, LatePause, LateResume, VmmDrops
<1>v. /\ vm' \in [Insts -> {"none", "up", "paused", "stopped", "killed"}]
      /\ \A j \in Insts :
           \/ vm'[j] = vm[j]
           \/ /\ j = i /\ vm[j] \in {"up", "paused"} /\ vm'[j] \in {"up", "paused"}
              /\ vm'[j] = "paused" => "pause" \in todo[r]
  BY <1>t, <1>d DEF Vmm, VmmWrites, LatePause, LateResume, VmmDrops
<1>1. Typed'
  <2>1. TypeOK'
    BY <1>t, <1>u, <1>o, <1>f, <1>v DEF TypeOK
  <2>2. ASSUME NEW q \in Reqs PROVE (ReqOK(req[q]) /\ TodoOK(req[q], todo[q]))'
    <3>1. req'[q] = req[q] /\ todo'[q] \subseteq todo[q]
      BY <1>u, <1>o
    <3> QED
      BY <3>1, <1>t DEF TodoOK
  <2> QED
    BY <2>1, <2>2 DEF Typed
<1>2. Known' /\ Fresh' /\ Ending'
  BY <1>u, <1>v DEF MgrInv, Known, Fresh, Ending, Typed, TypeOK
<1>3. NoLostSandbox' /\ DeletedOnce' /\ ExitKillsOnlyLate'
  BY <1>u, <1>v DEF MgrInv, NoLostSandbox, DeletedOnce, ExitKillsOnlyLate
<1>4. PausesHeld'
  <2> SUFFICES ASSUME NEW j \in Insts, vm'[j] = "paused"
               PROVE  \E q \in Reqs : Holds(req[q], j)
    BY <1>u DEF PausesHeld
  <2>1. CASE vm[j] = "paused"
    BY <2>1 DEF MgrInv, PausesHeld
  <2>2. CASE vm[j] # "paused"
    BY <2>2, <1>v, <1>d, <1>t DEF Holds, TodoOK
  <2> QED
    BY <2>1, <2>2
<1> QED
  BY <1>1, <1>2, <1>3, <1>4 DEF MgrInv

-----------------------------------------------------------------------------
(* Every step keeps the invariant *)

\* A request arrives that takes nothing out of the map.
LEMMA AcceptKeeps ==
  ASSUME MgrInv, NEW r \in Reqs, NEW op \in Ops \ {"Delete", ""},
         NEW pc \in PCs, NEW i \in instances \cup {NoInst}, NEW d \in Dirs \cup {NoDir},
         Arrives(r), Accept(r, op, pc, i, d),
         \/ pc = "boot" /\ op = "Create"
         \/ pc = "clear" /\ op \in {"Snapshot", "Fork"} /\ i # NoInst /\ d # NoDir
         \/ pc = "link" /\ op = "Restore" /\ d # NoDir
         \/ pc = "stop" /\ op = "Kill" /\ i # NoInst,
         UNCHANGED <<instances, vm, origin, dirs, good, todo, main, victims>>
  PROVE  MgrInv'
<1>t. /\ TypeOK /\ instances \subseteq Insts /\ ReqOK(req[r]) /\ TodoOK(req[r], todo[r])
      /\ dirs \in [Dirs -> Snap] /\ origin \in [Insts -> Snap] /\ good \in SUBSET Dirs
  BY DEF MgrInv, Typed, TypeOK
<1>1. i \in InstOrNone
  BY <1>t DEF InstOrNone
<1>2. Accepted(r, op, pc, i, d)
  BY <1>t, <1>1, AcceptMoves
<1>3. /\ req[r].pc = "new" /\ req[r].clone = NoInst /\ req[r].op = "" /\ req[r].errs = {}
      /\ todo'[r] = {}
  BY <1>t DEF Arrives, ReqOK, TodoOK
<1>4. ReqOK(req'[r]) /\ TodoOK(req'[r], todo'[r])
  BY <1>2, <1>3, <1>t DEF Accepted, ReqOK, TodoOK
<1>5. Quiet(r)
  BY <1>2, <1>3, <1>4 DEF Quiet, Accepted, Holds
<1> QED
  BY <1>t, <1>5, QuietKeeps

\* A request goes on without touching a VM.
LEMMA GotoKeeps ==
  ASSUME MgrInv, NEW r \in Reqs, NEW pc \in PCs, Goto(r, pc),
         \/ pc = "pause" /\ req[r].pc = "clear"
         \/ pc = "wait" /\ req[r].pc = "write" /\ todo' = [todo EXCEPT ![r] = {"mem", "config"}]
         \/ pc = "resume" /\ req[r].pc = "wait" /\ UNCHANGED todo,
         pc # "wait" => UNCHANGED todo,
         dirs' \in [Dirs -> Snap], good' \in SUBSET Dirs,
         UNCHANGED <<instances, vm, origin, main, victims>>
  PROVE  MgrInv'
<1>t. /\ TypeOK /\ ReqOK(req[r]) /\ TodoOK(req[r], todo[r]) /\ req[r] \in Request
      /\ origin \in [Insts -> Snap] /\ req \in [Reqs -> Request]
      /\ todo \in [Reqs -> SUBSET Todos]
  BY DEF MgrInv, Typed, TypeOK
<1> DEFINE n == [req[r] EXCEPT !.pc = pc]
<1>1. n \in Request /\ req' = [req EXCEPT ![r] = n]
  BY <1>t DEF Request, Goto
<1>2. /\ n.pc = pc /\ n.op = req[r].op /\ n.inst = req[r].inst
      /\ n.dir = req[r].dir /\ n.clone = req[r].clone /\ n.errs = req[r].errs
  BY <1>t DEF Request
<1> HIDE DEF n
<1>3. {"mem", "config"} \subseteq Todos
  BY DEF Todos
<1>4. \/ UNCHANGED todo
      \/ /\ todo' \in [Reqs -> SUBSET Todos]
         /\ \A q \in Reqs \ {r} : todo'[q] = todo[q]
  BY <1>3, <1>t
<1>5. OnlyMoves(r) /\ req'[r] = n
  BY <1>1, <1>4, <1>t, MovesTo
<1>6. /\ pc = "wait" => todo'[r] = {"mem", "config"}
      /\ pc # "wait" => todo'[r] = todo[r]
  BY <1>t
<1>7. ReqOK(n) /\ TodoOK(n, todo'[r]) /\ req[r].op \in {"Snapshot", "Fork"}
  BY <1>2, <1>6, <1>t DEF ReqOK, TodoOK
<1>8. \A i \in Insts : Holds(req[r], i) => Holds(n, i)
  BY <1>2 DEF Holds
<1>9. Quiet(r)
  BY <1>2, <1>5, <1>7, <1>8 DEF Quiet
<1> QED
  BY <1>t, <1>9, QuietKeeps

\* A request fails that answers for no VM.
LEMMA FailsKeeps ==
  ASSUME MgrInv, NEW r \in Reqs, Fails(r), UNCHANGED todo,
         req[r].pc \in {"new", "boot", "clear", "link", "config", "restore"},
         dirs' \in [Dirs -> Snap], good' \in SUBSET Dirs,
         UNCHANGED <<instances, vm, origin, main, victims>>
  PROVE  MgrInv'
<1>t. /\ TypeOK /\ ReqOK(req[r]) /\ TodoOK(req[r], todo[r])
      /\ origin \in [Insts -> Snap]
  BY DEF MgrInv, Typed, TypeOK
<1>1. /\ OnlyMoves(r)
      /\ req'[r].pc = "failed" /\ req'[r].op = "" /\ req'[r].inst = NoInst
      /\ req'[r].clone = NoInst
  BY <1>t, FailsMoves
<1>2. todo'[r] = {} /\ req[r].errs = {}
  BY <1>t DEF TodoOK, ReqOK
<1>3. ReqOK(req'[r]) /\ TodoOK(req'[r], todo'[r])
  BY <1>1, <1>2 DEF ReqOK, TodoOK
<1>4. \A i \in Insts : ~Holds(req[r], i)
  BY <1>2 DEF Holds
<1>5. Quiet(r)
  BY <1>1, <1>3, <1>4 DEF Quiet
<1> QED
  BY <1>t, <1>5, QuietKeeps

\* A call of Instance.Snapshot fails: the handler goes on to its resume, or it ends
\* and still answers for the VM. (driver.go:320-331)
LEMMA ErrsKeeps ==
  ASSUME MgrInv, NEW r \in Reqs, NEW pc \in {"resume", "failed"},
         NEW e \in SUBSET {"pause", "snapshot", "resume"}, NEW left \in BOOLEAN,
         req' = [req EXCEPT ![r].errs = e, ![r].pc = pc, ![r].gone = left],
         todo' \in [Reqs -> SUBSET Todos], \A q \in Reqs \ {r} : todo'[q] = todo[q],
         \/ /\ pc = "resume" /\ e = {"snapshot"}
            /\ req[r].pc \in {"write", "wait"} /\ todo'[r] \subseteq todo[r]
         \/ /\ pc = "failed" /\ "pause" \in e
            /\ req[r].pc = "pause" /\ todo'[r] \subseteq {"pause"}
         \/ /\ pc = "failed" /\ "resume" \in e
            /\ req[r].pc = "resume" /\ todo'[r] \subseteq todo[r] \cup {"resume"},
         UNCHANGED <<instances, vm, origin, dirs, good, main, victims>>
  PROVE  MgrInv'
<1>t. /\ TypeOK /\ ReqOK(req[r]) /\ TodoOK(req[r], todo[r]) /\ req[r] \in Request
      /\ origin \in [Insts -> Snap] /\ req \in [Reqs -> Request]
      /\ dirs \in [Dirs -> Snap] /\ good \in SUBSET Dirs
  BY DEF MgrInv, Typed, TypeOK
<1> DEFINE n == [req[r] EXCEPT !.errs = e, !.pc = pc, !.gone = left]
<1>1. n \in Request /\ req' = [req EXCEPT ![r] = n]
  BY <1>t DEF Request, PCs
<1>2. /\ n.pc = pc /\ n.op = req[r].op /\ n.inst = req[r].inst
      /\ n.dir = req[r].dir /\ n.clone = req[r].clone /\ n.errs = e
  BY <1>t DEF Request
<1> HIDE DEF n
<1>3. OnlyMoves(r) /\ req'[r] = n
  BY <1>1, <1>t, MovesTo
<1>4. /\ req[r].pc \in {"pause", "write", "wait", "resume"}
      /\ req[r].op \in {"Snapshot", "Fork"} /\ req[r].inst \in Insts /\ req[r].dir \in Dirs
  BY <1>t DEF ReqOK
<1>5. ReqOK(n)
  BY <1>2, <1>4 DEF ReqOK
<1>6. TodoOK(n, todo'[r])
  BY <1>2, <1>4, <1>t DEF TodoOK
<1>7. \A i \in Insts : Holds(req[r], i) => Holds(n, i)
  BY <1>2 DEF Holds
<1>8. Quiet(r)
  BY <1>2, <1>3, <1>4, <1>5, <1>6, <1>7 DEF Quiet
<1> QED
  BY <1>t, <1>8, QuietKeeps

\* A request arrives, and only a Delete that finds its instance takes anything.
\* (sandbox.go, server.go)
LEMMA CallKeeps == MgrInv => \A r \in Reqs : Call(r) => MgrInv'
<1> SUFFICES ASSUME MgrInv, NEW r \in Reqs, Call(r) PROVE MgrInv'
  OBVIOUS
<1> USE ConstantsAssumption
<1>t. /\ TypeOK /\ instances \subseteq Insts /\ dirs \in [Dirs -> Snap] /\ good \in SUBSET Dirs
  BY DEF MgrInv, Typed, TypeOK
<1>p. /\ {"boot", "link", "stop", "clear", "failed"} \subseteq PCs
      /\ {"Create", "Restore", "Snapshot", "Fork", "Kill"} \subseteq Ops \ {"Delete", ""}
      /\ NoInst \in instances \cup {NoInst} /\ NoDir \in Dirs \cup {NoDir}
  BY DEF PCs, Ops
<1>f. ASSUME Arrives(r), Fails(r), UNCHANGED <<instances, vm, origin, dirs, good, todo, main, victims>>
      PROVE  MgrInv'
  BY <1>f, <1>t, FailsKeeps DEF Arrives
<1>1. CASE Create(r)
  BY <1>1, <1>p, AcceptKeeps DEF Create
<1>2. ASSUME NEW d \in Dirs, RestoreFrom(r, d) PROVE MgrInv'
  BY <1>2, <1>p, AcceptKeeps DEF RestoreFrom
<1>3. ASSUME NEW i \in Insts, Delete(r, i) PROVE MgrInv'
  <2>1. CASE i \in instances
    BY <1>3, <2>1, DeleteKeeps DEF Delete
  <2>2. CASE i \notin instances
    BY <1>3, <2>2, <1>f DEF Delete
  <2> QED
    BY <2>1, <2>2
<1>4. ASSUME NEW i \in Insts, Kill(r, i) PROVE MgrInv'
  <2>1. CASE i \in instances
    BY <1>4, <2>1, <1>p, AcceptKeeps DEF Kill, Lookup
  <2>2. CASE i \notin instances
    BY <1>4, <2>2, <1>f DEF Kill, Lookup
  <2> QED
    BY <2>1, <2>2
<1>5. ASSUME NEW i \in Insts, NEW d \in Dirs, NEW op \in {"Snapshot", "Fork"},
             Lookup(r, op, "clear", i, d)
      PROVE  MgrInv'
  <2>1. CASE i \in instances
    BY <1>5, <2>1, <1>p, AcceptKeeps DEF Lookup
  <2>2. CASE i \notin instances
    BY <1>5, <2>2, <1>f DEF Lookup
  <2> QED
    BY <2>1, <2>2
<1> QED
  BY <1>1, <1>2, <1>3, <1>4, <1>5 DEF Call, ResolveAndCreate, Snapshot, Fork

\* A request goes on. (sandbox.go, driver.go)
LEMMA ContinueKeeps == MgrInv => \A r \in Reqs : Continue(r) => MgrInv'
<1> SUFFICES ASSUME MgrInv, NEW r \in Reqs, Continue(r) PROVE MgrInv'
  OBVIOUS
<1> USE ConstantsAssumption
<1>t. /\ TypeOK /\ ReqOK(req[r]) /\ TodoOK(req[r], todo[r]) /\ req[r] \in Request
      /\ dirs \in [Dirs -> Snap] /\ origin \in [Insts -> Snap] /\ good \in SUBSET Dirs
      /\ req \in [Reqs -> Request] /\ todo \in [Reqs -> SUBSET Todos]
  BY DEF MgrInv, Typed, TypeOK
<1>p. {"failed", "pause", "write", "wait", "resume", "track", "config", "restore", "ok", "link"} \subseteq PCs
  BY DEF PCs
<1>s. /\ NoSnap \in Snap
      /\ \A i \in Insts : [mem |-> i, config |-> i] \in Snap
  BY DEF NoSnap, Snap, InstOrNone
<1>f. ASSUME Fails(r), req[r].pc \in {"boot", "restore", "link", "config"},
             UNCHANGED <<instances, vm, origin, dirs, good, todo, main, victims>>
      PROVE  MgrInv'
  BY <1>f, <1>t, FailsKeeps
\* A request that goes on towards a clone, which changes only its view of a snapshot.
<1>c. ASSUME NEW n \in Request, req' = [req EXCEPT ![r] = n],
             ReqOK(n), req[r].pc \in {"link", "config"}, n.pc \in {"config", "restore"},
             n.op = req[r].op, n.inst = req[r].inst, n.clone = req[r].clone,
             UNCHANGED <<instances, vm, origin, dirs, good, todo, main, victims>>
      PROVE  MgrInv'
  <2>1. OnlyMoves(r) /\ req'[r] = n
    BY <1>c, <1>t, MovesTo
  <2>2. TodoOK(n, todo'[r]) /\ n.op # "Delete" /\ req[r].errs = {}
    BY <1>c, <1>t DEF TodoOK, ReqOK
  <2>3. \A i \in Insts : ~Holds(req[r], i)
    BY <1>c, <2>2 DEF Holds
  <2>4. Quiet(r)
    BY <1>c, <2>1, <2>2, <2>3 DEF Quiet
  <2> QED
    BY <1>c, <2>4, <1>t, QuietKeeps
<1>1. CASE Boot(r)
  <2>1. CASE Fails(r) /\ UNCHANGED vm
    BY <1>1, <2>1, <1>f DEF Boot, At
  <2>2. ASSUME NEW i \in Insts, vm[i] = "none", vm' = [vm EXCEPT ![i] = "up"],
               req' = [req EXCEPT ![r].pc = "track", ![r].clone = i]
        PROVE  MgrInv'
    <3> DEFINE n == [req[r] EXCEPT !.pc = "track", !.clone = i]
    <3>1. n \in Request /\ req' = [req EXCEPT ![r] = n]
      BY <2>2, <1>t, <1>p DEF Request, InstOrNone
    <3>2. /\ n.pc = "track" /\ n.clone = i /\ n.inst = req[r].inst /\ n.op = req[r].op
          /\ n.errs = req[r].errs
      BY <1>t DEF Request
    <3>3. ReqOK(n)
      BY <3>2, <1>1, <1>t DEF Boot, At, ReqOK
    <3> HIDE DEF n
    <3>4. OnlyMoves(r) /\ req'[r] = n
      BY <1>1, <3>1, <1>t, MovesTo DEF Boot
    <3>5. Born(r, i)
      BY <1>1, <2>2, <3>2, <3>3, <3>4 DEF Born, Boot, At
    <3> QED
      BY <1>1, <3>5, <1>t, BornKeeps DEF Boot
  <2> QED
    BY <1>1, <2>1, <2>2 DEF Boot
<1>2. CASE Track(r)
  BY <1>2, TrackKeeps
<1>3. CASE ClearDir(r)
  <2> DEFINE d == req[r].dir
  <2>0. /\ d \in Dirs /\ req[r].pc = "clear" /\ good' \in SUBSET Dirs
        /\ UNCHANGED <<instances, vm, origin, todo, main, victims>>
    BY <1>3, <1>t DEF ClearDir, At, ReqOK
  <2>1. CASE dirs' = [dirs EXCEPT ![d] = NoSnap] /\ Goto(r, "pause")
    <3>1. dirs' \in [Dirs -> Snap]
      BY <2>1, <1>t, <1>s
    <3> QED
      BY <2>0, <2>1, <3>1, <1>p, GotoKeeps
  <2>2. ASSUME NEW m \in {NoInst, dirs[d].mem}, NEW c \in {NoInst, dirs[d].config},
               dirs' = [dirs EXCEPT ![d] = [mem |-> m, config |-> c]], Fails(r)
        PROVE  MgrInv'
    <3>1. [mem |-> m, config |-> c] \in Snap
      BY <2>0, <1>t DEF Snap, InstOrNone
    <3>2. dirs' \in [Dirs -> Snap]
      BY <2>2, <3>1, <1>t
    <3> QED
      BY <2>0, <2>2, <3>2, FailsKeeps
  <2> QED
    BY <1>3, <2>1, <2>2 DEF ClearDir
<1>4. CASE PauseVM(r)
  <2>0. /\ req[r].pc = "pause" /\ req[r].errs = {} /\ todo[r] = {}
        /\ UNCHANGED <<instances, origin, dirs, good, main, victims>>
        /\ req[r].op \in {"Snapshot", "Fork"} /\ req[r].inst \in Insts
    BY <1>4, <1>t DEF PauseVM, At, ReqOK, TodoOK
  <2>1. CASE CallEnds(r, "pause") /\ MayLeave(r, "pause") /\ UNCHANGED vm
    <3>1. req' = [req EXCEPT ![r].errs = {"pause"}, ![r].pc = "failed", ![r].gone = FALSE]
      BY <2>0, <2>1, <1>t DEF CallEnds
    <3>2. /\ todo' \in [Reqs -> SUBSET Todos] /\ todo'[r] \subseteq {"pause"}
          /\ \A q \in Reqs \ {r} : todo'[q] = todo[q]
      BY <2>0, <2>1, <1>t DEF MayLeave, Todos
    <3> QED
      BY <2>0, <2>1, <3>1, <3>2, ErrsKeeps
  <2>2. CASE /\ vm[req[r].inst] = "up" /\ vm' = [vm EXCEPT ![req[r].inst] = "paused"]
             /\ Goto(r, "write") /\ UNCHANGED todo
    <3>1. OnlyMoves(r) /\ req'[r] = [req[r] EXCEPT !.pc = "write"]
      BY <2>2, <1>t, <1>p, GotoMoves
    <3>2. /\ req'[r].pc = "write" /\ req'[r].op = req[r].op /\ req'[r].inst = req[r].inst
          /\ req'[r].dir = req[r].dir /\ req'[r].clone = req[r].clone
          /\ req'[r].errs = req[r].errs
      BY <3>1, <1>t DEF Request
    <3>3. ReqOK(req'[r]) /\ TodoOK(req'[r], todo[r]) /\ Holds(req'[r], req[r].inst)
      BY <2>0, <3>2, <1>t DEF ReqOK, TodoOK, Holds
    <3>4. Toggled(r, "paused")
      BY <2>0, <2>2, <3>1, <3>2, <3>3, <1>t DEF Toggled
    <3> QED
      BY <3>4, ToggledKeeps
  <2> QED
    BY <1>4, <2>1, <2>2 DEF PauseVM
<1>5. CASE SnapshotVM(r)
  <2>0. /\ req[r].pc = "write" /\ req[r].errs = {} /\ req[r].gone \in BOOLEAN
        /\ UNCHANGED <<instances, vm, origin, dirs, good, main, victims>>
    BY <1>5, <1>t DEF SnapshotVM, At, ReqOK, Request
  <2>1. CASE Goto(r, "wait") /\ todo' = [todo EXCEPT ![r] = {"mem", "config"}]
    BY <2>0, <2>1, <1>t, <1>p, GotoKeeps
  <2>2. CASE CallFails(r, "snapshot") /\ UNCHANGED todo
    <3>1. req' = [req EXCEPT ![r].errs = {"snapshot"}, ![r].pc = "resume", ![r].gone = req[r].gone]
      BY <2>0, <2>2, <1>t DEF CallFails, Request
    <3> QED
      BY <2>0, <2>2, <3>1, <1>t, ErrsKeeps
  <2> QED
    BY <1>5, <2>1, <2>2 DEF SnapshotVM
<1>11. CASE SnapshotReturns(r)
  <2>0. /\ req[r].pc = "wait" /\ req[r].errs = {} /\ req[r].gone \in BOOLEAN
        /\ UNCHANGED <<instances, vm, origin, dirs, good, main, victims>>
    BY <1>11, <1>t DEF SnapshotReturns, At, ReqOK, Request
  <2>1. CASE Goto(r, "resume") /\ UNCHANGED todo
    BY <2>0, <2>1, <1>t, <1>p, GotoKeeps
  <2>2. CASE CallFails(r, "snapshot") /\ (UNCHANGED todo \/ todo' = [todo EXCEPT ![r] = {}])
    <3>1. req' = [req EXCEPT ![r].errs = {"snapshot"}, ![r].pc = "resume", ![r].gone = req[r].gone]
      BY <2>0, <2>2, <1>t DEF CallFails, Request
    <3>2. /\ todo' \in [Reqs -> SUBSET Todos] /\ todo'[r] \subseteq todo[r]
          /\ \A q \in Reqs \ {r} : todo'[q] = todo[q]
      BY <2>2, <1>t
    <3> QED
      BY <2>0, <2>2, <3>1, <3>2, ErrsKeeps
  <2> QED
    BY <1>11, <2>1, <2>2 DEF SnapshotReturns
<1>6. CASE ResumeVM(r)
  <2>0. /\ req[r].pc = "resume" /\ req[r].op \in {"Snapshot", "Fork"} /\ req[r].inst \in Insts
        /\ req[r].dir \in Dirs /\ req[r].errs \subseteq {"snapshot"}
        /\ UNCHANGED <<instances, origin, dirs, main, victims>>
    BY <1>6, <1>t DEF ResumeVM, At, ReqOK
  <2>1. CASE CallEnds(r, "resume") /\ MayLeave(r, "resume") /\ UNCHANGED <<vm, good>>
    <3>1. req' = [req EXCEPT ![r].errs = req[r].errs \cup {"resume"}, ![r].pc = "failed",
                             ![r].gone = FALSE]
      BY <2>1, <1>t DEF CallEnds
    <3>2. /\ todo' \in [Reqs -> SUBSET Todos] /\ todo'[r] \subseteq todo[r] \cup {"resume"}
          /\ \A q \in Reqs \ {r} : todo'[q] = todo[q]
      BY <2>1, <1>t DEF MayLeave, Todos
    <3>3. req[r].errs \cup {"resume"} \in SUBSET {"pause", "snapshot", "resume"}
      BY <2>0
    <3> QED
      BY <2>0, <2>1, <3>1, <3>2, <3>3, ErrsKeeps
  <2>2. CASE /\ vm[req[r].inst] = "paused" /\ ~Writing(req[r].inst)
             /\ vm' = [vm EXCEPT ![req[r].inst] = "up"]
             /\ UNCHANGED todo
             /\ IF req[r].errs = {}
                THEN /\ Goto(r, IF req[r].op = "Fork" THEN "link" ELSE "ok")
                     /\ good' = good \cup {req[r].dir}
                ELSE Fails(r) /\ UNCHANGED good
    <3>0. todo[r] = {} /\ good' \in SUBSET Dirs
      BY <2>0, <2>2, <1>t DEF Writing, TodoOK, Todos
    <3>1. CASE req[r].errs # {}
      <4>1. /\ OnlyMoves(r)
            /\ req'[r].pc = "failed" /\ req'[r].op = "" /\ req'[r].inst = NoInst
            /\ req'[r].clone = NoInst /\ req'[r].errs = {}
        BY <2>2, <3>1, <1>t, FailsMoves
      <4>2. ReqOK(req'[r]) /\ TodoOK(req'[r], todo[r])
        BY <3>0, <4>1 DEF ReqOK, TodoOK
      <4>3. Toggled(r, "up")
        BY <2>0, <2>2, <3>0, <4>1, <4>2 DEF Toggled
      <4> QED
        BY <4>3, ToggledKeeps
    <3>2. CASE req[r].errs = {}
      <4> DEFINE pc == IF req[r].op = "Fork" THEN "link" ELSE "ok"
      <4>1. pc \in PCs /\ Goto(r, pc)
        BY <2>2, <3>2, <1>p
      <4>2. OnlyMoves(r) /\ req'[r] = [req[r] EXCEPT !.pc = pc]
        BY <2>2, <4>1, <1>t, GotoMoves
      <4>3. /\ req'[r].pc = pc /\ req'[r].op = req[r].op /\ req'[r].inst = req[r].inst
            /\ req'[r].dir = req[r].dir /\ req'[r].clone = req[r].clone
            /\ req'[r].errs = req[r].errs
        BY <4>2, <1>t DEF Request
      <4>4. ReqOK(req'[r]) /\ TodoOK(req'[r], todo[r])
        BY <2>0, <3>0, <3>2, <4>3, <1>t DEF ReqOK, TodoOK
      <4>5. Toggled(r, "up")
        BY <2>0, <2>2, <3>0, <4>2, <4>3, <4>4 DEF Toggled
      <4> QED
        BY <4>5, ToggledKeeps
    <3> QED
      BY <3>1, <3>2
  <2> QED
    BY <1>6, <2>1, <2>2 DEF ResumeVM
<1>7. CASE LinkFiles(r)
  <2> DEFINE m == dirs[req[r].dir].mem
             n == [req[r] EXCEPT !.pc = "config", !.snap.mem = m]
  <2>0. req[r].dir \in Dirs /\ m \in InstOrNone /\ req[r].pc = "link"
    BY <1>7, <1>t DEF LinkFiles, At, ReqOK, Snap
  <2>1. CASE Fails(r)
    BY <1>7, <2>0, <2>1, <1>f DEF LinkFiles
  <2>2. CASE req' = [req EXCEPT ![r].pc = "config", ![r].snap.mem = m]
    <3>1. n \in Request /\ req' = [req EXCEPT ![r] = n]
      BY <2>0, <2>2, <1>t, <1>p DEF Request, Snap
    <3>2. /\ n.pc = "config" /\ n.op = req[r].op /\ n.inst = req[r].inst /\ n.dir = req[r].dir
          /\ n.clone = req[r].clone /\ n.errs = req[r].errs
      BY <1>t DEF Request
    <3>3. ReqOK(n)
      BY <2>0, <3>2, <1>t DEF ReqOK
    <3> HIDE DEF n
    <3> QED
      BY <1>7, <2>0, <3>1, <3>2, <3>3, <1>c DEF LinkFiles
  <2> QED
    BY <1>7, <2>1, <2>2 DEF LinkFiles
<1>8. CASE ReadConfig(r)
  <2> DEFINE c == dirs[req[r].dir].config
             n == [req[r] EXCEPT !.pc = "restore", !.snap.config = c]
  <2>0. req[r].dir \in Dirs /\ c \in InstOrNone /\ req[r].pc = "config"
    BY <1>8, <1>t DEF ReadConfig, At, ReqOK, Snap
  <2>1. CASE Fails(r)
    BY <1>8, <2>0, <2>1, <1>f DEF ReadConfig
  <2>2. CASE req' = [req EXCEPT ![r].pc = "restore", ![r].snap.config = c]
    <3>1. n \in Request /\ req' = [req EXCEPT ![r] = n]
      BY <2>0, <2>2, <1>t, <1>p DEF Request, Snap
    <3>2. /\ n.pc = "restore" /\ n.op = req[r].op /\ n.inst = req[r].inst /\ n.dir = req[r].dir
          /\ n.clone = req[r].clone /\ n.errs = req[r].errs
      BY <1>t DEF Request
    <3>3. ReqOK(n)
      BY <2>0, <3>2, <1>t DEF ReqOK
    <3> HIDE DEF n
    <3> QED
      BY <1>8, <2>0, <3>1, <3>2, <3>3, <1>c DEF ReadConfig
  <2> QED
    BY <1>8, <2>1, <2>2 DEF ReadConfig
<1>9. CASE RestoreVM(r)
  <2>1. CASE Fails(r) /\ UNCHANGED <<vm, origin>>
    BY <1>9, <2>1, <1>f DEF RestoreVM, At
  <2>2. ASSUME NEW i \in Insts, vm[i] = "none", vm' = [vm EXCEPT ![i] = "up"],
               origin' = [origin EXCEPT ![i] = req[r].snap],
               req' = [req EXCEPT ![r].pc = "track", ![r].clone = i, ![r].snap = NoSnap]
        PROVE  MgrInv'
    <3> DEFINE n == [req[r] EXCEPT !.pc = "track", !.clone = i, !.snap = NoSnap]
    <3>1. n \in Request /\ req' = [req EXCEPT ![r] = n]
      BY <2>2, <1>t, <1>p, <1>s DEF Request, InstOrNone
    <3>2. /\ n.pc = "track" /\ n.clone = i /\ n.inst = req[r].inst /\ n.op = req[r].op
          /\ n.errs = req[r].errs
      BY <1>t DEF Request
    <3>3. ReqOK(n)
      BY <3>2, <1>9, <1>t DEF RestoreVM, At, ReqOK
    <3> HIDE DEF n
    <3>4. OnlyMoves(r) /\ req'[r] = n
      BY <1>9, <3>1, <1>t, MovesTo DEF RestoreVM
    <3>5. Born(r, i)
      BY <1>9, <2>2, <3>2, <3>3, <3>4 DEF Born, RestoreVM, At
    <3>6. origin' \in [Insts -> Snap]
      BY <2>2, <1>t DEF Request
    <3> QED
      BY <1>9, <3>5, <3>6, BornKeeps DEF RestoreVM
  <2> QED
    BY <1>9, <2>1, <2>2 DEF RestoreVM
<1>10. CASE StopInstance(r)
  BY <1>10, StopKeeps
<1> QED
  BY <1>1, <1>2, <1>3, <1>4, <1>5, <1>6, <1>7, <1>8, <1>9, <1>10, <1>11 DEF Continue

\* A client leaves, which nothing waits for. (server.go, r.Context())
LEMMA LeaveKeeps == MgrInv => \A r \in Reqs : ClientLeaves(r) => MgrInv'
<1> SUFFICES ASSUME MgrInv, NEW r \in Reqs, ClientLeaves(r) PROVE MgrInv'
  OBVIOUS
<1>t. /\ TypeOK /\ ReqOK(req[r]) /\ TodoOK(req[r], todo[r])
      /\ req[r] \in Request /\ req \in [Reqs -> Request]
      /\ good \in SUBSET Dirs /\ todo \in [Reqs -> SUBSET Todos]
      /\ dirs \in [Dirs -> Snap] /\ origin \in [Insts -> Snap]
  BY DEF MgrInv, Typed, TypeOK
<1> DEFINE n == [req[r] EXCEPT !.gone = TRUE]
<1>1. n \in Request /\ req' = [req EXCEPT ![r] = n]
  BY <1>t DEF ClientLeaves, Request
<1>2. /\ n.pc = req[r].pc /\ n.op = req[r].op /\ n.inst = req[r].inst /\ n.dir = req[r].dir
      /\ n.clone = req[r].clone /\ n.errs = req[r].errs
  BY <1>t DEF Request
<1>3. req[r].pc \in {"pause", "write", "wait", "resume"} /\ UNCHANGED todo
  BY DEF ClientLeaves
<1>4. ReqOK(n) /\ TodoOK(n, todo'[r]) /\ n.op # "Delete"
  BY <1>2, <1>3, <1>t DEF ReqOK, TodoOK
<1> HIDE DEF n
<1>5. OnlyMoves(r) /\ req'[r] = n
  BY <1>1, <1>3, <1>t, MovesTo
<1>6. Quiet(r)
  BY <1>2, <1>3, <1>4, <1>5 DEF Quiet, ClientLeaves, Holds
<1> QED
  BY <1>6, <1>t, QuietKeeps DEF ClientLeaves

\* Nothing runs and nobody asks at first. (sandbox.go NewManager)
LEMMA MgrStarts == Init => MgrInv
<1> SUFFICES ASSUME Init PROVE MgrInv
  OBVIOUS
<1> USE ConstantsAssumption
<1>1. NoSnap \in Snap
  BY DEF NoSnap, Snap, InstOrNone
<1>2. NewReq \in Request
  BY <1>1 DEF NewReq, Request, PCs, Ops, InstOrNone
<1>3. /\ NewReq.pc = "new" /\ NewReq.op = "" /\ NewReq.inst = NoInst /\ NewReq.clone = NoInst
      /\ NewReq.errs = {}
  BY DEF NewReq
<1>4. TypeOK
  BY <1>1, <1>2 DEF Init, TypeOK
<1>5. ReqOK(NewReq) /\ TodoOK(NewReq, {})
  BY DEF NewReq, ReqOK, TodoOK
<1>6. \A r \in Reqs : req[r] = NewReq /\ todo[r] = {}
  BY DEF Init
<1>7. Typed /\ Known /\ Fresh /\ Ending
  BY <1>3, <1>4, <1>5, <1>6 DEF Init, Typed, Known, Fresh, Ending
<1>8. NoLostSandbox /\ DeletedOnce /\ ExitKillsOnlyLate /\ PausesHeld
  BY <1>3, <1>6 DEF Init, NoLostSandbox, DeletedOnce, ExitKillsOnlyLate, PausesHeld
<1> QED
  BY <1>7, <1>8 DEF MgrInv

\* No step of the daemon breaks the manager's invariant.
LEMMA MgrStep == MgrInv /\ [Next]_vars => MgrInv'
<1> SUFFICES ASSUME MgrInv, [Next]_vars PROVE MgrInv'
  OBVIOUS
<1>1. CASE UNCHANGED vars
  BY <1>1 DEF vars, MgrInv, Typed, TypeOK, Known, Fresh, Ending, NoLostSandbox, DeletedOnce,
              ExitKillsOnlyLate, PausesHeld
<1> QED
  BY <1>1, CallKeeps, ContinueKeeps, LeaveKeeps, VmmKeeps, MainKeeps DEF Next

\* The manager's invariant holds. (sandbox.go, driver.go, main.go)
LEMMA MgrAlways == Spec => []MgrInv
BY MgrStarts, MgrStep, PTL DEF Spec

-----------------------------------------------------------------------------
\* Every variable of the manager and its requests keeps its type. (sandbox.go)
THEOREM TypeCorrect == Spec => []TypeOK
<1>1. MgrInv => TypeOK
  BY DEF MgrInv, Typed
<1> QED
  BY <1>1, MgrAlways, PTL

\* Whatever runs is in the map, or a request or Shutdown has it in hand.
\* (sandbox.go track, Delete, Shutdown)
THEOREM NothingLost == Spec => []NoLostSandbox
<1>1. MgrInv => NoLostSandbox
  BY DEF MgrInv
<1> QED
  BY <1>1, MgrAlways, PTL

\* Of the Deletes of one sandbox at most one succeeds. (sandbox.go:152-165)
THEOREM DeletesOnce == Spec => []DeletedOnce
<1>1. MgrInv => DeletedOnce
  BY DEF MgrInv
<1> QED
  BY <1>1, MgrAlways, PTL

\* The kernel has to kill only what Shutdown could not know of.
\* (sandbox.go Shutdown, main.go:142-163)
THEOREM OnlyLateKilled == Spec => []ExitKillsOnlyLate
<1>1. MgrInv => ExitKillsOnlyLate
  BY DEF MgrInv
<1> QED
  BY <1>1, MgrAlways, PTL

\* A paused VM is in the hands of the snapshot that paused it, or that snapshot's own
\* pause or resume returned an error. (driver.go:313-332)
THEOREM PausesOwned == Spec => []PausedOnlyInSnapshot
<1>1. MgrInv => PausedOnlyInSnapshot
  BY DEF MgrInv, PausesHeld, Holds, PausedOnlyInSnapshot, Snaps
<1> QED
  BY <1>1, MgrAlways, PTL

-----------------------------------------------------------------------------
(* Clones, when clients do not replace a snapshot that is in use *)

\* A snapshot or fork at work shares its directory with no other request.
Exclusive ==
  \A r, q \in Reqs :
    /\ Running(r) /\ Running(q)
    /\ req[r].dir = req[q].dir /\ req[r].dir \in Dirs
    /\ Snaps(r)
    => r = q

\* Both parts of the snapshot in d are of VM i.
Whole(d, i) == dirs[d].mem = i /\ dirs[d].config = i

GoodWhole == \A d \in good : \E i \in Insts : Whole(d, i)

\* What a request knows of its directory: from its own snapshot on, that it is whole;
\* a restore, that it was, and that the memory it linked is the memory there.
HeldOK(q, t) ==
  /\ q.pc = "wait" => /\ "mem" \notin t => dirs[q.dir].mem = q.inst
                      /\ "config" \notin t => dirs[q.dir].config = q.inst
  /\ q.pc = "resume" /\ q.errs = {} => Whole(q.dir, q.inst)
  /\ q.pc \in {"link", "config"} /\ q.op = "Fork" => Whole(q.dir, q.inst)
  /\ q.pc \in {"link", "config"} /\ q.op = "Restore" => q.dir \in good
  /\ q.pc = "config" => q.snap.mem = dirs[q.dir].mem
  /\ q.pc = "restore" => /\ q.snap.config = q.snap.mem
                         /\ q.op = "Fork" => q.snap.mem = q.inst

\* CloneFidelity, for one request.
Faithful(q) ==
  q.pc \in {"track", "ok"} /\ q.op \in {"Fork", "Restore"} =>
    /\ origin[q.clone].mem = origin[q.clone].config
    /\ q.op = "Fork" => origin[q.clone].mem = q.inst

CloneInv ==
  /\ Exclusive
  /\ GoodWhole
  /\ \A r \in Reqs : HeldOK(req[r], todo[r]) /\ Faithful(req[r])

\* A step of one request that writes only a directory it has to itself.
LEMMA CloneMoves ==
  ASSUME MgrInv, CloneInv, NEW r \in Reqs, OnlyMoves(r),
         Running(r)' => \/ /\ Running(r) /\ req'[r].dir = req[r].dir /\ req'[r].op = req[r].op
                        \/ req'[r].dir \notin Dirs
                        \/ \A q \in Reqs : req[q].dir = req'[r].dir => ~Running(q)
                        \/ /\ req'[r].op = "Restore"
                           /\ \A q \in Reqs : req[q].dir = req'[r].dir /\ Snaps(q) => ~Running(q),
         \A d \in Dirs : \/ dirs'[d] = dirs[d] /\ (d \in good => d \in good')
                         \/ Running(r) /\ Snaps(r) /\ d = req[r].dir,
         \A i \in Insts : vm[i] # "none" => origin'[i] = origin[i],
         GoodWhole', HeldOK(req[r], todo[r])', Faithful(req[r])'
  PROVE  CloneInv'
<1>q. \A q \in Reqs \ {r} : req'[q] = req[q] /\ todo'[q] = todo[q]
  BY DEF OnlyMoves
<1>t. TypeOK /\ \A q \in Reqs : ReqOK(req[q])
  BY DEF MgrInv, Typed
<1>e. Exclusive /\ \A q \in Reqs : HeldOK(req[q], todo[q]) /\ Faithful(req[q])
  BY DEF CloneInv
<1>1. Exclusive'
  <2> SUFFICES ASSUME NEW p \in Reqs, NEW q \in Reqs, p # q,
                      Running(p)', Running(q)', req'[p].dir = req'[q].dir, req'[p].dir \in Dirs,
                      Snaps(p)'
               PROVE  FALSE
    BY DEF Exclusive
  <2>1. CASE p # r /\ q # r
    BY <2>1, <1>q, <1>e DEF Exclusive, Running, Snaps
  <2>2. CASE p = r
    BY <2>2, <1>q, <1>e DEF Exclusive, Running, Snaps
  <2>3. CASE q = r
    BY <2>3, <1>q, <1>e DEF Exclusive, Running, Snaps
  <2> QED
    BY <2>1, <2>2, <2>3
<1>2. ASSUME NEW q \in Reqs, q # r PROVE HeldOK(req[q], todo[q])' /\ Faithful(req[q])'
  <2>0. req'[q] = req[q] /\ todo'[q] = todo[q]
    BY <1>q, <1>2
  <2>1. HeldOK(req[q], todo[q])'
    <3>1. CASE req[q].pc \notin {"wait", "resume", "link", "config"}
      <4>1. HeldOK(req[q], todo[q])
        BY <1>e
      <4> QED
        BY <2>0, <3>1, <4>1 DEF HeldOK
    <3>2. CASE req[q].pc \in {"wait", "resume", "link", "config"}
      <4>1. req[q].dir \in Dirs /\ Running(q)
        BY <3>2, <1>t DEF ReqOK, Running
      <4>2. /\ dirs'[req[q].dir] = dirs[req[q].dir]
            /\ req[q].dir \in good => req[q].dir \in good'
        BY <4>1, <1>2, <1>e DEF Exclusive
      <4>3. HeldOK(req[q], todo[q])
        BY <1>e
      <4> QED
        BY <2>0, <4>2, <4>3 DEF HeldOK, Whole
    <3> QED
      BY <3>1, <3>2
  <2>2. Faithful(req[q])'
    <3> SUFFICES ASSUME req[q].pc \in {"track", "ok"}, req[q].op \in {"Fork", "Restore"}
                 PROVE  Faithful(req[q])'
      BY <2>0 DEF Faithful
    <3>1. req[q].clone \in Insts
      BY <1>t DEF ReqOK
    <3>2. vm[req[q].clone] # "none"
      BY <3>1 DEF MgrInv, Known
    <3>3. origin'[req[q].clone] = origin[req[q].clone]
      BY <3>1, <3>2
    <3>4. Faithful(req[q])
      BY <1>e
    <3> QED
      BY <2>0, <3>3, <3>4 DEF Faithful
  <2> QED
    BY <2>1, <2>2
<1> QED
  BY <1>1, <1>2 DEF CloneInv

\* A request that is accepted finds its directory free, or good and not being replaced.
LEMMA CloneCall ==
  ASSUME DirsOwned = TRUE
  PROVE  MgrInv /\ CloneInv => \A r \in Reqs : Call(r) => CloneInv'
<1> SUFFICES ASSUME MgrInv, CloneInv, NEW r \in Reqs, Call(r) PROVE CloneInv'
  OBVIOUS
<1> USE ConstantsAssumption
<1>t. /\ TypeOK /\ instances \subseteq Insts /\ ReqOK(req[r])
  BY DEF MgrInv, Typed, TypeOK
<1>u. UNCHANGED <<dirs, good, origin, todo>> /\ Arrives(r)
  BY DEF Call, ResolveAndCreate, Create, RestoreFrom, Delete, Kill, Snapshot, Fork, Lookup
<1>p. /\ {"boot", "link", "stop", "clear", "failed"} \subseteq PCs
      /\ {"Create", "Restore", "Snapshot", "Fork", "Kill", "Delete"} \subseteq Ops
      /\ NoInst \in InstOrNone /\ NoDir \in Dirs \cup {NoDir} /\ Insts \subseteq InstOrNone
  BY DEF PCs, Ops, InstOrNone
<1>d. GoodWhole'
  BY <1>u DEF CloneInv, GoodWhole, Whole
<1>f. ASSUME Fails(r) PROVE CloneInv'
  <2>1. OnlyMoves(r) /\ req'[r].pc = "failed"
    BY <1>f, <1>t, <1>u, FailsMoves
  <2>2. ~Running(r)' /\ HeldOK(req[r], todo[r])' /\ Faithful(req[r])'
    BY <2>1 DEF Running, HeldOK, Faithful
  <2> QED
    BY <2>1, <2>2, <1>u, <1>d, CloneMoves
<1>a. ASSUME NEW op \in Ops, NEW pc \in PCs, NEW i \in InstOrNone, NEW d \in Dirs \cup {NoDir},
             Accept(r, op, pc, i, d),
             \/ pc \in {"boot", "stop"} /\ d \notin Dirs
             \/ pc = "clear" /\ MayWrite(d)
             \/ pc = "link" /\ op = "Restore" /\ MayRead(d)
      PROVE  CloneInv'
  <2>1. Accepted(r, op, pc, i, d)
    BY <1>a, <1>t, <1>u, AcceptMoves
  <2>2. OnlyMoves(r) /\ req'[r].pc = pc /\ req'[r].op = op /\ req'[r].dir = d
    BY <2>1 DEF Accepted
  <2>3. HeldOK(req[r], todo[r])' /\ Faithful(req[r])'
    BY <1>a, <1>u, <2>2 DEF HeldOK, Faithful, MayRead
  <2>4. \/ d \notin Dirs
        \/ \A q \in Reqs : req[q].dir = d => ~Running(q)
        \/ op = "Restore" /\ \A q \in Reqs : req[q].dir = d /\ Snaps(q) => ~Running(q)
    BY <1>a DEF MayWrite, MayRead
  <2> QED
    BY <2>2, <2>3, <2>4, <1>u, <1>d, CloneMoves
<1>1. CASE Create(r)
  BY <1>1, <1>a, <1>p DEF Create
<1>2. ASSUME NEW d \in Dirs, RestoreFrom(r, d) PROVE CloneInv'
  BY <1>2, <1>a, <1>p DEF RestoreFrom
<1>3. ASSUME NEW i \in Insts, Delete(r, i) PROVE CloneInv'
  BY <1>3, <1>a, <1>f, <1>p DEF Delete
<1>4. ASSUME NEW i \in Insts, Kill(r, i) PROVE CloneInv'
  BY <1>4, <1>a, <1>f, <1>p DEF Kill, Lookup
<1>5. ASSUME NEW i \in Insts, NEW d \in Dirs, NEW op \in {"Snapshot", "Fork"},
             MayWrite(d), Lookup(r, op, "clear", i, d)
      PROVE  CloneInv'
  BY <1>5, <1>a, <1>f, <1>p DEF Lookup
<1> QED
  BY <1>1, <1>2, <1>3, <1>4, <1>5 DEF Call, ResolveAndCreate, Snapshot, Fork

\* A request goes on. (driver.go Snapshot, Restore)
LEMMA CloneContinue == MgrInv /\ CloneInv => \A r \in Reqs : Continue(r) => CloneInv'
<1> SUFFICES ASSUME MgrInv, CloneInv, NEW r \in Reqs, Continue(r) PROVE CloneInv'
  OBVIOUS
<1> USE ConstantsAssumption
<1>t. /\ TypeOK /\ ReqOK(req[r]) /\ TodoOK(req[r], todo[r]) /\ req[r] \in Request
      /\ dirs \in [Dirs -> Snap] /\ origin \in [Insts -> Snap] /\ good \in SUBSET Dirs
      /\ req \in [Reqs -> Request] /\ todo \in [Reqs -> SUBSET Todos]
  BY DEF MgrInv, Typed, TypeOK
<1>p. {"failed", "pause", "write", "wait", "resume", "track", "config", "restore", "ok", "link"} \subseteq PCs
  BY DEF PCs
<1>s. NoSnap \in Snap
  BY DEF NoSnap, Snap, InstOrNone
<1>h. HeldOK(req[r], todo[r]) /\ Faithful(req[r]) /\ GoodWhole
  BY DEF CloneInv
\* The request ends with an error, and the directories and clones stay as they are.
<1>e. ASSUME OnlyMoves(r), req'[r].pc = "failed", UNCHANGED <<dirs, good, origin>> PROVE CloneInv'
  <2>1. ~Running(r)' /\ HeldOK(req[r], todo[r])' /\ Faithful(req[r])'
    BY <1>e DEF Running, HeldOK, Faithful
  <2>2. GoodWhole'
    BY <1>e, <1>h DEF GoodWhole, Whole
  <2> QED
    BY <1>e, <2>1, <2>2, CloneMoves
<1>f. ASSUME Fails(r), UNCHANGED <<dirs, good, origin, todo>> PROVE CloneInv'
  BY <1>f, <1>e, <1>t, FailsMoves
\* The request goes on, and the directories and clones stay as they are.
<1>k. ASSUME OnlyMoves(r), Running(r), req'[r].dir = req[r].dir, req'[r].op = req[r].op,
             HeldOK(req[r], todo[r])', Faithful(req[r])', UNCHANGED <<dirs, good, origin>>
      PROVE  CloneInv'
  <2>1. GoodWhole'
    BY <1>k, <1>h DEF GoodWhole, Whole
  <2> QED
    BY <1>k, <2>1, CloneMoves
<1>1. CASE Boot(r)
  <2>1. CASE Fails(r)
    BY <1>1, <2>1, <1>f DEF Boot
  <2>2. ASSUME NEW i \in Insts, req' = [req EXCEPT ![r].pc = "track", ![r].clone = i]
        PROVE  CloneInv'
    <3> DEFINE n == [req[r] EXCEPT !.pc = "track", !.clone = i]
    <3>1. n \in Request /\ req' = [req EXCEPT ![r] = n]
      BY <2>2, <1>t, <1>p DEF Request, InstOrNone
    <3>2. /\ n.pc = "track" /\ n.op = req[r].op /\ n.dir = req[r].dir
      BY <1>t DEF Request
    <3> HIDE DEF n
    <3>3. OnlyMoves(r) /\ req'[r] = n
      BY <1>1, <3>1, <1>t, MovesTo DEF Boot
    <3>4. HeldOK(req[r], todo[r])' /\ Faithful(req[r])'
      BY <1>1, <3>2, <3>3, <1>t DEF HeldOK, Faithful, Boot, At, ReqOK
    <3>5. Running(r) /\ UNCHANGED <<dirs, good, origin>>
      BY <1>1 DEF Boot, At, Running
    <3> QED
      BY <3>2, <3>3, <3>4, <3>5, <1>k
  <2> QED
    BY <1>1, <2>1, <2>2 DEF Boot
<1>2. CASE Track(r)
  <2>0. req[r].pc = "track" /\ Running(r) /\ UNCHANGED <<dirs, good, origin, todo>>
    BY <1>2 DEF Track, At, Running
  <2>1. OnlyMoves(r) /\ req'[r] = [req[r] EXCEPT !.pc = "ok"]
    BY <1>2, <2>0, <1>t, <1>p, GotoMoves DEF Track
  <2>2. /\ req'[r].pc = "ok" /\ req'[r].op = req[r].op /\ req'[r].inst = req[r].inst
        /\ req'[r].dir = req[r].dir /\ req'[r].clone = req[r].clone
    BY <2>1, <1>t DEF Request
  <2>3. HeldOK(req[r], todo[r])' /\ Faithful(req[r])'
    BY <2>0, <2>2, <1>h DEF HeldOK, Faithful
  <2> QED
    BY <2>0, <2>1, <2>2, <2>3, <1>k
<1>3. CASE ClearDir(r)
  <2> DEFINE d == req[r].dir
  <2>0. /\ d \in Dirs /\ req[r].pc = "clear" /\ Running(r) /\ Snaps(r)
        /\ good' = good \ {d} /\ UNCHANGED <<origin, todo>>
    BY <1>3, <1>t DEF ClearDir, At, ReqOK, Running, Snaps
  <2>1. \A e \in Dirs \ {d} : dirs'[e] = dirs[e]
    BY <1>3, <2>0, <1>t DEF ClearDir
  <2>2. GoodWhole'
    BY <2>0, <2>1, <1>h, <1>t DEF GoodWhole, Whole
  <2>3. CASE Goto(r, "pause")
    <3>1. OnlyMoves(r) /\ req'[r] = [req[r] EXCEPT !.pc = "pause"]
      BY <2>0, <2>3, <1>t, <1>p, GotoMoves
    <3>2. req'[r].pc = "pause" /\ req'[r].dir = d /\ req'[r].op = req[r].op
      BY <3>1, <1>t DEF Request
    <3>3. HeldOK(req[r], todo[r])' /\ Faithful(req[r])'
      BY <3>2 DEF HeldOK, Faithful
    <3> QED
      BY <2>0, <2>1, <2>2, <3>1, <3>2, <3>3, CloneMoves
  <2>4. CASE Fails(r)
    <3>1. OnlyMoves(r) /\ req'[r].pc = "failed"
      BY <2>0, <2>4, <1>t, FailsMoves
    <3>2. ~Running(r)' /\ HeldOK(req[r], todo[r])' /\ Faithful(req[r])'
      BY <3>1 DEF Running, HeldOK, Faithful
    <3> QED
      BY <2>0, <2>1, <2>2, <3>1, <3>2, CloneMoves
  <2> QED
    BY <1>3, <2>3, <2>4 DEF ClearDir
\* A call of Instance.Snapshot fails.
<1>c. ASSUME NEW pc \in {"resume", "failed"}, NEW e \in SUBSET {"pause", "snapshot", "resume"},
             NEW left \in BOOLEAN, e # {}, Running(r),
             req' = [req EXCEPT ![r].errs = e, ![r].pc = pc, ![r].gone = left],
             todo' \in [Reqs -> SUBSET Todos], \A q \in Reqs \ {r} : todo'[q] = todo[q],
             UNCHANGED <<dirs, good, origin>>
      PROVE  CloneInv'
  <2> DEFINE n == [req[r] EXCEPT !.errs = e, !.pc = pc, !.gone = left]
  <2>1. n \in Request /\ req' = [req EXCEPT ![r] = n]
    BY <1>c, <1>t DEF Request, PCs
  <2>2. n.pc = pc /\ n.errs = e /\ n.dir = req[r].dir /\ n.op = req[r].op
    BY <1>t DEF Request
  <2> HIDE DEF n
  <2>3. OnlyMoves(r) /\ req'[r] = n
    BY <1>c, <2>1, <1>t, MovesTo
  <2>4. HeldOK(req[r], todo[r])' /\ Faithful(req[r])'
    BY <1>c, <2>2, <2>3 DEF HeldOK, Faithful
  <2> QED
    BY <1>c, <2>2, <2>3, <2>4, <1>k
<1>4. CASE PauseVM(r)
  <2>0. /\ req[r].pc = "pause" /\ req[r].errs = {} /\ Running(r)
        /\ UNCHANGED <<origin, dirs, good>>
    BY <1>4, <1>t DEF PauseVM, At, ReqOK, Running
  <2>1. CASE CallEnds(r, "pause") /\ MayLeave(r, "pause")
    <3>1. req' = [req EXCEPT ![r].errs = {"pause"}, ![r].pc = "failed", ![r].gone = FALSE]
      BY <2>0, <2>1, <1>t DEF CallEnds
    <3>2. todo' \in [Reqs -> SUBSET Todos] /\ \A q \in Reqs \ {r} : todo'[q] = todo[q]
      BY <2>1, <1>t DEF MayLeave, Todos
    <3> QED
      BY <2>0, <3>1, <3>2, <1>c
  <2>2. CASE Goto(r, "write") /\ UNCHANGED todo
    <3>1. OnlyMoves(r) /\ req'[r] = [req[r] EXCEPT !.pc = "write"]
      BY <2>2, <1>t, <1>p, GotoMoves
    <3>2. req'[r].pc = "write" /\ req'[r].dir = req[r].dir /\ req'[r].op = req[r].op
      BY <3>1, <1>t DEF Request
    <3>3. HeldOK(req[r], todo[r])' /\ Faithful(req[r])'
      BY <3>2 DEF HeldOK, Faithful
    <3> QED
      BY <2>0, <3>1, <3>2, <3>3, <1>k
  <2> QED
    BY <1>4, <2>1, <2>2 DEF PauseVM
<1>5. CASE SnapshotVM(r)
  <2>0. /\ req[r].pc = "write" /\ req[r].errs = {} /\ req[r].gone \in BOOLEAN /\ Running(r)
        /\ UNCHANGED <<origin, dirs, good>>
    BY <1>5, <1>t DEF SnapshotVM, At, ReqOK, Request, Running
  <2>1. CASE Goto(r, "wait") /\ todo' = [todo EXCEPT ![r] = {"mem", "config"}]
    <3> DEFINE n == [req[r] EXCEPT !.pc = "wait"]
    <3>1. n \in Request /\ req' = [req EXCEPT ![r] = n]
      BY <2>1, <1>t, <1>p DEF Request, Goto
    <3>2. n.pc = "wait" /\ n.dir = req[r].dir /\ n.op = req[r].op
      BY <1>t DEF Request
    <3> HIDE DEF n
    <3>3. /\ todo' \in [Reqs -> SUBSET Todos] /\ todo'[r] = {"mem", "config"}
          /\ \A q \in Reqs \ {r} : todo'[q] = todo[q]
      BY <2>1, <1>t DEF Todos
    <3>4. OnlyMoves(r) /\ req'[r] = n
      BY <3>1, <3>3, <1>t, MovesTo
    <3>5. HeldOK(req[r], todo[r])' /\ Faithful(req[r])'
      BY <3>2, <3>3, <3>4 DEF HeldOK, Faithful
    <3> QED
      BY <2>0, <3>2, <3>4, <3>5, <1>k
  <2>2. CASE CallFails(r, "snapshot") /\ UNCHANGED todo
    <3>1. req' = [req EXCEPT ![r].errs = {"snapshot"}, ![r].pc = "resume", ![r].gone = req[r].gone]
      BY <2>0, <2>2, <1>t DEF CallFails, Request
    <3> QED
      BY <2>0, <2>2, <3>1, <1>t, <1>c
  <2> QED
    BY <1>5, <2>1, <2>2 DEF SnapshotVM
<1>6. CASE SnapshotReturns(r)
  <2>0. /\ req[r].pc = "wait" /\ req[r].errs = {} /\ req[r].gone \in BOOLEAN /\ Running(r)
        /\ UNCHANGED <<origin, dirs, good>>
    BY <1>6, <1>t DEF SnapshotReturns, At, ReqOK, Request, Running
  <2>1. CASE todo[r] = {} /\ Goto(r, "resume") /\ UNCHANGED todo
    <3>1. OnlyMoves(r) /\ req'[r] = [req[r] EXCEPT !.pc = "resume"]
      BY <2>1, <1>t, <1>p, GotoMoves
    <3>2. /\ req'[r].pc = "resume" /\ req'[r].dir = req[r].dir /\ req'[r].op = req[r].op
          /\ req'[r].inst = req[r].inst
      BY <3>1, <1>t DEF Request
    <3>3. HeldOK(req[r], todo[r])' /\ Faithful(req[r])'
      BY <2>0, <2>1, <3>2, <1>h DEF HeldOK, Faithful, Whole
    <3> QED
      BY <2>0, <3>1, <3>2, <3>3, <1>k
  <2>2. CASE CallFails(r, "snapshot") /\ (UNCHANGED todo \/ todo' = [todo EXCEPT ![r] = {}])
    <3>1. req' = [req EXCEPT ![r].errs = {"snapshot"}, ![r].pc = "resume", ![r].gone = req[r].gone]
      BY <2>0, <2>2, <1>t DEF CallFails, Request
    <3>2. todo' \in [Reqs -> SUBSET Todos] /\ \A q \in Reqs \ {r} : todo'[q] = todo[q]
      BY <2>2, <1>t
    <3> QED
      BY <2>0, <3>1, <3>2, <1>c
  <2> QED
    BY <1>6, <2>1, <2>2 DEF SnapshotReturns
<1>7. CASE ResumeVM(r)
  <2>0. /\ req[r].pc = "resume" /\ req[r].errs \subseteq {"snapshot"} /\ Running(r)
        /\ req[r].op \in {"Snapshot", "Fork"} /\ req[r].dir \in Dirs /\ req[r].inst \in Insts
        /\ UNCHANGED <<origin, dirs>>
    BY <1>7, <1>t DEF ResumeVM, At, ReqOK, Running
  <2>1. CASE CallEnds(r, "resume") /\ MayLeave(r, "resume") /\ UNCHANGED good
    <3>1. req' = [req EXCEPT ![r].errs = req[r].errs \cup {"resume"}, ![r].pc = "failed",
                             ![r].gone = FALSE]
      BY <2>1, <1>t DEF CallEnds
    <3>2. todo' \in [Reqs -> SUBSET Todos] /\ \A q \in Reqs \ {r} : todo'[q] = todo[q]
      BY <2>1, <1>t DEF MayLeave, Todos
    <3>3. /\ req[r].errs \cup {"resume"} \in SUBSET {"pause", "snapshot", "resume"}
          /\ req[r].errs \cup {"resume"} # {}
      BY <2>0
    <3> QED
      BY <2>0, <2>1, <3>1, <3>2, <3>3, <1>c
  <2>2. CASE Fails(r) /\ UNCHANGED <<good, todo>>
    BY <2>0, <2>2, <1>f
  <2>3. CASE /\ req[r].errs = {} /\ UNCHANGED todo
             /\ Goto(r, IF req[r].op = "Fork" THEN "link" ELSE "ok")
             /\ good' = good \cup {req[r].dir}
    <3> DEFINE pc == IF req[r].op = "Fork" THEN "link" ELSE "ok"
    <3>1. pc \in PCs /\ Goto(r, pc)
      BY <2>3, <1>p
    <3>2. OnlyMoves(r) /\ req'[r] = [req[r] EXCEPT !.pc = pc]
      BY <2>3, <3>1, <1>t, GotoMoves
    <3>3. /\ req'[r].pc = pc /\ req'[r].op = req[r].op /\ req'[r].inst = req[r].inst
          /\ req'[r].dir = req[r].dir
      BY <3>2, <1>t DEF Request
    <3>4. Whole(req[r].dir, req[r].inst)
      BY <2>0, <2>3, <1>h DEF HeldOK
    <3>5. GoodWhole'
      BY <2>0, <2>3, <3>4, <1>h DEF GoodWhole, Whole
    <3>6. HeldOK(req[r], todo[r])' /\ Faithful(req[r])'
      BY <2>0, <2>3, <3>3, <3>4 DEF HeldOK, Faithful, Whole
    <3> QED
      BY <2>0, <2>3, <3>2, <3>3, <3>5, <3>6, CloneMoves
  <2> QED
    BY <1>7, <2>1, <2>2, <2>3 DEF ResumeVM
<1>8. CASE LinkFiles(r)
  <2> DEFINE m == dirs[req[r].dir].mem
             n == [req[r] EXCEPT !.pc = "config", !.snap.mem = m]
  <2>0. /\ req[r].dir \in Dirs /\ m \in InstOrNone /\ req[r].pc = "link"
        /\ req[r].op \in {"Fork", "Restore"}
        /\ Running(r) /\ UNCHANGED <<dirs, good, origin, todo>>
    BY <1>8, <1>t DEF LinkFiles, At, ReqOK, Snap, Running
  <2>1. CASE Fails(r)
    BY <2>0, <2>1, <1>f
  <2>2. CASE req' = [req EXCEPT ![r].pc = "config", ![r].snap.mem = m]
    <3>1. n \in Request /\ req' = [req EXCEPT ![r] = n]
      BY <2>0, <2>2, <1>t, <1>p DEF Request, Snap
    <3>2. /\ n.pc = "config" /\ n.op = req[r].op /\ n.inst = req[r].inst /\ n.dir = req[r].dir
          /\ n.snap.mem = m
      BY <1>t DEF Request, Snap
    <3> HIDE DEF n
    <3>3. OnlyMoves(r) /\ req'[r] = n
      BY <2>0, <3>1, <1>t, MovesTo
    <3>4. HeldOK(req[r], todo[r])' /\ Faithful(req[r])'
      BY <2>0, <3>2, <3>3, <1>h DEF HeldOK, Faithful, Whole
    <3> QED
      BY <2>0, <3>2, <3>3, <3>4, <1>k
  <2> QED
    BY <1>8, <2>1, <2>2 DEF LinkFiles
<1>9. CASE ReadConfig(r)
  <2> DEFINE c == dirs[req[r].dir].config
             n == [req[r] EXCEPT !.pc = "restore", !.snap.config = c]
  <2>0. /\ req[r].dir \in Dirs /\ c \in InstOrNone /\ req[r].pc = "config"
        /\ req[r].op \in {"Fork", "Restore"}
        /\ Running(r) /\ UNCHANGED <<dirs, good, origin, todo>>
    BY <1>9, <1>t DEF ReadConfig, At, ReqOK, Snap, Running
  <2>1. CASE Fails(r)
    BY <2>0, <2>1, <1>f
  <2>2. CASE req' = [req EXCEPT ![r].pc = "restore", ![r].snap.config = c]
    <3>1. n \in Request /\ req' = [req EXCEPT ![r] = n]
      BY <2>0, <2>2, <1>t, <1>p DEF Request, Snap
    <3>2. /\ n.pc = "restore" /\ n.op = req[r].op /\ n.inst = req[r].inst /\ n.dir = req[r].dir
          /\ n.snap.mem = req[r].snap.mem /\ n.snap.config = c
      BY <1>t DEF Request, Snap
    <3> HIDE DEF n
    <3>3. OnlyMoves(r) /\ req'[r] = n
      BY <2>0, <3>1, <1>t, MovesTo
    <3>4. /\ req[r].snap.mem = dirs[req[r].dir].mem /\ dirs[req[r].dir].mem = c
          /\ req[r].op = "Fork" => c = req[r].inst
      BY <2>0, <1>h DEF HeldOK, GoodWhole, Whole
    <3>5. HeldOK(req[r], todo[r])' /\ Faithful(req[r])'
      BY <2>0, <3>2, <3>3, <3>4 DEF HeldOK, Faithful
    <3> QED
      BY <2>0, <3>2, <3>3, <3>5, <1>k
  <2> QED
    BY <1>9, <2>1, <2>2 DEF ReadConfig
<1>10. CASE RestoreVM(r)
  <2>1. CASE Fails(r) /\ UNCHANGED <<vm, origin>>
    BY <1>10, <2>1, <1>f DEF RestoreVM
  <2>2. ASSUME NEW i \in Insts, vm[i] = "none",
               origin' = [origin EXCEPT ![i] = req[r].snap],
               req' = [req EXCEPT ![r].pc = "track", ![r].clone = i, ![r].snap = NoSnap]
        PROVE  CloneInv'
    <3> DEFINE n == [req[r] EXCEPT !.pc = "track", !.clone = i, !.snap = NoSnap]
    <3>1. n \in Request /\ req' = [req EXCEPT ![r] = n]
      BY <2>2, <1>t, <1>p, <1>s DEF Request, InstOrNone
    <3>2. /\ n.pc = "track" /\ n.clone = i /\ n.inst = req[r].inst /\ n.op = req[r].op
          /\ n.dir = req[r].dir
      BY <1>t DEF Request
    <3> HIDE DEF n
    <3>3. OnlyMoves(r) /\ req'[r] = n
      BY <1>10, <3>1, <1>t, MovesTo DEF RestoreVM
    <3>4. req[r].pc = "restore" /\ Running(r) /\ UNCHANGED <<dirs, good>>
      BY <1>10 DEF RestoreVM, At, Running
    <3>5. origin'[i] = req[r].snap /\ \A j \in Insts \ {i} : origin'[j] = origin[j]
      BY <2>2, <1>t
    <3>6. HeldOK(req[r], todo[r])'
      BY <3>2, <3>3 DEF HeldOK
    <3>7. Faithful(req[r])'
      BY <3>2, <3>3, <3>4, <3>5, <1>h DEF HeldOK, Faithful
    <3>8. GoodWhole'
      BY <3>4, <1>h DEF GoodWhole, Whole
    <3> QED
      BY <2>2, <3>2, <3>3, <3>4, <3>5, <3>6, <3>7, <3>8, CloneMoves
  <2> QED
    BY <1>10, <2>1, <2>2 DEF RestoreVM
<1>11. CASE StopInstance(r)
  <2>0. /\ req[r].pc = "stop" /\ req[r].op \in {"Delete", "Kill"} /\ Running(r)
        /\ UNCHANGED <<dirs, good, origin, todo>>
    BY <1>11, <1>t DEF StopInstance, At, ReqOK, Running
  <2>1. OnlyMoves(r) /\ req'[r] = [req[r] EXCEPT !.pc = "ok"]
    BY <1>11, <2>0, <1>t, <1>p, GotoMoves DEF StopInstance
  <2>2. req'[r].pc = "ok" /\ req'[r].op = req[r].op /\ req'[r].dir = req[r].dir
    BY <2>1, <1>t DEF Request
  <2>3. HeldOK(req[r], todo[r])' /\ Faithful(req[r])'
    BY <2>0, <2>2 DEF HeldOK, Faithful
  <2> QED
    BY <2>0, <2>1, <2>2, <2>3, <1>k
<1> QED
  BY <1>1, <1>2, <1>3, <1>4, <1>5, <1>6, <1>7, <1>8, <1>9, <1>10, <1>11 DEF Continue

\* A client that leaves keeps its request in its directory. (server.go)
LEMMA CloneLeave == MgrInv /\ CloneInv => \A r \in Reqs : ClientLeaves(r) => CloneInv'
<1> SUFFICES ASSUME MgrInv, CloneInv, NEW r \in Reqs, ClientLeaves(r) PROVE CloneInv'
  OBVIOUS
<1>t. TypeOK /\ req \in [Reqs -> Request] /\ req[r] \in Request
  BY DEF MgrInv, Typed, TypeOK
<1> DEFINE n == [req[r] EXCEPT !.gone = TRUE]
<1>1. n \in Request /\ req' = [req EXCEPT ![r] = n]
  BY <1>t DEF ClientLeaves, Request
<1>2. /\ n.pc = req[r].pc /\ n.op = req[r].op /\ n.inst = req[r].inst /\ n.dir = req[r].dir
      /\ n.clone = req[r].clone /\ n.snap = req[r].snap /\ n.errs = req[r].errs
  BY <1>t DEF Request
<1> HIDE DEF n
<1>3. Running(r) /\ UNCHANGED <<dirs, good, origin, todo>>
  BY DEF ClientLeaves, Running
<1>4. OnlyMoves(r) /\ req'[r] = n
  BY <1>1, <1>3, <1>t, MovesTo
<1>5. HeldOK(req[r], todo[r]) /\ Faithful(req[r]) /\ GoodWhole
  BY DEF CloneInv
<1>6. HeldOK(req[r], todo[r])' /\ Faithful(req[r])' /\ GoodWhole'
  BY <1>2, <1>3, <1>4, <1>5 DEF HeldOK, Faithful, GoodWhole, Whole
<1> QED
  BY <1>2, <1>3, <1>4, <1>6, CloneMoves

\* A VMM, however late, writes only what is not there yet, so it spoils neither a
\* good snapshot nor the part another VM has written. (driver.go:311-312)
LEMMA CloneVmm == MgrInv /\ CloneInv => \A r \in Reqs : Vmm(r) => CloneInv'
<1> SUFFICES ASSUME MgrInv, CloneInv, NEW r \in Reqs, Vmm(r) PROVE CloneInv'
  OBVIOUS
<1> USE ConstantsAssumption
<1> DEFINE i == req[r].inst
           d == req[r].dir
<1>t. /\ TypeOK /\ (\A q \in Reqs : ReqOK(req[q]) /\ TodoOK(req[q], todo[q]))
      /\ dirs \in [Dirs -> Snap] /\ todo \in [Reqs -> SUBSET Todos] /\ good \subseteq Dirs
  BY DEF MgrInv, Typed, TypeOK
<1>u. UNCHANGED <<origin, good, req>>
  BY DEF Vmm, VmmWrites, LatePause, LateResume, VmmDrops
<1>h. Exclusive /\ GoodWhole /\ \A q \in Reqs : HeldOK(req[q], todo[q]) /\ Faithful(req[q])
  BY DEF CloneInv
\* What the VMM writes was missing, and it writes what is left of its call.
<1>w. /\ \A e \in Dirs \ {d} : dirs'[e] = dirs[e]
      /\ d \in Dirs => /\ dirs'[d].mem = dirs[d].mem \/ dirs[d].mem = NoInst
                       /\ dirs'[d].config = dirs[d].config \/ dirs[d].config = NoInst
  <2>1. CASE VmmWrites(r)
    <3>1. d \in Dirs
      BY <2>1, <1>t DEF VmmWrites, TodoOK
    <3>2. ASSUME dirs[d].mem = NoInst, dirs' = [dirs EXCEPT ![d].mem = i]
          PROVE  dirs'[d].config = dirs[d].config /\ \A e \in Dirs \ {d} : dirs'[e] = dirs[e]
      BY <3>1, <3>2, <1>t DEF Snap
    <3>3. ASSUME dirs[d].config = NoInst, dirs' = [dirs EXCEPT ![d].config = i]
          PROVE  dirs'[d].mem = dirs[d].mem /\ \A e \in Dirs \ {d} : dirs'[e] = dirs[e]
      BY <3>1, <3>3, <1>t DEF Snap
    <3> QED
      BY <2>1, <3>2, <3>3 DEF VmmWrites
  <2>2. CASE UNCHANGED dirs
    BY <2>2
  <2> QED
    BY <2>1, <2>2 DEF Vmm, LatePause, LateResume, VmmDrops
<1>1. Exclusive'
  BY <1>u, <1>h DEF Exclusive, Running, Snaps
<1>2. \A e \in Dirs, j \in Insts :
        /\ dirs[e].mem = j => dirs'[e].mem = j
        /\ dirs[e].config = j => dirs'[e].config = j
  BY <1>w
<1>3. GoodWhole'
  BY <1>2, <1>u, <1>h, <1>t DEF GoodWhole, Whole
<1>4. ASSUME NEW q \in Reqs PROVE HeldOK(req[q], todo[q])' /\ Faithful(req[q])'
  <2>0. req'[q] = req[q] /\ Faithful(req[q]) /\ HeldOK(req[q], todo[q])
    BY <1>u, <1>h
  <2>1. Faithful(req[q])'
    BY <2>0, <1>u DEF Faithful
  <2>2. CASE req[q].pc = "wait"
    <3>1. req[q].dir \in Dirs /\ req[q].inst \in Insts
      BY <2>2, <1>t DEF ReqOK
    <3>2. \/ todo'[q] = todo[q]
          \/ /\ q = r /\ VmmWrites(r)
             /\ \/ /\ todo' = [todo EXCEPT ![r] = @ \ {"mem"}]
                   /\ dirs' = [dirs EXCEPT ![d].mem = i]
                \/ /\ todo' = [todo EXCEPT ![r] = @ \ {"config"}]
                   /\ dirs' = [dirs EXCEPT ![d].config = i]
      <4>1. TodoOK(req[q], todo[q]) /\ Running(q)
        BY <2>2, <1>t DEF Running
      <4>2. CASE q # r
        <5>1. ASSUME NEW T \in SUBSET Todos, todo' = [todo EXCEPT ![r] = T]
              PROVE  todo'[q] = todo[q]
          BY <4>2, <5>1, <1>t
        <5>2. /\ todo[r] \ {"mem"} \in SUBSET Todos /\ todo[r] \ {"config"} \in SUBSET Todos
              /\ todo[r] \ {"pause"} \in SUBSET Todos /\ todo[r] \ {"resume"} \in SUBSET Todos
              /\ {} \in SUBSET Todos
          BY <1>t
        <5>3. \E T \in SUBSET Todos : todo' = [todo EXCEPT ![r] = T]
          BY <5>2 DEF Vmm, VmmWrites, LatePause, LateResume, VmmDrops
        <5> QED
          BY <5>1, <5>3
      <4>3. CASE q = r /\ VmmWrites(r)
        BY <4>3 DEF VmmWrites
      <4>4. CASE q = r /\ (LatePause(r) \/ LateResume(r) \/ VmmDrops(r))
        BY <2>2, <4>1, <4>4 DEF TodoOK, LatePause, LateResume, VmmDrops
      <4> QED
        BY <4>2, <4>3, <4>4 DEF Vmm
    <3>3. CASE todo'[q] = todo[q]
      BY <2>0, <2>1, <2>2, <3>1, <3>3, <1>2 DEF HeldOK
    <3>4. CASE /\ q = r
               /\ todo' = [todo EXCEPT ![r] = @ \ {"mem"}] /\ dirs' = [dirs EXCEPT ![d].mem = i]
      <4>1. dirs'[d].mem = i
        BY <3>1, <3>4, <1>t DEF Snap
      <4>2. todo'[r] = todo[r] \ {"mem"}
        BY <3>4, <1>t
      <4> QED
        BY <2>0, <2>1, <2>2, <3>1, <3>4, <4>1, <4>2, <1>2 DEF HeldOK
    <3>5. CASE /\ q = r
               /\ todo' = [todo EXCEPT ![r] = @ \ {"config"}] /\ dirs' = [dirs EXCEPT ![d].config = i]
      <4>1. dirs'[d].config = i
        BY <3>1, <3>5, <1>t DEF Snap
      <4>2. todo'[r] = todo[r] \ {"config"}
        BY <3>5, <1>t
      <4> QED
        BY <2>0, <2>1, <2>2, <3>1, <3>5, <4>1, <4>2, <1>2 DEF HeldOK
    <3>6. HeldOK(req[q], todo[q])'
      BY <3>2, <3>3, <3>4, <3>5
    <3> QED
      BY <2>1, <3>6
  <2>3. CASE req[q].pc \in {"resume", "link", "config"}
    <3>1. /\ req[q].dir \in Dirs
          /\ req[q].pc = "resume" \/ req[q].op = "Fork" => req[q].inst \in Insts
      BY <2>3, <1>t DEF ReqOK
    <3>2. req[q].op = "Restore" /\ req[q].pc = "config" =>
            dirs'[req[q].dir].mem = dirs[req[q].dir].mem
      BY <2>0, <3>1, <1>2, <1>h DEF HeldOK, GoodWhole, Whole
    <3>3. req[q].pc = "config" => req[q].op \in {"Fork", "Restore"}
      BY <1>t DEF ReqOK
    <3>4. HeldOK(req[q], todo[q])'
      BY <2>0, <2>3, <3>1, <3>2, <3>3, <1>2, <1>u DEF HeldOK, Whole
    <3> QED
      BY <2>1, <3>4
  <2>4. CASE req[q].pc \notin {"wait", "resume", "link", "config"}
    <3>1. HeldOK(req[q], todo[q])'
      BY <2>0, <2>4 DEF HeldOK
    <3> QED
      BY <2>1, <3>1
  <2> QED
    BY <2>2, <2>3, <2>4
<1> QED
  BY <1>1, <1>3, <1>4 DEF CloneInv

\* The two invariants hold together. (sandbox.go, driver.go)
LEMMA CloneAlways ==
  ASSUME DirsOwned = TRUE
  PROVE  Spec => [](MgrInv /\ CloneInv)
<1>1. Init => CloneInv
  <2> SUFFICES ASSUME Init PROVE CloneInv
    OBVIOUS
  <2>1. (\A r \in Reqs : req[r].pc = "new") /\ good = {}
    BY DEF Init, NewReq
  <2> QED
    BY <2>1 DEF CloneInv, Exclusive, GoodWhole, HeldOK, Faithful, Running
<1>2. MgrInv /\ CloneInv /\ [Next]_vars => CloneInv'
  <2> SUFFICES ASSUME MgrInv, CloneInv, [Next]_vars PROVE CloneInv'
    OBVIOUS
  <2>1. CASE UNCHANGED <<req, dirs, good, todo, origin>>
    BY <2>1 DEF CloneInv, Exclusive, GoodWhole, Whole, HeldOK, Faithful, Running, Snaps
  <2>2. CASE Main
    BY <2>1, <2>2 DEF Main, BeginShutdown, StopVictims, CloseDrivers, Exit
  <2>3. CASE UNCHANGED vars
    BY <2>1, <2>3 DEF vars
  <2> QED
    BY <2>2, <2>3, CloneCall, CloneContinue, CloneLeave, CloneVmm DEF Next
<1> QED
  BY <1>1, <1>2, MgrStarts, MgrStep, PTL DEF Spec

\* If clients do not replace a snapshot that is in use and restore only what a
\* successful snapshot left, a clone is a clone of one VM, and a fork of the one it
\* names: any number of clones at a time, whatever a VMM still writes for a caller
\* that has left. (sandbox.go:226-228, driver.go prepareCloneSnapshot)
THEOREM ClonesFaithful ==
  ASSUME DirsOwned = TRUE
  PROVE  Spec => []CloneFidelity
<1>1. CloneInv => CloneFidelity
  BY DEF CloneInv, Faithful, CloneFidelity
<1> QED
  BY <1>1, CloneAlways, PTL
=============================================================================
