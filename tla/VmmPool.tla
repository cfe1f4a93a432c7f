-------------------------------- MODULE VmmPool --------------------------------
(***************************************************************************)
(* The pool of prewarmed VMM processes                                     *)
(* (pkg/driver/cloudhypervisor/pool.go): get pops a spare or spawns a VMM,  *)
(* and kicks a refill goroutine that spawns spares until the pool holds    *)
(* Target of them; close empties the pool and kills what was in it.        *)
(* p.mu is released while a VMM is spawned or killed, so an action is one  *)
(* critical section, or one wait for a process.                            *)
(***************************************************************************)
EXTENDS Integers, FiniteSets

CONSTANTS
  Vmms,         \* VMM processes alive or left behind at one time, at most
  Callers,      \* goroutines that create or restore a sandbox
  Refills,      \* refill goroutines alive at one time, at most
  Target,       \* p.target
  SpawnFails,   \* a spawn may fail: no binary, or no answer before bootWait
  NoVmm         \* no VMM

ASSUME ConstantsAssumption ==
  /\ IsFiniteSet(Vmms)
  /\ NoVmm \notin Vmms
  /\ Target \in Nat
  /\ SpawnFails \in BOOLEAN

VARIABLES
  vmm,          \* each VMM process
  idle,         \* p.idle; which spare a get pops makes no difference
  refilling,    \* p.refilling
  closed,       \* p.closed
  caller,       \* where each caller is in get, and the VMM it holds
  refill,       \* where each refill goroutine is, and the VMM it holds
  victims,      \* spares close has taken out of the pool and still has to kill
  lost          \* a failed spawn has stopped the refill goroutine

vars == <<vmm, idle, refilling, closed, caller, refill, victims, lost>>

VmmOrNone == Vmms \cup {NoVmm}

TypeOK ==
  /\ vmm \in [Vmms -> {"none", "booting", "hung", "ready", "stray"}]
  /\ idle \in SUBSET Vmms
  /\ refilling \in BOOLEAN
  /\ closed \in BOOLEAN
  /\ caller \in [Callers -> [pc : {"out", "kick", "spawn", "boot", "using"},
                             vmm : VmmOrNone]]
  /\ refill \in [Refills -> [pc : {"off", "check", "spawn", "boot", "add", "kill", "end"},
                             vmm : VmmOrNone]]
  /\ victims \in SUBSET Vmms
  /\ lost \in BOOLEAN

Out == [pc |-> "out", vmm |-> NoVmm]
Off == [pc |-> "off", vmm |-> NoVmm]

Init ==
  /\ vmm = [v \in Vmms |-> "none"]
  /\ idle = {}
  /\ refilling = FALSE
  /\ closed = FALSE
  /\ caller = [c \in Callers |-> Out]
  /\ refill = [g \in Refills |-> Off]
  /\ victims = {}
  /\ lost = FALSE

-----------------------------------------------------------------------------
(* get *)

\* Faulty: p.idle is popped without looking at its length.
GetUnchecked(c) ==
  /\ caller[c].pc = "out"
  /\ \E v \in IF idle = {} THEN {"nil"} ELSE idle :
       /\ idle' = idle \ {v}
       /\ caller' = [caller EXCEPT ![c] = [pc |-> "kick", vmm |-> v]]
  /\ UNCHANGED <<vmm, refilling, closed, refill, victims, lost>>

\* Pop a spare, or go without.
Get(c) ==
  /\ caller[c].pc = "out"
  /\ \/ \E v \in idle :
          /\ idle' = idle \ {v}
          /\ caller' = [caller EXCEPT ![c] = [pc |-> "kick", vmm |-> v]]
     \/ /\ idle = {}
        /\ caller' = [caller EXCEPT ![c].pc = "kick"]
        /\ UNCHANGED idle
  /\ UNCHANGED <<vmm, refilling, closed, refill, victims, lost>>

\* Faulty: whether a refill goroutine runs already is not looked at.
KickAlways ==
  IF Target = 0 \/ closed THEN UNCHANGED <<refilling, refill>>
  ELSE /\ refilling' = TRUE
       /\ \E g \in Refills :
            /\ refill[g].pc = "off"
            /\ refill' = [refill EXCEPT ![g].pc = "check"]

\* kickRefill: nothing to do for a disabled or closed pool, or while a refill
\* goroutine has not cleared p.refilling yet.
Kick ==
  IF Target = 0 \/ refilling \/ closed THEN UNCHANGED <<refilling, refill>>
  ELSE /\ refilling' = TRUE
       /\ \E g \in Refills :
            /\ refill[g].pc = "off"
            /\ refill' = [refill EXCEPT ![g].pc = "check"]

KickRefill(c) ==
  /\ caller[c].pc = "kick"
  /\ Kick
  /\ caller' = [caller EXCEPT ![c].pc = IF caller[c].vmm = NoVmm THEN "spawn" ELSE "using"]
  /\ UNCHANGED <<vmm, idle, closed, victims, lost>>

\* Driver.Warm: a kick and nothing else.
Warm ==
  /\ Kick
  /\ UNCHANGED <<vmm, idle, closed, caller, victims, lost>>

\* spawnInNetns: a sandbox with a pod netns does not use the pool.
GetInNetns(c) ==
  /\ caller[c].pc = "out"
  /\ caller' = [caller EXCEPT ![c].pc = "spawn"]
  /\ UNCHANGED <<vmm, idle, refilling, closed, refill, victims, lost>>

-----------------------------------------------------------------------------
(* spawnPrefixed, run by a caller and by a refill goroutine *)

StartProcess(v) == vmm[v] = "none" /\ vmm' = [vmm EXCEPT ![v] = "booting"]

Answers(v) == vmm[v] = "booting" /\ vmm' = [vmm EXCEPT ![v] = "ready"]

\* No ping before the deadline, or the context is done: killed, but neither
\* waited for nor cleaned up.
TimesOut(v) == SpawnFails /\ vmm' = [vmm EXCEPT ![v] = "stray"]

\* The VMM takes the connection of a ping and never answers.  waitReady looks at
\* its deadline between pings only, and a ping has no timeout of its own: the
\* boot ends only with the process, or with the context of a caller.
VmmHangs(v) ==
  /\ SpawnFails
  /\ vmm[v] = "booting"
  /\ vmm' = [vmm EXCEPT ![v] = "hung"]
  /\ UNCHANGED <<idle, refilling, closed, caller, refill, victims, lost>>

Kill(v) == vmm' = [vmm EXCEPT ![v] = "none"]

Spawn(c) ==
  /\ caller[c].pc = "spawn"
  /\ \/ \E v \in Vmms : /\ StartProcess(v)
                        /\ caller' = [caller EXCEPT ![c] = [pc |-> "boot", vmm |-> v]]
     \/ SpawnFails /\ caller' = [caller EXCEPT ![c] = Out] /\ UNCHANGED vmm
  /\ UNCHANGED <<idle, refilling, closed, refill, victims, lost>>

Booted(c) ==
  /\ caller[c].pc = "boot"
  /\ \/ Answers(caller[c].vmm) /\ caller' = [caller EXCEPT ![c].pc = "using"]
     \/ TimesOut(caller[c].vmm) /\ caller' = [caller EXCEPT ![c] = Out]
  /\ UNCHANGED <<idle, refilling, closed, refill, victims, lost>>

\* The sandbox is stopped, or its creation failed after get.
Release(c) ==
  /\ caller[c].pc = "using"
  /\ Kill(caller[c].vmm)
  /\ caller' = [caller EXCEPT ![c] = Out]
  /\ UNCHANGED <<idle, refilling, closed, refill, victims, lost>>

-----------------------------------------------------------------------------
(* The refill goroutine *)

\* need and closed are read together and acted on later.
CheckNeed(g) ==
  /\ refill[g].pc = "check"
  /\ refill' = [refill EXCEPT ![g].pc =
                  IF Cardinality(idle) >= Target \/ closed THEN "end" ELSE "spawn"]
  /\ UNCHANGED <<vmm, idle, refilling, closed, caller, victims, lost>>

SpawnSpare(g) ==
  /\ refill[g].pc = "spawn"
  /\ \/ /\ \E v \in Vmms : /\ StartProcess(v)
                           /\ refill' = [refill EXCEPT ![g] = [pc |-> "boot", vmm |-> v]]
        /\ UNCHANGED lost
     \/ /\ SpawnFails
        /\ refill' = [refill EXCEPT ![g].pc = "end"]
        /\ lost' = TRUE
        /\ UNCHANGED vmm
  /\ UNCHANGED <<idle, refilling, closed, caller, victims>>

SpareBooted(g) ==
  /\ refill[g].pc = "boot"
  /\ \/ /\ Answers(refill[g].vmm)
        /\ refill' = [refill EXCEPT ![g].pc = "add"]
        /\ UNCHANGED lost
     \/ /\ TimesOut(refill[g].vmm)
        /\ refill' = [refill EXCEPT ![g] = [pc |-> "end", vmm |-> NoVmm]]
        /\ lost' = TRUE
  /\ UNCHANGED <<idle, refilling, closed, caller, victims>>

\* Faulty: the pool is not asked whether it closed in the meantime.
AddAlways(g) ==
  /\ refill[g].pc = "add"
  /\ idle' = idle \cup {refill[g].vmm}
  /\ refill' = [refill EXCEPT ![g] = [pc |-> "check", vmm |-> NoVmm]]
  /\ UNCHANGED <<vmm, refilling, closed, caller, victims, lost>>

AddSpare(g) ==
  /\ refill[g].pc = "add"
  /\ \/ /\ closed
        /\ refill' = [refill EXCEPT ![g].pc = "kill"]
        /\ UNCHANGED idle
     \/ /\ ~closed
        /\ idle' = idle \cup {refill[g].vmm}
        /\ refill' = [refill EXCEPT ![g] = [pc |-> "check", vmm |-> NoVmm]]
  /\ UNCHANGED <<vmm, refilling, closed, caller, victims, lost>>

\* Faulty: the spare that came too late is dropped.
DropSpare(g) ==
  /\ refill[g].pc = "kill"
  /\ refill' = [refill EXCEPT ![g] = [pc |-> "end", vmm |-> NoVmm]]
  /\ UNCHANGED <<vmm, idle, refilling, closed, caller, victims, lost>>

KillSpare(g) ==
  /\ refill[g].pc = "kill"
  /\ Kill(refill[g].vmm)
  /\ refill' = [refill EXCEPT ![g] = [pc |-> "end", vmm |-> NoVmm]]
  /\ UNCHANGED <<idle, refilling, closed, caller, victims, lost>>

\* The deferred reset, in a critical section of its own.
EndRefill(g) ==
  /\ refill[g].pc = "end"
  /\ refilling' = FALSE
  /\ refill' = [refill EXCEPT ![g] = Off]
  /\ UNCHANGED <<vmm, idle, closed, caller, victims, lost>>

-----------------------------------------------------------------------------
(* close *)

\* Faulty: the spares are killed but stay in the pool.
CloseKeepingIdle ==
  /\ closed' = TRUE
  /\ victims' = victims \cup idle
  /\ UNCHANGED <<vmm, idle, refilling, caller, refill, lost>>

Close ==
  /\ closed' = TRUE
  /\ victims' = victims \cup idle
  /\ idle' = {}
  /\ UNCHANGED <<vmm, refilling, caller, refill, lost>>

KillVictim ==
  /\ \E v \in victims : Kill(v) /\ victims' = victims \ {v}
  /\ UNCHANGED <<idle, refilling, closed, caller, refill, lost>>

-----------------------------------------------------------------------------
CallerStep(c) == KickRefill(c) \/ Spawn(c) \/ Booted(c)

RefillStep(g) == \/ CheckNeed(g) \/ SpawnSpare(g) \/ SpareBooted(g)
                 \/ AddSpare(g) \/ KillSpare(g) \/ EndRefill(g)

Next == \/ \E c \in Callers : Get(c) \/ GetInNetns(c) \/ CallerStep(c) \/ Release(c)
        \/ \E g \in Refills : RefillStep(g)
        \/ \E v \in Vmms : VmmHangs(v)
        \/ Warm \/ Close \/ KillVictim

Spec == Init /\ [][Next]_vars

\* The goroutine boots a VMM that hangs, and is not released by anything it does.
HungCaller(c) == caller[c].pc = "boot" /\ vmm[caller[c].vmm] = "hung"
HungRefill(g) == refill[g].pc = "boot" /\ vmm[refill[g].vmm] = "hung"

\* A goroutine inside get, the refill or close goes on: a boot ends with a ping
\* or with bootWait, unless the VMM hangs.  Nobody has to create, stop or close
\* anything.
Fairness == /\ \A c \in Callers : WF_vars(~HungCaller(c) /\ CallerStep(c))
            /\ \A g \in Refills : WF_vars(~HungRefill(g) /\ RefillStep(g))
            /\ WF_vars(KillVictim)

FairSpec == Spec /\ Fairness

-----------------------------------------------------------------------------
(* Properties *)

Busy(g) == refill[g].pc # "off"

\* The VMM is in the hands of a caller, a refill goroutine, the pool or close.
CallerHas(c, v) == caller[c].vmm = v
RefillHas(g, v) == refill[g].vmm = v

\* No VMM is ever in two hands: two sandboxes never share one, and close and
\* the refill goroutine never kill one that was handed out. (pool.go get, close)
ExclusiveVmm ==
  \A v \in Vmms :
    /\ \A c, d \in Callers : CallerHas(c, v) /\ CallerHas(d, v) => c = d
    /\ \A g, h \in Refills : RefillHas(g, v) /\ RefillHas(h, v) => g = h
    /\ \A c \in Callers, g \in Refills : ~(CallerHas(c, v) /\ RefillHas(g, v))
    /\ v \in idle \cup victims =>
         /\ \A c \in Callers : ~CallerHas(c, v)
         /\ \A g \in Refills : ~RefillHas(g, v)
    /\ ~(v \in idle /\ v \in victims)

\* What get hands out has answered vmm.ping, whether it was pooled or spawned.
HandedOutReady ==
  /\ \A v \in idle : vmm[v] = "ready"
  /\ \A c \in Callers : caller[c].pc = "using" => vmm[caller[c].vmm] = "ready"

\* A running VMM process always has somebody who will use or kill it.
NoLeakedVmm ==
  \A v \in Vmms :
    vmm[v] \in {"booting", "hung", "ready"} =>
      \/ v \in idle \cup victims
      \/ \E c \in Callers : CallerHas(c, v)
      \/ \E g \in Refills : RefillHas(g, v)

\* The pool never holds more spares than its target: a get between the check
\* of need and the append can only lower the count, and no second refill
\* goroutine adds to it. (pool.go kickRefill)
IdleWithinTarget == Cardinality(idle) <= Target

\* How far a VMM is for the driver: whose hands it is in says so, and the state
\* of its process only for one that nobody else has yet.
Holds(c) == IF caller[c].pc \in {"kick", "using"} THEN caller[c].vmm ELSE NoVmm

Doomed(v) == v \in victims \/ \E g \in Refills : refill[g].pc = "kill" /\ RefillHas(g, v)

Life(v) ==
  IF v \in idle THEN "spare"
  ELSE IF Doomed(v) THEN "doomed"
  ELSE IF \E c \in Callers : Holds(c) = v THEN "used"
  ELSE IF vmm[v] \in {"none", "stray"} THEN "gone"
  ELSE "starting"

Supply == INSTANCE VmmSupply WITH
            Users <- Callers,
            life <- [v \in Vmms |-> Life(v)],
            holds <- [c \in Callers |-> Holds(c)]

\* Whatever get, the refill goroutine and close do to each other, the driver sees
\* a VmmSupply: a VMM is kept or handed out once, the pool never grows over its
\* target, and close is final. (pool.go, all of it)
ImplementsSupply == Supply!Spec

\* Once the pool is closed, every VMM that no sandbox owns is killed, the spare
\* a refill goroutine was booting at that moment included, unless that one hangs:
\* then the goroutine waits for its ping for ever. (pool.go kickRefill, close)
CloseReapsSpares ==
  closed ~> \A v \in Vmms :
              /\ v \notin idle \cup victims
              /\ \A g \in Refills : RefillHas(g, v) => HungRefill(g)

\* "Either way a background refill is kicked" (pool.go:44-45) and the refill
\* "tops the pool up to target" (pool.go:60): every get is followed by a full
\* pool, unless the pool closes or a spawn fails.
GetIsFollowedByRefill ==
  \A c \in Callers :
    caller[c].pc = "kick" ~> Cardinality(idle) = Target \/ closed \/ lost
=============================================================================
