---------------------------- MODULE VmmPool_proofs -----------------------------
(***************************************************************************)
(* Proofs about VmmPool, for any number of VMMs, callers and refill        *)
(* goroutines and any target.                                              *)
(*                                                                         *)
(* OwnInv ties the state of a VMM process to whoever holds it at each      *)
(* program point; with it a VMM has one owner, and as long as it runs it   *)
(* has one.  CountInv says that one refill goroutine at most is at work    *)
(* and that, between its check and its append, the pool is below target.   *)
(***************************************************************************)
EXTENDS VmmPool, FiniteSetTheorems, TLAPS

CallerRec == [pc : {"out", "kick", "spawn", "boot", "using"}, vmm : VmmOrNone]

RefillRec == [pc : {"off", "check", "spawn", "boot", "add", "kill", "end"}, vmm : VmmOrNone]

\* Who holds a VMM at which point of get and of the refill loop.
CallerKnown(q) ==
  /\ q.pc \in {"out", "spawn"} => q.vmm = NoVmm
  /\ q.pc \in {"boot", "using"} => q.vmm \in Vmms

RefillKnown(q) ==
  /\ q.pc \in {"off", "check", "spawn", "end"} => q.vmm = NoVmm
  /\ q.pc \in {"boot", "add", "kill"} => q.vmm \in Vmms

CallersOK == caller \in [Callers -> CallerRec] /\ \A c \in Callers : CallerKnown(caller[c])

RefillsOK == refill \in [Refills -> RefillRec] /\ \A g \in Refills : RefillKnown(refill[g])

TypeInv == TypeOK /\ CallersOK /\ RefillsOK

-----------------------------------------------------------------------------
(* Type correctness *)

\* A goroutine moves on when its record is replaced by one that makes sense.
LEMMA CallerMoves ==
  ASSUME CallersOK, NEW c \in Callers, NEW n \in CallerRec, CallerKnown(n),
         caller' = [caller EXCEPT ![c] = n]
  PROVE  CallersOK'
BY DEF CallersOK

\* The same for the refill goroutines.
LEMMA RefillMoves ==
  ASSUME RefillsOK, NEW g \in Refills, NEW n \in RefillRec, RefillKnown(n),
         refill' = [refill EXCEPT ![g] = n]
  PROVE  RefillsOK'
BY DEF RefillsOK

\* So it does when it goes to a point that suits what it holds.
LEMMA CallerGoes ==
  ASSUME CallersOK, NEW c \in Callers, NEW pc \in {"out", "kick", "spawn", "boot", "using"},
         CallerKnown([pc |-> pc, vmm |-> caller[c].vmm]),
         caller' = [caller EXCEPT ![c].pc = pc]
  PROVE  CallersOK'
<1> DEFINE n == [caller[c] EXCEPT !.pc = pc]
<1>1. n \in CallerRec /\ n = [pc |-> pc, vmm |-> caller[c].vmm]
  BY DEF CallersOK, CallerRec
<1> QED
  BY <1>1, CallerMoves

\* The same for the refill goroutines.
LEMMA RefillGoes ==
  ASSUME RefillsOK, NEW g \in Refills,
         NEW pc \in {"off", "check", "spawn", "boot", "add", "kill", "end"},
         RefillKnown([pc |-> pc, vmm |-> refill[g].vmm]),
         refill' = [refill EXCEPT ![g].pc = pc]
  PROVE  RefillsOK'
<1> DEFINE n == [refill[g] EXCEPT !.pc = pc]
<1>1. n \in RefillRec /\ n = [pc |-> pc, vmm |-> refill[g].vmm]
  BY DEF RefillsOK, RefillRec
<1> QED
  BY <1>1, RefillMoves

\* The records that hold a given VMM, and those that hold none.
LEMMA Records ==
  /\ Out \in CallerRec /\ CallerKnown(Out)
  /\ Off \in RefillRec /\ RefillKnown(Off)
  /\ [pc |-> "end", vmm |-> NoVmm] \in RefillRec
  /\ RefillKnown([pc |-> "end", vmm |-> NoVmm])
  /\ [pc |-> "check", vmm |-> NoVmm] \in RefillRec
  /\ RefillKnown([pc |-> "check", vmm |-> NoVmm])
  /\ \A v \in Vmms : /\ [pc |-> "kick", vmm |-> v] \in CallerRec
                     /\ CallerKnown([pc |-> "kick", vmm |-> v])
                     /\ [pc |-> "boot", vmm |-> v] \in CallerRec
                     /\ CallerKnown([pc |-> "boot", vmm |-> v])
                     /\ [pc |-> "boot", vmm |-> v] \in RefillRec
                     /\ RefillKnown([pc |-> "boot", vmm |-> v])
BY DEF Out, Off, CallerRec, CallerKnown, RefillRec, RefillKnown, VmmOrNone

\* Every step of the pool keeps the types. (pool.go)
LEMMA TypeStep == TypeInv /\ [Next]_vars => TypeInv'
<1> SUFFICES ASSUME TypeInv, [Next]_vars PROVE TypeInv'
  OBVIOUS
<1> DEFINE States == {"none", "booting", "hung", "ready", "stray"}
<1>t. /\ vmm \in [Vmms -> States] /\ idle \subseteq Vmms /\ victims \subseteq Vmms
      /\ refilling \in BOOLEAN /\ closed \in BOOLEAN /\ lost \in BOOLEAN
      /\ CallersOK /\ RefillsOK
  BY DEF TypeInv, TypeOK
<1>i. ASSUME vmm' \in [Vmms -> States], idle' \subseteq Vmms, victims' \subseteq Vmms,
             refilling' \in BOOLEAN, closed' \in BOOLEAN, lost' \in BOOLEAN,
             CallersOK', RefillsOK'
      PROVE  TypeInv'
  BY <1>i DEF TypeInv, TypeOK, CallersOK, RefillsOK, CallerRec, RefillRec
<1>k. /\ \A c \in Callers : CallerKnown(caller[c]) /\ caller[c].vmm \in VmmOrNone
      /\ \A g \in Refills : RefillKnown(refill[g]) /\ refill[g].vmm \in VmmOrNone
  BY <1>t DEF CallersOK, RefillsOK, CallerRec, RefillRec
<1>c. UNCHANGED caller => CallersOK'
  BY <1>t DEF CallersOK
<1>r. UNCHANGED refill => RefillsOK'
  BY <1>t DEF RefillsOK
<1>v. \A v \in Vmms : Kill(v) \/ Answers(v) \/ TimesOut(v) \/ StartProcess(v) =>
        vmm' \in [Vmms -> States]
  BY <1>t DEF Kill, Answers, TimesOut, StartProcess
<1>1. ASSUME Kick
      PROVE  refilling' \in BOOLEAN /\ RefillsOK'
  <2>1. ASSUME NEW g \in Refills, refill[g].pc = "off",
               refill' = [refill EXCEPT ![g].pc = "check"]
        PROVE  RefillsOK'
    BY <1>k, <1>t, <2>1, RefillGoes DEF RefillKnown
  <2> QED
    BY <1>1, <1>r, <1>t, <2>1 DEF Kick
<1>2. ASSUME NEW c \in Callers, Get(c) PROVE TypeInv'
  <2>1. CallersOK' /\ idle' \subseteq Vmms
    <3>1. ASSUME NEW v \in idle, idle' = idle \ {v},
                 caller' = [caller EXCEPT ![c] = [pc |-> "kick", vmm |-> v]]
          PROVE  CallersOK' /\ idle' \subseteq Vmms
      BY <1>t, <3>1, CallerMoves, Records
    <3>2. CASE caller' = [caller EXCEPT ![c].pc = "kick"] /\ UNCHANGED idle
      BY <1>t, <3>2, CallerGoes DEF CallerKnown
    <3> QED
      BY <1>2, <3>1, <3>2 DEF Get
  <2> QED
    BY <1>2, <1>i, <1>r, <1>t, <2>1 DEF Get
<1>3. ASSUME NEW c \in Callers, GetInNetns(c) PROVE TypeInv'
  <2>1. CallersOK'
    BY <1>3, <1>k, <1>t, CallerGoes DEF GetInNetns, CallerKnown
  <2> QED
    BY <1>3, <1>i, <1>r, <1>t, <2>1 DEF GetInNetns
<1>4. ASSUME NEW c \in Callers, KickRefill(c) PROVE TypeInv'
  <2>1. CASE caller[c].vmm = NoVmm
    <3>1. CallersOK'
      BY <1>4, <1>t, <2>1, CallerGoes DEF KickRefill, CallerKnown
    <3> QED
      BY <1>1, <1>4, <1>i, <1>t, <3>1 DEF KickRefill
  <2>2. CASE caller[c].vmm # NoVmm
    <3>1. CallersOK'
      BY <1>4, <1>k, <1>t, <2>2, CallerGoes DEF KickRefill, CallerKnown, VmmOrNone
    <3> QED
      BY <1>1, <1>4, <1>i, <1>t, <3>1 DEF KickRefill
  <2> QED
    BY <2>1, <2>2
<1>5. ASSUME NEW c \in Callers, Spawn(c) PROVE TypeInv'
  <2>1. CallersOK' /\ vmm' \in [Vmms -> States]
    BY <1>5, <1>t, <1>v, CallerMoves, Records DEF Spawn
  <2> QED
    BY <1>5, <1>i, <1>r, <1>t, <2>1 DEF Spawn
<1>6. ASSUME NEW c \in Callers, Booted(c) PROVE TypeInv'
  <2>1. caller[c].vmm \in Vmms
    BY <1>6, <1>k DEF Booted, CallerKnown
  <2>2. CallersOK'
    BY <1>6, <1>t, <2>1, CallerGoes, CallerMoves, Records DEF Booted, CallerKnown
  <2>3. vmm' \in [Vmms -> States]
    BY <1>6, <1>v, <2>1 DEF Booted
  <2> QED
    BY <1>6, <1>i, <1>r, <1>t, <2>2, <2>3 DEF Booted
<1>7. ASSUME NEW c \in Callers, Release(c) PROVE TypeInv'
  <2>1. caller[c].vmm \in Vmms
    BY <1>7, <1>k DEF Release, CallerKnown
  <2>2. CallersOK' /\ vmm' \in [Vmms -> States]
    BY <1>7, <1>t, <1>v, <2>1, CallerMoves, Records DEF Release
  <2> QED
    BY <1>7, <1>i, <1>r, <1>t, <2>2 DEF Release
<1>8. ASSUME NEW g \in Refills, CheckNeed(g) PROVE TypeInv'
  <2>1. \E pc \in {"end", "spawn"} : refill' = [refill EXCEPT ![g].pc = pc]
    BY <1>8 DEF CheckNeed
  <2>2. RefillsOK'
    BY <1>8, <1>k, <1>t, <2>1, RefillGoes DEF CheckNeed, RefillKnown
  <2> QED
    BY <1>8, <1>c, <1>i, <1>t, <2>2 DEF CheckNeed
<1>9. ASSUME NEW g \in Refills, SpawnSpare(g) PROVE TypeInv'
  <2>1. CASE \E v \in Vmms : StartProcess(v) /\ refill' = [refill EXCEPT ![g] = [pc |-> "boot", vmm |-> v]]
    <3>1. RefillsOK' /\ vmm' \in [Vmms -> States]
      BY <1>t, <1>v, <2>1, RefillMoves, Records
    <3> QED
      BY <1>9, <1>c, <1>i, <1>t, <3>1 DEF SpawnSpare
  <2>2. CASE refill' = [refill EXCEPT ![g].pc = "end"] /\ UNCHANGED vmm
    <3>1. RefillsOK'
      BY <1>9, <1>k, <1>t, <2>2, RefillGoes DEF SpawnSpare, RefillKnown
    <3> QED
      BY <1>9, <1>c, <1>i, <1>t, <2>2, <3>1 DEF SpawnSpare
  <2> QED
    BY <1>9, <2>1, <2>2 DEF SpawnSpare
<1>10. ASSUME NEW g \in Refills, SpareBooted(g) PROVE TypeInv'
  <2>1. refill[g].vmm \in Vmms
    BY <1>10, <1>k DEF SpareBooted, RefillKnown
  <2>2. RefillsOK'
    BY <1>10, <1>t, <2>1, RefillGoes, RefillMoves, Records DEF SpareBooted, RefillKnown
  <2>3. vmm' \in [Vmms -> States]
    BY <1>10, <1>v, <2>1 DEF SpareBooted
  <2> QED
    BY <1>10, <1>c, <1>i, <1>t, <2>2, <2>3 DEF SpareBooted
<1>11. ASSUME NEW g \in Refills, AddSpare(g) PROVE TypeInv'
  <2>1. refill[g].vmm \in Vmms
    BY <1>11, <1>k DEF AddSpare, RefillKnown
  <2>2. RefillsOK' /\ idle' \subseteq Vmms
    BY <1>11, <1>t, <2>1, RefillGoes, RefillMoves, Records DEF AddSpare, RefillKnown
  <2> QED
    BY <1>11, <1>c, <1>i, <1>t, <2>2 DEF AddSpare
<1>12. ASSUME NEW g \in Refills, KillSpare(g) PROVE TypeInv'
  <2>1. refill[g].vmm \in Vmms
    BY <1>12, <1>k DEF KillSpare, RefillKnown
  <2>2. RefillsOK' /\ vmm' \in [Vmms -> States]
    BY <1>12, <1>t, <1>v, <2>1, RefillMoves, Records DEF KillSpare
  <2> QED
    BY <1>12, <1>c, <1>i, <1>t, <2>2 DEF KillSpare
<1>13. ASSUME NEW g \in Refills, EndRefill(g) PROVE TypeInv'
  <2>1. RefillsOK'
    BY <1>13, <1>t, RefillMoves, Records DEF EndRefill
  <2> QED
    BY <1>13, <1>c, <1>i, <1>t, <2>1 DEF EndRefill
<1>14. CASE Warm
  BY <1>1, <1>14, <1>c, <1>i, <1>t DEF Warm
<1>15. CASE Close
  BY <1>15, <1>c, <1>i, <1>r, <1>t DEF Close
<1>16. CASE KillVictim
  BY <1>16, <1>c, <1>i, <1>r, <1>t, <1>v DEF KillVictim
<1>17. CASE UNCHANGED vars
  BY <1>17, <1>c, <1>i, <1>r, <1>t DEF vars
<1>18. ASSUME NEW v \in Vmms, VmmHangs(v) PROVE TypeInv'
  BY <1>18, <1>c, <1>i, <1>r, <1>t DEF VmmHangs
<1> QED
  BY <1>2, <1>3, <1>4, <1>5, <1>6, <1>7, <1>8, <1>9, <1>10, <1>11, <1>12, <1>13,
     <1>14, <1>15, <1>16, <1>17, <1>18 DEF Next, CallerStep, RefillStep

\* The pool starts empty and well-typed. (pool.go newVMMPool)
LEMMA TypeInit == Init => TypeInv
<1> SUFFICES ASSUME Init PROVE TypeInv
  OBVIOUS
<1>1. CallersOK /\ RefillsOK
  BY Records DEF Init, CallersOK, RefillsOK
<1> QED
  BY <1>1 DEF Init, TypeInv, TypeOK, CallersOK, RefillsOK, CallerRec, RefillRec

\* The variables always have their types, and every goroutine holds a VMM
\* exactly at the points of get and of the refill loop that say so. (pool.go)
THEOREM TypeCorrect == Spec => [](TypeOK /\ CallersOK /\ RefillsOK)
<1> QED
  BY TypeInit, TypeStep, PTL DEF Spec, TypeInv

-----------------------------------------------------------------------------
(* Ownership *)

\* The process a goroutine holds is in the state its point of code implies, and
\* what is in the pool or waits for close to kill it has answered its ping.
HandsReady ==
  /\ \A c \in Callers :
       /\ caller[c].pc = "boot" => vmm[caller[c].vmm] \in {"booting", "hung"}
       /\ caller[c].pc \in {"kick", "using"} /\ caller[c].vmm \in Vmms =>
            vmm[caller[c].vmm] = "ready"
  /\ \A g \in Refills :
       /\ refill[g].pc = "boot" => vmm[refill[g].vmm] \in {"booting", "hung"}
       /\ refill[g].pc \in {"add", "kill"} => vmm[refill[g].vmm] = "ready"
  /\ \A v \in idle \cup victims : vmm[v] = "ready"

OwnInv == HandsReady /\ ExclusiveVmm /\ NoLeakedVmm

\* Every step keeps the bond between a VMM and its one owner. (pool.go)
LEMMA OwnStep ==
  ASSUME TypeInv, TypeInv', OwnInv, [Next]_vars
  PROVE  OwnInv'
<1>t. /\ vmm \in [Vmms -> {"none", "booting", "hung", "ready", "stray"}]
      /\ idle \subseteq Vmms /\ victims \subseteq Vmms /\ NoVmm \notin Vmms
      /\ caller \in [Callers -> CallerRec]
      /\ refill \in [Refills -> RefillRec]
  BY ConstantsAssumption DEF TypeInv, TypeOK, CallersOK, RefillsOK
<1>k. /\ \A c \in Callers : CallerKnown(caller[c]) /\ caller[c].vmm \in VmmOrNone
      /\ \A g \in Refills : RefillKnown(refill[g]) /\ refill[g].vmm \in VmmOrNone
  BY DEF TypeInv, CallersOK, RefillsOK, CallerRec, RefillRec
<1> USE DEF OwnInv
\* Nobody holds a process that does not exist.
<1>h. ASSUME NEW v \in Vmms, vmm[v] = "none"
      PROVE  /\ v \notin idle \cup victims
             /\ \A c \in Callers : caller[c].vmm # v
             /\ \A g \in Refills : refill[g].vmm # v
  <2>1. v \notin idle \cup victims
    BY <1>h DEF HandsReady
  <2>2. ASSUME NEW c \in Callers, caller[c].vmm = v PROVE FALSE
    BY <1>h, <1>k, <1>t, <2>2 DEF HandsReady, CallerKnown, CallerRec
  <2>3. ASSUME NEW g \in Refills, refill[g].vmm = v PROVE FALSE
    BY <1>h, <1>k, <1>t, <2>3 DEF HandsReady, RefillKnown, RefillRec
  <2> QED
    BY <2>1, <2>2, <2>3
\* The goroutine that a kick starts holds nothing.
<1>1. ASSUME Kick
      PROVE  \A g \in Refills :
               \/ refill'[g] = refill[g]
               \/ /\ refill[g].vmm = NoVmm
                  /\ refill'[g].vmm = NoVmm
                  /\ refill'[g].pc = "check"
  <2>1. CASE UNCHANGED refill
    BY <2>1
  <2>2. ASSUME NEW g \in Refills, refill[g].pc = "off",
               refill' = [refill EXCEPT ![g].pc = "check"]
        PROVE  /\ refill[g].vmm = NoVmm
               /\ refill'[g].vmm = NoVmm /\ refill'[g].pc = "check"
               /\ \A h \in Refills : h # g => refill'[h] = refill[h]
    BY <1>t, <1>k, <2>2 DEF RefillKnown, RefillRec
  <2> QED
    BY <1>1, <2>1, <2>2 DEF Kick
<1>2. ASSUME NEW c \in Callers, Get(c) PROVE OwnInv'
  <2>0. /\ caller[c].pc = "out" /\ caller[c].vmm = NoVmm
        /\ UNCHANGED <<vmm, victims, refill>>
        /\ \A d \in Callers : d # c => caller'[d] = caller[d]
        /\ caller'[c].pc = "kick"
        /\ \/ caller'[c].vmm = NoVmm /\ UNCHANGED idle
           \/ caller'[c].vmm \in idle /\ idle' = idle \ {caller'[c].vmm}
    BY <1>2, <1>t, <1>k DEF Get, CallerKnown, CallerRec
  <2>1. HandsReady'
    BY <1>t, <2>0 DEF HandsReady
  <2>2. ExclusiveVmm'
    BY <1>t, <2>0 DEF ExclusiveVmm, CallerHas, RefillHas
  <2>3. NoLeakedVmm'
    BY <1>t, <2>0 DEF NoLeakedVmm, CallerHas, RefillHas
  <2> QED
    BY <2>1, <2>2, <2>3
<1>3. ASSUME NEW c \in Callers, GetInNetns(c) PROVE OwnInv'
  <2>0. /\ UNCHANGED <<vmm, idle, victims, refill>>
        /\ \A d \in Callers : d # c => caller'[d] = caller[d]
        /\ caller'[c].pc = "spawn"
        /\ caller[c].vmm = NoVmm /\ caller'[c].vmm = NoVmm
    BY <1>3, <1>t, <1>k DEF GetInNetns, CallerKnown, CallerRec
  <2>1. HandsReady'
    BY <1>t, <2>0 DEF HandsReady
  <2>2. ExclusiveVmm'
    BY <1>t, <2>0 DEF ExclusiveVmm, CallerHas, RefillHas
  <2>3. NoLeakedVmm'
    BY <1>t, <2>0 DEF NoLeakedVmm, CallerHas, RefillHas
  <2> QED
    BY <2>1, <2>2, <2>3
<1>4. ASSUME NEW c \in Callers, KickRefill(c) PROVE OwnInv'
  <2>0. /\ UNCHANGED <<vmm, idle, victims>>
        /\ Kick
        /\ \A d \in Callers : d # c => caller'[d] = caller[d]
        /\ caller[c].pc = "kick" /\ caller'[c].pc \in {"spawn", "using"}
        /\ caller'[c].vmm = caller[c].vmm
    BY <1>4, <1>t DEF KickRefill, CallerRec
  <2>1. HandsReady'
    BY <1>1, <1>t, <2>0 DEF HandsReady
  <2>2. ExclusiveVmm'
    BY <1>1, <1>t, <2>0 DEF ExclusiveVmm, CallerHas, RefillHas
  <2>3. NoLeakedVmm'
    BY <1>1, <1>t, <2>0 DEF NoLeakedVmm, CallerHas, RefillHas
  <2> QED
    BY <2>1, <2>2, <2>3
<1>5. ASSUME NEW c \in Callers, Spawn(c) PROVE OwnInv'
  <2>1. /\ UNCHANGED <<idle, victims, refill>>
        /\ \A d \in Callers : d # c => caller'[d] = caller[d]
        /\ caller[c].vmm = NoVmm
    BY <1>5, <1>t, <1>k DEF Spawn, CallerKnown
  <2>2. CASE /\ UNCHANGED vmm
             /\ caller'[c].pc = "out" /\ caller'[c].vmm = NoVmm
    <3>1. HandsReady'
      BY <1>t, <2>1, <2>2 DEF HandsReady
    <3>2. ExclusiveVmm'
      BY <1>t, <2>1, <2>2 DEF ExclusiveVmm, CallerHas, RefillHas
    <3>3. NoLeakedVmm'
      BY <1>t, <2>1, <2>2 DEF NoLeakedVmm, CallerHas, RefillHas
    <3> QED
      BY <3>1, <3>2, <3>3
  <2>3. ASSUME NEW v \in Vmms, vmm[v] = "none", vmm' = [vmm EXCEPT ![v] = "booting"],
               caller' = [caller EXCEPT ![c] = [pc |-> "boot", vmm |-> v]]
        PROVE  OwnInv'
    <3>0. /\ caller'[c].pc = "boot" /\ caller'[c].vmm = v
          /\ vmm'[v] = "booting" /\ \A w \in Vmms : w # v => vmm'[w] = vmm[w]
      BY <1>t, <2>3
    <3>1. /\ v \notin idle \cup victims
          /\ \A d \in Callers : caller[d].vmm # v
          /\ \A g \in Refills : refill[g].vmm # v
      BY <1>h, <2>3
    <3>2. HandsReady'
      BY <1>t, <1>k, <2>1, <3>0, <3>1 DEF HandsReady, CallerKnown, RefillKnown
    <3>3. ExclusiveVmm'
      BY <1>t, <2>1, <3>0, <3>1 DEF ExclusiveVmm, CallerHas, RefillHas
    <3>4. NoLeakedVmm'
      BY <1>t, <2>1, <3>0, <3>1 DEF NoLeakedVmm, CallerHas, RefillHas
    <3> QED
      BY <3>2, <3>3, <3>4
  <2> QED
    <3>1. \/ UNCHANGED vmm /\ caller' = [caller EXCEPT ![c] = Out]
          \/ \E v \in Vmms : /\ vmm[v] = "none" /\ vmm' = [vmm EXCEPT ![v] = "booting"]
                            /\ caller' = [caller EXCEPT ![c] = [pc |-> "boot", vmm |-> v]]
      BY <1>5 DEF Spawn, StartProcess
    <3>2. UNCHANGED vmm /\ caller' = [caller EXCEPT ![c] = Out] => caller'[c].pc = "out" /\ caller'[c].vmm = NoVmm
      BY <1>t, <2>1 DEF Out, CallerRec, RefillRec
    <3> QED
      BY <2>2, <2>3, <3>1, <3>2
<1>6. ASSUME NEW c \in Callers, Booted(c) PROVE OwnInv'
  <2>0. /\ UNCHANGED <<idle, victims, refill>>
        /\ \A d \in Callers : d # c => caller'[d] = caller[d]
        /\ caller[c].pc = "boot" /\ caller[c].vmm \in Vmms
        /\ \/ /\ caller'[c].pc = "using" /\ caller'[c].vmm = caller[c].vmm
              /\ vmm' = [vmm EXCEPT ![caller[c].vmm] = "ready"]
           \/ /\ caller'[c].pc = "out" /\ caller'[c].vmm = NoVmm
              /\ vmm' = [vmm EXCEPT ![caller[c].vmm] = "stray"]
    BY <1>6, <1>t, <1>k DEF Booted, Answers, TimesOut, Out, CallerKnown, CallerRec
  <2>1. HandsReady'
    BY <1>k, <1>t, <2>0 DEF HandsReady, ExclusiveVmm, CallerHas, RefillHas, CallerKnown, RefillKnown
  <2>2. ExclusiveVmm'
    BY <1>k, <1>t, <2>0 DEF ExclusiveVmm, CallerHas, RefillHas
  <2>3. NoLeakedVmm'
    BY <1>k, <1>t, <2>0 DEF NoLeakedVmm, CallerHas, RefillHas
  <2> QED
    BY <2>1, <2>2, <2>3
<1>7. ASSUME NEW c \in Callers, Release(c) PROVE OwnInv'
  <2>0. /\ UNCHANGED <<idle, victims, refill>>
        /\ \A d \in Callers : d # c => caller'[d] = caller[d]
        /\ caller[c].vmm \in Vmms
        /\ caller'[c].pc = "out" /\ caller'[c].vmm = NoVmm
        /\ vmm' = [vmm EXCEPT ![caller[c].vmm] = "none"]
    BY <1>7, <1>t, <1>k DEF Release, Kill, Out, CallerKnown
  <2>1. HandsReady'
    BY <1>k, <1>t, <2>0 DEF HandsReady, ExclusiveVmm, CallerHas, RefillHas, CallerKnown, RefillKnown
  <2>2. ExclusiveVmm'
    BY <1>k, <1>t, <2>0 DEF ExclusiveVmm, CallerHas, RefillHas
  <2>3. NoLeakedVmm'
    BY <1>k, <1>t, <2>0 DEF NoLeakedVmm, CallerHas, RefillHas
  <2> QED
    BY <2>1, <2>2, <2>3
<1>8. ASSUME NEW g \in Refills, CheckNeed(g) PROVE OwnInv'
  <2>0. /\ UNCHANGED <<vmm, idle, victims, caller>>
        /\ \A h \in Refills : h # g => refill'[h] = refill[h]
        /\ refill'[g].pc \in {"end", "spawn"} /\ refill'[g].vmm = refill[g].vmm
    BY <1>8, <1>t DEF CheckNeed, RefillRec
  <2>1. HandsReady'
    BY <1>t, <2>0 DEF HandsReady
  <2>2. ExclusiveVmm'
    BY <1>t, <2>0 DEF ExclusiveVmm, CallerHas, RefillHas
  <2>3. NoLeakedVmm'
    BY <1>t, <2>0 DEF NoLeakedVmm, CallerHas, RefillHas
  <2> QED
    BY <2>1, <2>2, <2>3
<1>9. ASSUME NEW g \in Refills, SpawnSpare(g) PROVE OwnInv'
  <2>1. /\ UNCHANGED <<idle, victims, caller>>
        /\ \A d \in Refills : d # g => refill'[d] = refill[d]
        /\ refill[g].vmm = NoVmm
    BY <1>9, <1>t, <1>k DEF SpawnSpare, RefillKnown
  <2>2. CASE /\ UNCHANGED vmm
             /\ refill'[g].pc = "end" /\ refill'[g].vmm = NoVmm
    <3>1. HandsReady'
      BY <1>t, <2>1, <2>2 DEF HandsReady
    <3>2. ExclusiveVmm'
      BY <1>t, <2>1, <2>2 DEF ExclusiveVmm, CallerHas, RefillHas
    <3>3. NoLeakedVmm'
      BY <1>t, <2>1, <2>2 DEF NoLeakedVmm, CallerHas, RefillHas
    <3> QED
      BY <3>1, <3>2, <3>3
  <2>3. ASSUME NEW v \in Vmms, vmm[v] = "none", vmm' = [vmm EXCEPT ![v] = "booting"],
               refill' = [refill EXCEPT ![g] = [pc |-> "boot", vmm |-> v]]
        PROVE  OwnInv'
    <3>0. /\ refill'[g].pc = "boot" /\ refill'[g].vmm = v
          /\ vmm'[v] = "booting" /\ \A w \in Vmms : w # v => vmm'[w] = vmm[w]
      BY <1>t, <2>3
    <3>1. /\ v \notin idle \cup victims
          /\ \A c \in Callers : caller[c].vmm # v
          /\ \A h \in Refills : refill[h].vmm # v
      BY <1>h, <2>3
    <3>2. HandsReady'
      BY <1>t, <1>k, <2>1, <3>0, <3>1 DEF HandsReady, CallerKnown, RefillKnown
    <3>3. ExclusiveVmm'
      BY <1>t, <2>1, <3>0, <3>1 DEF ExclusiveVmm, CallerHas, RefillHas
    <3>4. NoLeakedVmm'
      BY <1>t, <2>1, <3>0, <3>1 DEF NoLeakedVmm, CallerHas, RefillHas
    <3> QED
      BY <3>2, <3>3, <3>4
  <2> QED
    <3>1. \/ UNCHANGED vmm /\ refill' = [refill EXCEPT ![g].pc = "end"]
          \/ \E v \in Vmms : /\ vmm[v] = "none" /\ vmm' = [vmm EXCEPT ![v] = "booting"]
                            /\ refill' = [refill EXCEPT ![g] = [pc |-> "boot", vmm |-> v]]
      BY <1>9 DEF SpawnSpare, StartProcess
    <3>2. UNCHANGED vmm /\ refill' = [refill EXCEPT ![g].pc = "end"] => refill'[g].pc = "end" /\ refill'[g].vmm = NoVmm
      BY <1>t, <2>1 DEF Out, CallerRec, RefillRec
    <3> QED
      BY <2>2, <2>3, <3>1, <3>2
<1>10. ASSUME NEW g \in Refills, SpareBooted(g) PROVE OwnInv'
  <2>0. /\ UNCHANGED <<idle, victims, caller>>
        /\ \A h \in Refills : h # g => refill'[h] = refill[h]
        /\ refill[g].pc = "boot" /\ refill[g].vmm \in Vmms
        /\ \/ /\ refill'[g].pc = "add" /\ refill'[g].vmm = refill[g].vmm
              /\ vmm' = [vmm EXCEPT ![refill[g].vmm] = "ready"]
           \/ /\ refill'[g].pc = "end" /\ refill'[g].vmm = NoVmm
              /\ vmm' = [vmm EXCEPT ![refill[g].vmm] = "stray"]
    BY <1>10, <1>t, <1>k DEF SpareBooted, Answers, TimesOut, RefillKnown, RefillRec
  <2>1. HandsReady'
    BY <1>k, <1>t, <2>0 DEF HandsReady, ExclusiveVmm, CallerHas, RefillHas, CallerKnown, RefillKnown
  <2>2. ExclusiveVmm'
    BY <1>k, <1>t, <2>0 DEF ExclusiveVmm, CallerHas, RefillHas
  <2>3. NoLeakedVmm'
    BY <1>k, <1>t, <2>0 DEF NoLeakedVmm, CallerHas, RefillHas
  <2> QED
    BY <2>1, <2>2, <2>3
<1>11. ASSUME NEW g \in Refills, AddSpare(g) PROVE OwnInv'
  <2>0. /\ UNCHANGED <<vmm, victims, caller>>
        /\ \A h \in Refills : h # g => refill'[h] = refill[h]
        /\ refill[g].pc = "add" /\ refill[g].vmm \in Vmms
        /\ \/ /\ refill'[g].pc = "kill" /\ refill'[g].vmm = refill[g].vmm
              /\ UNCHANGED idle
           \/ /\ refill'[g].pc = "check" /\ refill'[g].vmm = NoVmm
              /\ idle' = idle \cup {refill[g].vmm}
    BY <1>11, <1>t, <1>k DEF AddSpare, RefillKnown, RefillRec
  <2>1. HandsReady'
    BY <1>t, <2>0 DEF HandsReady
  <2>2. ExclusiveVmm'
    BY <1>t, <2>0 DEF ExclusiveVmm, CallerHas, RefillHas
  <2>3. NoLeakedVmm'
    BY <1>t, <2>0 DEF NoLeakedVmm, CallerHas, RefillHas
  <2> QED
    BY <2>1, <2>2, <2>3
<1>12. ASSUME NEW g \in Refills, KillSpare(g) PROVE OwnInv'
  <2>0. /\ UNCHANGED <<idle, victims, caller>>
        /\ \A h \in Refills : h # g => refill'[h] = refill[h]
        /\ refill[g].vmm \in Vmms
        /\ refill'[g].pc = "end" /\ refill'[g].vmm = NoVmm
        /\ vmm' = [vmm EXCEPT ![refill[g].vmm] = "none"]
    BY <1>12, <1>t, <1>k DEF KillSpare, Kill, RefillKnown
  <2>1. HandsReady'
    BY <1>k, <1>t, <2>0 DEF HandsReady, ExclusiveVmm, CallerHas, RefillHas, CallerKnown, RefillKnown
  <2>2. ExclusiveVmm'
    BY <1>k, <1>t, <2>0 DEF ExclusiveVmm, CallerHas, RefillHas
  <2>3. NoLeakedVmm'
    BY <1>k, <1>t, <2>0 DEF NoLeakedVmm, CallerHas, RefillHas
  <2> QED
    BY <2>1, <2>2, <2>3
<1>13. ASSUME NEW g \in Refills, EndRefill(g) PROVE OwnInv'
  <2>0. /\ UNCHANGED <<vmm, idle, victims, caller>>
        /\ \A h \in Refills : h # g => refill'[h] = refill[h]
        /\ refill[g].vmm = NoVmm
        /\ refill'[g].pc = "off" /\ refill'[g].vmm = NoVmm
    BY <1>13, <1>t, <1>k DEF EndRefill, Off, RefillKnown
  <2>1. HandsReady'
    BY <1>t, <2>0 DEF HandsReady
  <2>2. ExclusiveVmm'
    BY <1>t, <2>0 DEF ExclusiveVmm, CallerHas, RefillHas
  <2>3. NoLeakedVmm'
    BY <1>t, <2>0 DEF NoLeakedVmm, CallerHas, RefillHas
  <2> QED
    BY <2>1, <2>2, <2>3
<1>14. CASE Warm
  <2>0. UNCHANGED <<vmm, idle, victims, caller>> /\ Kick
    BY <1>14 DEF Warm
  <2>1. HandsReady'
    BY <1>1, <1>t, <2>0 DEF HandsReady
  <2>2. ExclusiveVmm'
    BY <1>1, <1>t, <2>0 DEF ExclusiveVmm, CallerHas, RefillHas
  <2>3. NoLeakedVmm'
    BY <1>1, <1>t, <2>0 DEF NoLeakedVmm, CallerHas, RefillHas
  <2> QED
    BY <2>1, <2>2, <2>3
<1>15. CASE Close
  <2>0. /\ UNCHANGED <<vmm, caller, refill>>
        /\ idle' = {} /\ victims' = victims \cup idle
    BY <1>15 DEF Close
  <2>1. HandsReady'
    BY <1>t, <2>0 DEF HandsReady
  <2>2. ExclusiveVmm'
    BY <1>t, <2>0 DEF ExclusiveVmm, CallerHas, RefillHas
  <2>3. NoLeakedVmm'
    BY <1>t, <2>0 DEF NoLeakedVmm, CallerHas, RefillHas
  <2> QED
    BY <2>1, <2>2, <2>3
<1>16. CASE KillVictim
  <2>0. \E v \in victims : /\ vmm' = [vmm EXCEPT ![v] = "none"]
                          /\ victims' = victims \ {v}
                          /\ UNCHANGED <<idle, caller, refill>>
    BY <1>16 DEF KillVictim, Kill
  <2>1. HandsReady'
    BY <1>k, <1>t, <2>0 DEF HandsReady, ExclusiveVmm, CallerHas, RefillHas, CallerKnown, RefillKnown
  <2>2. ExclusiveVmm'
    BY <1>k, <1>t, <2>0 DEF ExclusiveVmm, CallerHas, RefillHas
  <2>3. NoLeakedVmm'
    BY <1>k, <1>t, <2>0 DEF NoLeakedVmm, CallerHas, RefillHas
  <2> QED
    BY <2>1, <2>2, <2>3
<1>17. CASE UNCHANGED vars
  BY <1>17 DEF vars, HandsReady, ExclusiveVmm, NoLeakedVmm, CallerHas, RefillHas
<1>18. ASSUME NEW v \in Vmms, VmmHangs(v) PROVE OwnInv'
  <2>0. /\ UNCHANGED <<idle, victims, caller, refill>>
        /\ vmm[v] = "booting" /\ vmm'[v] = "hung"
        /\ \A w \in Vmms : w # v => vmm'[w] = vmm[w]
    BY <1>18, <1>t DEF VmmHangs
  <2>1. HandsReady'
    BY <1>k, <1>t, <2>0 DEF HandsReady, CallerKnown, RefillKnown
  <2>2. ExclusiveVmm'
    BY <2>0 DEF ExclusiveVmm, CallerHas, RefillHas
  <2>3. NoLeakedVmm'
    BY <2>0 DEF NoLeakedVmm, CallerHas, RefillHas
  <2> QED
    BY <2>1, <2>2, <2>3
<1> QED
  BY <1>2, <1>3, <1>4, <1>5, <1>6, <1>7, <1>8, <1>9, <1>10, <1>11, <1>12, <1>13,
     <1>14, <1>15, <1>16, <1>17, <1>18 DEF Next, CallerStep, RefillStep

\* Types and ownership together hold of every behaviour of the pool.
LEMMA OwnInvariant == Spec => [](TypeInv /\ OwnInv)
<1>1. Init => OwnInv
  <2> SUFFICES ASSUME Init PROVE OwnInv
    OBVIOUS
  <2>1. /\ \A c \in Callers : caller[c].pc = "out" /\ caller[c].vmm = NoVmm
        /\ \A g \in Refills : refill[g].pc = "off" /\ refill[g].vmm = NoVmm
        /\ \A v \in Vmms : vmm[v] = "none"
        /\ idle = {} /\ victims = {} /\ NoVmm \notin Vmms
    BY ConstantsAssumption DEF Init, Out, Off
  <2> QED
    BY <2>1 DEF OwnInv, HandsReady, ExclusiveVmm, NoLeakedVmm, CallerHas, RefillHas
<1>2. (TypeInv /\ OwnInv) /\ [Next]_vars => (TypeInv /\ OwnInv)'
  BY TypeStep, OwnStep
<1> QED
  BY <1>1, <1>2, TypeInit, PTL DEF Spec

\* A VMM is never in two hands. (pool.go get, close)
THEOREM Exclusive == Spec => []ExclusiveVmm
<1>1. OwnInv => ExclusiveVmm
  BY DEF OwnInv
<1> QED
  BY <1>1, OwnInvariant, PTL

\* A VMM process that runs is always in somebody's hands. (pool.go kickRefill, close)
THEOREM NoLeak == Spec => []NoLeakedVmm
<1>1. OwnInv => NoLeakedVmm
  BY DEF OwnInv
<1> QED
  BY <1>1, OwnInvariant, PTL

\* What get hands out has answered its ping. (pool.go get, spawnPrefixed)
THEOREM HandedOut == Spec => []HandedOutReady
<1>1. TypeInv /\ OwnInv => HandedOutReady
  BY DEF TypeInv, CallersOK, CallerKnown, OwnInv, HandsReady, HandedOutReady
<1> QED
  BY <1>1, OwnInvariant, PTL

-----------------------------------------------------------------------------
(* The size of the pool *)

\* The points of the refill loop between the check of need and the append.
Adding == {"spawn", "boot", "add"}

\* A closed pool stays empty. (pool.go close, kickRefill)
ClosedStaysEmpty == closed => idle = {}

\* One refill goroutine at most is at work, exactly while p.refilling is set,
\* and the pool it is about to add to is below target.
CountInv ==
  /\ \A g, h \in Refills : Busy(g) /\ Busy(h) => g = h
  /\ \A g \in Refills : Busy(g) => refilling
  /\ \A g \in Refills : refill[g].pc \in Adding => Cardinality(idle) < Target
  /\ IdleWithinTarget
  /\ ClosedStaysEmpty

\* Every step keeps the count of spares and of refill goroutines. (pool.go
\* kickRefill)
LEMMA CountStep ==
  ASSUME TypeInv, CountInv, [Next]_vars
  PROVE  CountInv'
<1>t. /\ refill \in [Refills -> RefillRec]
      /\ IsFiniteSet(idle)
      /\ Cardinality(idle) \in Nat
      /\ Target \in Nat
  <2>1. IsFiniteSet(idle)
    BY ConstantsAssumption, FS_Subset DEF TypeInv, TypeOK
  <2> QED
    BY <2>1, ConstantsAssumption, FS_CardinalityType DEF TypeInv, RefillsOK
<1> USE DEF CountInv, IdleWithinTarget, ClosedStaysEmpty, Busy, Adding
\* A step that touches neither p.idle nor the refill goroutine.
<1>u. ASSUME UNCHANGED <<idle, refilling, closed, refill>> PROVE CountInv'
  BY <1>u
<1>1. ASSUME Kick, UNCHANGED <<idle, closed>> PROVE CountInv'
  <2>1. CASE UNCHANGED <<refilling, refill>>
    BY <1>1, <2>1
  <2>2. CASE ~UNCHANGED <<refilling, refill>>
    <3>1. PICK g \in Refills : /\ refill[g].pc = "off"
                               /\ refill' = [refill EXCEPT ![g].pc = "check"]
      BY <1>1, <2>2 DEF Kick
    <3>2. ~refilling /\ refilling'
      BY <1>1, <2>2 DEF Kick
    <3>3. refill'[g].pc = "check" /\ \A h \in Refills : h # g => refill'[h] = refill[h]
      BY <1>t, <3>1 DEF RefillRec
    <3>4. \A h \in Refills : refill[h].pc = "off"
      BY <3>2
    <3> QED
      BY <1>1, <3>2, <3>3, <3>4
  <2> QED
    BY <2>1, <2>2
<1>2. ASSUME NEW v \in idle, idle' = idle \ {v}, UNCHANGED <<refilling, closed, refill>>
      PROVE  CountInv'
  <2>1. Cardinality(idle') = Cardinality(idle) - 1
    BY <1>2, <1>t, FS_RemoveElement
  <2> QED
    BY <1>2, <1>t, <2>1
<1>3. ASSUME NEW c \in Callers, Get(c) PROVE CountInv'
  BY <1>2, <1>3, <1>u DEF Get
\* A refill goroutine that goes on and leaves the pool alone.
<1>4. ASSUME NEW g \in Refills, UNCHANGED <<idle, refilling, closed>>,
             refill[g].pc # "off",
             \A h \in Refills : h # g => refill'[h] = refill[h],
             refill'[g].pc \in Adding =>
               refill[g].pc \in Adding \/ Cardinality(idle) < Target
      PROVE  CountInv'
  BY <1>4
<1>5. ASSUME NEW g \in Refills, CheckNeed(g) PROVE CountInv'
  <2>1. /\ refill[g].pc = "check"
        /\ \A h \in Refills : h # g => refill'[h] = refill[h]
        /\ refill'[g].pc \in Adding => Cardinality(idle) < Target
    BY <1>5, <1>t DEF CheckNeed, RefillRec
  <2> QED
    BY <1>4, <1>5, <2>1 DEF CheckNeed
<1>6. ASSUME NEW g \in Refills, SpawnSpare(g) \/ SpareBooted(g) \/ KillSpare(g)
      PROVE  CountInv'
  <2>1. /\ refill[g].pc \in {"spawn", "boot", "kill"}
        /\ \A h \in Refills : h # g => refill'[h] = refill[h]
        /\ refill[g].pc = "kill" => refill'[g].pc = "end"
    BY <1>6, <1>t DEF SpawnSpare, SpareBooted, KillSpare
  <2> QED
    BY <1>4, <1>6, <2>1 DEF SpawnSpare, SpareBooted, KillSpare
<1>7. ASSUME NEW g \in Refills, AddSpare(g) PROVE CountInv'
  <2>1. /\ refill[g].pc = "add"
        /\ \A h \in Refills : h # g => refill'[h] = refill[h]
        /\ refill'[g].pc \in {"kill", "check"}
        /\ UNCHANGED <<refilling, closed>>
    BY <1>7, <1>t DEF AddSpare, RefillRec
  <2>2. CASE UNCHANGED idle
    BY <1>4, <2>1, <2>2
  <2>3. CASE ~UNCHANGED idle
    <3>1. ~closed /\ idle' = idle \cup {refill[g].vmm}
      BY <1>7, <2>3 DEF AddSpare
    <3>2. Cardinality(idle') = Cardinality(idle) + 1
      <4>1. refill[g].vmm \notin idle
        BY <2>3, <3>1
      <4> QED
        BY <1>t, <3>1, <4>1, FS_AddElement
    <3>3. \A h \in Refills : h # g => refill[h].pc = "off"
      BY <2>1
    <3> QED
      BY <1>t, <2>1, <3>1, <3>2, <3>3
  <2> QED
    BY <2>2, <2>3
<1>8. ASSUME NEW g \in Refills, EndRefill(g) PROVE CountInv'
  <2>1. /\ refill[g].pc = "end"
        /\ refill'[g].pc = "off"
        /\ \A h \in Refills : h # g => refill'[h] = refill[h]
        /\ UNCHANGED <<idle, closed>>
    BY <1>8, <1>t DEF EndRefill, Off
  <2>2. \A h \in Refills : refill'[h].pc = "off"
    BY <2>1
  <2> QED
    BY <2>1, <2>2
<1>9. CASE Close
  <2>1. Cardinality(idle') = 0 /\ UNCHANGED <<refilling, refill>> /\ idle' = {}
    BY <1>9, FS_EmptySet DEF Close
  <2>2. \A g \in Refills : refill[g].pc \in Adding => 0 < Target
    BY <1>t
  <2> QED
    BY <1>t, <2>1, <2>2
<1>10. ASSUME NEW c \in Callers, GetInNetns(c) \/ Spawn(c) \/ Booted(c) \/ Release(c)
       PROVE  CountInv'
  BY <1>10, <1>u DEF GetInNetns, Spawn, Booted, Release
<1>11. ASSUME NEW c \in Callers, KickRefill(c) PROVE CountInv'
  BY <1>1, <1>11 DEF KickRefill
<1>12. CASE Warm
  BY <1>1, <1>12 DEF Warm
<1>13. CASE KillVictim
  BY <1>13, <1>u DEF KillVictim
<1>14. CASE UNCHANGED vars
  BY <1>14, <1>u DEF vars
<1>15. ASSUME NEW v \in Vmms, VmmHangs(v) PROVE CountInv'
  BY <1>15, <1>u DEF VmmHangs
<1> QED
  BY <1>3, <1>5, <1>6, <1>7, <1>8, <1>9, <1>10, <1>11, <1>12, <1>13, <1>14, <1>15
     DEF Next, CallerStep, RefillStep

\* The count holds of every behaviour of the pool.
LEMMA CountInvariant == Spec => []CountInv
<1>1. Init => CountInv
  <2> SUFFICES ASSUME Init PROVE CountInv
    OBVIOUS
  <2>1. \A g \in Refills : refill[g].pc = "off"
    BY DEF Init, Off
  <2>2. idle = {} /\ Cardinality(idle) = 0 /\ Target \in Nat
    BY ConstantsAssumption, FS_EmptySet DEF Init
  <2> QED
    BY <2>1, <2>2 DEF CountInv, Busy, Adding, IdleWithinTarget, ClosedStaysEmpty
<1>2. (TypeInv /\ CountInv) /\ [Next]_vars => (TypeInv /\ CountInv)'
  BY TypeStep, CountStep
<1> QED
  BY <1>1, <1>2, TypeInit, PTL DEF Spec

\* The pool never holds more spares than its target. (pool.go kickRefill)
THEOREM WithinTarget == Spec => []IdleWithinTarget
<1>1. CountInv => IdleWithinTarget
  BY DEF CountInv
<1> QED
  BY <1>1, CountInvariant, PTL

\* A closed pool stays empty. (pool.go close, kickRefill)
THEOREM StaysEmpty == Spec => []ClosedStaysEmpty
<1>1. CountInv => ClosedStaysEmpty
  BY DEF CountInv
<1> QED
  BY <1>1, CountInvariant, PTL
=============================================================================
