---------------------------- MODULE VmmSupply_proofs ----------------------------
(***************************************************************************)
(* Proof that VmmPool implements VmmSupply, for any number of VMMs, callers *)
(* and refill goroutines and any target.                                   *)
(*                                                                         *)
(* What Life says of a VMM depends on all the goroutines at once.  OwnInv   *)
(* (VmmPool_proofs) leaves a VMM one owner, so that the owner's program     *)
(* point alone decides: LifeFacts.  CountInv gives the guards of Keep and   *)
(* Doom.                                                                   *)
(***************************************************************************)
EXTENDS VmmPool_proofs

SupplyInv == TypeInv /\ OwnInv /\ CountInv

\* How far a VMM is, read off the place that has it.
LifeFacts ==
  /\ \A v \in idle : Life(v) = "spare"
  /\ \A v \in victims : Life(v) = "doomed"
  /\ \A g \in Refills :
       /\ refill[g].pc = "kill" => Life(refill[g].vmm) = "doomed"
       /\ refill[g].pc \in {"boot", "add"} => Life(refill[g].vmm) = "starting"
  /\ \A c \in Callers :
       /\ caller[c].pc = "boot" => Life(caller[c].vmm) = "starting"
       /\ caller[c].pc \in {"kick", "using"} /\ caller[c].vmm \in Vmms =>
            Life(caller[c].vmm) = "used"
  /\ \A v \in Vmms : vmm[v] \in {"none", "stray"} => Life(v) = "gone"

-----------------------------------------------------------------------------
(* Reading the mapping *)

\* One owner decides how far a VMM is. (pool.go get, kickRefill, close)
LEMMA LifeNow == SupplyInv => LifeFacts
<1> SUFFICES ASSUME SupplyInv PROVE LifeFacts
  OBVIOUS
<1>t. /\ vmm \in [Vmms -> {"none", "booting", "hung", "ready", "stray"}]
      /\ idle \subseteq Vmms /\ victims \subseteq Vmms /\ NoVmm \notin Vmms
      /\ \A c \in Callers : CallerKnown(caller[c])
      /\ \A g \in Refills : RefillKnown(refill[g])
  BY ConstantsAssumption DEF SupplyInv, TypeInv, TypeOK, CallersOK, RefillsOK
<1>o. HandsReady /\ ExclusiveVmm
  BY DEF SupplyInv, OwnInv
<1>1. \A v \in idle : Life(v) = "spare"
  BY DEF Life
<1>2. ASSUME NEW v \in victims PROVE Life(v) = "doomed"
  BY <1>t, <1>o DEF Life, Doomed, ExclusiveVmm
<1>3. ASSUME NEW g \in Refills, refill[g].pc = "kill" PROVE Life(refill[g].vmm) = "doomed"
  <2>1. refill[g].vmm \in Vmms /\ Doomed(refill[g].vmm)
    BY <1>3, <1>t DEF RefillKnown, Doomed, RefillHas
  <2>2. refill[g].vmm \notin idle
    BY <1>o, <2>1 DEF ExclusiveVmm, RefillHas
  <2> QED
    BY <2>1, <2>2 DEF Life
<1>4. ASSUME NEW g \in Refills, refill[g].pc \in {"boot", "add"}
      PROVE  Life(refill[g].vmm) = "starting"
  <2>1. PICK v \in Vmms : v = refill[g].vmm
    BY <1>4, <1>t DEF RefillKnown
  <2>2. v \notin idle /\ ~Doomed(v)
    BY <1>4, <1>o, <2>1 DEF ExclusiveVmm, RefillHas, Doomed
  <2>3. \A c \in Callers : Holds(c) # v
    BY <1>o, <1>t, <2>1 DEF ExclusiveVmm, RefillHas, CallerHas, Holds
  <2>4. vmm[v] \in {"booting", "hung", "ready"}
    BY <1>4, <1>o, <2>1 DEF HandsReady
  <2> QED
    BY <2>1, <2>2, <2>3, <2>4 DEF Life
<1>5. ASSUME NEW c \in Callers, caller[c].pc = "boot" PROVE Life(caller[c].vmm) = "starting"
  <2>1. PICK v \in Vmms : v = caller[c].vmm
    BY <1>5, <1>t DEF CallerKnown
  <2>2. v \notin idle /\ ~Doomed(v)
    BY <1>o, <2>1 DEF ExclusiveVmm, RefillHas, CallerHas, Doomed
  <2>3. \A d \in Callers : Holds(d) # v
    BY <1>5, <1>o, <1>t, <2>1 DEF ExclusiveVmm, CallerHas, Holds
  <2>4. vmm[v] \in {"booting", "hung"}
    BY <1>5, <1>o, <2>1 DEF HandsReady
  <2> QED
    BY <2>1, <2>2, <2>3, <2>4 DEF Life
<1>6. ASSUME NEW c \in Callers, caller[c].pc \in {"kick", "using"}, caller[c].vmm \in Vmms
      PROVE  Life(caller[c].vmm) = "used"
  <2>1. caller[c].vmm \notin idle /\ ~Doomed(caller[c].vmm)
    BY <1>6, <1>o DEF ExclusiveVmm, RefillHas, CallerHas, Doomed
  <2>2. Holds(c) = caller[c].vmm
    BY <1>6 DEF Holds
  <2> QED
    BY <2>1, <2>2 DEF Life
<1>7. ASSUME NEW v \in Vmms, vmm[v] \in {"none", "stray"} PROVE Life(v) = "gone"
  <2>1. v \notin idle /\ v \notin victims
    BY <1>7, <1>o DEF HandsReady
  <2>2. \A g \in Refills : ~(refill[g].pc = "kill" /\ refill[g].vmm = v)
    BY <1>7, <1>o DEF HandsReady
  <2>3. \A c \in Callers : Holds(c) # v
    BY <1>7, <1>o, <1>t DEF HandsReady, Holds
  <2> QED
    BY <1>7, <2>1, <2>2, <2>3 DEF Life, Doomed, RefillHas
<1> QED
  BY <1>1, <1>2, <1>3, <1>4, <1>5, <1>6, <1>7 DEF LifeFacts

\* The same after the step.
LEMMA LifeNext == SupplyInv' => LifeFacts'
  BY LifeNow, PTL

\* A VMM that no goroutine involved in the step has is as far as before.
LEMMA LifeKept ==
  ASSUME NEW w \in Vmms,
         w \in idle' <=> w \in idle, w \in victims' <=> w \in victims, vmm'[w] = vmm[w],
         \A c \in Callers : Holds(c)' = w <=> Holds(c) = w,
         \A g \in Refills : /\ refill'[g].pc = "kill" /\ refill'[g].vmm = w
                            <=> refill[g].pc = "kill" /\ refill[g].vmm = w
  PROVE  Life(w)' = Life(w)
<1>1. Doomed(w)' <=> Doomed(w)
  BY DEF Doomed, RefillHas
<1>2. (\E c \in Callers : Holds(c)' = w) <=> (\E c \in Callers : Holds(c) = w)
  OBVIOUS
<1> QED
  BY <1>1, <1>2 DEF Life

\* The spares the driver sees are those in the pool. (pool.go idle)
LEMMA SparesAreIdle ==
  ASSUME idle \subseteq Vmms
  PROVE  Supply!Spares = idle
  BY DEF Supply!Spares, Life

\* VmmSupply counts as VmmPool does.
LEMMA SameCount == \A S : Supply!Cardinality(S) = Cardinality(S)
  BY DEF Supply!Cardinality, Cardinality

\* One VMM gets on.
LEMMA Becomes ==
  ASSUME NEW v \in Vmms, NEW from, NEW to, Life(v) \in from, Life(v)' = to,
         \A w \in Vmms : w # v => Life(w)' = Life(w)
  PROVE  Supply!Become(v, from, to)
  BY DEF Supply!Become

\* One user gets or gives back a VMM.
LEMMA HoldsChange ==
  ASSUME NEW c \in Callers, NEW x, Holds(c)' = x,
         \A d \in Callers : d # c => Holds(d)' = Holds(d)
  PROVE  [d \in Callers |-> Holds(d)'] = [[d \in Callers |-> Holds(d)] EXCEPT ![c] = x]
  OBVIOUS

\* Nobody gets or gives back anything.
LEMMA HoldsKept ==
  ASSUME \A d \in Callers : Holds(d)' = Holds(d)
  PROVE  [d \in Callers |-> Holds(d)'] = [d \in Callers |-> Holds(d)]
  OBVIOUS

\* Nothing changes that the driver sees.
LEMMA Stutters ==
  ASSUME \A v \in Vmms : Life(v)' = Life(v), \A d \in Callers : Holds(d)' = Holds(d),
         UNCHANGED closed
  PROVE  UNCHANGED Supply!supply
  BY DEF Supply!supply

-----------------------------------------------------------------------------
(* The steps *)

\* The driver sees one step of VmmSupply, or none.
Seen == Supply!Next \/ UNCHANGED Supply!supply

\* A kick changes nothing that the driver sees: the goroutine it starts holds
\* nothing yet. (pool.go kickRefill)
LEMMA KickUnseen ==
  ASSUME RefillsOK, Kick
  PROVE  \A g \in Refills :
           \/ refill'[g] = refill[g]
           \/ refill[g].pc # "kill" /\ refill'[g].pc = "check"
<1>1. CASE UNCHANGED refill
  BY <1>1
<1>2. ASSUME NEW g \in Refills, refill[g].pc = "off",
             refill' = [refill EXCEPT ![g].pc = "check"]
      PROVE  /\ refill[g].pc # "kill" /\ refill'[g].pc = "check"
             /\ \A h \in Refills : h # g => refill'[h] = refill[h]
  BY <1>2 DEF RefillsOK, RefillRec
<1> QED
  BY <1>1, <1>2 DEF Kick

\* The steps of get and of the sandbox that ends. (pool.go get, kill)
LEMMA CallerSeen ==
  ASSUME SupplyInv, SupplyInv', NEW c \in Callers,
         Get(c) \/ GetInNetns(c) \/ CallerStep(c) \/ Release(c)
  PROVE  Seen
<1>t. /\ vmm \in [Vmms -> {"none", "booting", "hung", "ready", "stray"}]
      /\ idle \subseteq Vmms /\ NoVmm \notin Vmms
      /\ caller \in [Callers -> CallerRec]
      /\ \A d \in Callers : CallerKnown(caller[d])
      /\ RefillsOK
  BY ConstantsAssumption DEF SupplyInv, TypeInv, TypeOK, CallersOK
<1>l. LifeFacts /\ LifeFacts'
  BY LifeNow, LifeNext
<1>d. (\A d \in Callers : d # c => caller'[d] = caller[d]) =>
        \A d \in Callers : d # c => Holds(d)' = Holds(d)
  BY DEF Holds
<1>1. CASE Get(c)
  <2>0. /\ caller[c].pc = "out" /\ caller[c].vmm = NoVmm
        /\ UNCHANGED <<vmm, victims, refill, closed>>
        /\ \A d \in Callers : d # c => caller'[d] = caller[d]
        /\ caller'[c].pc = "kick"
        /\ \/ caller'[c].vmm = NoVmm /\ UNCHANGED idle
           \/ caller'[c].vmm \in idle /\ idle' = idle \ {caller'[c].vmm}
    BY <1>1, <1>t DEF Get, CallerKnown, CallerRec
  <2>1. Holds(c) = NoVmm /\ Holds(c)' = caller'[c].vmm
    BY <2>0 DEF Holds
  <2>2. CASE caller'[c].vmm = NoVmm /\ UNCHANGED idle
    <3>1. \A d \in Callers : Holds(d)' = Holds(d)
      BY <1>d, <2>0, <2>1, <2>2
    <3>2. \A w \in Vmms : Life(w)' = Life(w)
      BY <2>0, <2>2, <3>1, LifeKept
    <3> QED
      BY <2>0, <3>1, <3>2, Stutters DEF Seen
  <2>3. ASSUME NEW v \in idle, v = caller'[c].vmm, idle' = idle \ {v} PROVE Seen
    <3>1. Life(v) = "spare" /\ Life(v)' = "used"
      BY <1>l, <1>t, <2>0, <2>3 DEF LifeFacts
    <3>2. ASSUME NEW w \in Vmms, w # v PROVE Life(w)' = Life(w)
      <4>1. \A d \in Callers : Holds(d)' = w <=> Holds(d) = w
        BY <1>d, <1>t, <2>0, <2>1, <2>3, <3>2
      <4> QED
        BY <2>0, <2>3, <3>2, <4>1, LifeKept
    <3>3. Supply!Become(v, {"starting", "spare"}, "used")
      BY <1>t, <3>1, <3>2, Becomes
    <3>4. Supply!HandOut(c, v)
      BY <1>d, <2>0, <2>1, <2>3, <3>3, HoldsChange DEF Supply!HandOut
    <3> QED
      BY <1>t, <3>4 DEF Seen, Supply!Next
  <2> QED
    BY <2>0, <2>2, <2>3
<1>2. CASE GetInNetns(c)
  <2>0. /\ UNCHANGED <<vmm, idle, victims, refill, closed>>
        /\ \A d \in Callers : d # c => caller'[d] = caller[d]
        /\ caller[c].pc = "out" /\ caller'[c].pc = "spawn"
    BY <1>2, <1>t DEF GetInNetns, CallerRec
  <2>1. \A d \in Callers : Holds(d)' = Holds(d)
    BY <1>d, <2>0 DEF Holds
  <2> QED
    BY <2>0, <2>1, LifeKept, Stutters DEF Seen
<1>3. CASE KickRefill(c)
  <2>0. /\ UNCHANGED <<vmm, idle, victims, closed>>
        /\ \A d \in Callers : d # c => caller'[d] = caller[d]
        /\ caller[c].pc = "kick" /\ caller'[c].vmm = caller[c].vmm
        /\ caller'[c].pc = IF caller[c].vmm = NoVmm THEN "spawn" ELSE "using"
    BY <1>3, <1>t DEF KickRefill, CallerRec
  <2>1. \A d \in Callers : Holds(d)' = Holds(d)
    BY <1>d, <2>0 DEF Holds
  <2>2. \A g \in Refills :
          \/ refill'[g] = refill[g]
          \/ refill[g].pc # "kill" /\ refill'[g].pc = "check"
    BY <1>3, <1>t, KickUnseen DEF KickRefill
  <2>3. \A w \in Vmms : Life(w)' = Life(w)
    BY <2>0, <2>1, <2>2, LifeKept
  <2> QED
    BY <2>0, <2>1, <2>3, Stutters DEF Seen
<1>4. CASE Spawn(c)
  <2>0. /\ UNCHANGED <<idle, victims, refill, closed>>
        /\ \A d \in Callers : d # c => caller'[d] = caller[d]
        /\ caller[c].pc = "spawn"
        /\ \/ /\ caller'[c].pc = "boot" /\ caller'[c].vmm \in Vmms
              /\ vmm[caller'[c].vmm] = "none"
              /\ vmm' = [vmm EXCEPT ![caller'[c].vmm] = "booting"]
           \/ caller'[c].pc = "out" /\ UNCHANGED vmm
    BY <1>4, <1>t DEF Spawn, StartProcess, Out
  <2>1. \A d \in Callers : Holds(d)' = Holds(d)
    BY <1>d, <2>0 DEF Holds
  <2>2. CASE UNCHANGED vmm
    BY <2>0, <2>1, <2>2, LifeKept, Stutters DEF Seen
  <2>3. ASSUME NEW v \in Vmms, v = caller'[c].vmm, caller'[c].pc = "boot",
               vmm[v] = "none", vmm' = [vmm EXCEPT ![v] = "booting"]
        PROVE  Seen
    <3>1. Life(v) = "gone" /\ Life(v)' = "starting"
      BY <1>l, <2>3 DEF LifeFacts
    <3>2. \A w \in Vmms : w # v => Life(w)' = Life(w)
      BY <1>t, <2>0, <2>1, <2>3, LifeKept
    <3>3. Supply!Become(v, {"gone"}, "starting")
      BY <3>1, <3>2, Becomes
    <3> QED
      BY <2>0, <2>1, <3>3, HoldsKept DEF Seen, Supply!Next, Supply!Start
  <2> QED
    BY <2>0, <2>2, <2>3
<1>5. CASE Booted(c)
  <2>1. PICK v \in Vmms : v = caller[c].vmm
    BY <1>5, <1>t DEF Booted, CallerKnown
  <2>0. /\ UNCHANGED <<idle, victims, refill, closed>>
        /\ \A d \in Callers : d # c => caller'[d] = caller[d]
        /\ caller[c].pc = "boot"
        /\ \/ /\ caller'[c].pc = "using" /\ caller'[c].vmm = v
              /\ vmm' = [vmm EXCEPT ![v] = "ready"]
           \/ /\ caller'[c].pc = "out" /\ caller'[c].vmm = NoVmm
              /\ vmm' = [vmm EXCEPT ![v] = "stray"]
    BY <1>5, <1>t, <2>1 DEF Booted, Answers, TimesOut, CallerRec, Out
  <2>2. Life(v) = "starting" /\ Holds(c) = NoVmm
    BY <1>l, <2>0, <2>1 DEF LifeFacts, Holds
  <2>3. CASE caller'[c].pc = "using" /\ caller'[c].vmm = v
    <3>1. Life(v)' = "used" /\ Holds(c)' = v
      BY <1>l, <2>3 DEF LifeFacts, Holds
    <3>2. ASSUME NEW w \in Vmms, w # v PROVE Life(w)' = Life(w)
      <4>1. \A d \in Callers : Holds(d)' = w <=> Holds(d) = w
        BY <1>d, <1>t, <2>0, <2>2, <3>1, <3>2
      <4>2. vmm'[w] = vmm[w]
        BY <1>t, <2>0, <3>2
      <4> QED
        BY <2>0, <4>1, <4>2, LifeKept
    <3>3. Supply!Become(v, {"starting", "spare"}, "used")
      BY <2>2, <3>1, <3>2, Becomes
    <3>4. Supply!HandOut(c, v)
      BY <1>d, <2>0, <2>2, <3>1, <3>3, HoldsChange DEF Supply!HandOut
    <3> QED
      BY <3>4 DEF Seen, Supply!Next
  <2>4. CASE caller'[c].pc = "out" /\ vmm' = [vmm EXCEPT ![v] = "stray"]
    <3>1. Life(v)' = "gone" /\ Holds(c)' = NoVmm
      BY <1>l, <1>t, <2>4 DEF LifeFacts, Holds
    <3>2. \A d \in Callers : Holds(d)' = Holds(d)
      BY <1>d, <2>0, <2>2, <3>1
    <3>3. \A w \in Vmms : w # v => Life(w)' = Life(w)
      BY <1>t, <2>0, <2>4, <3>2, LifeKept
    <3>4. Supply!Become(v, {"starting"}, "gone")
      BY <2>2, <3>1, <3>3, Becomes
    <3> QED
      BY <2>0, <3>2, <3>4, HoldsKept DEF Seen, Supply!Next, Supply!Fail
  <2> QED
    BY <2>0, <2>3, <2>4
<1>6. CASE Release(c)
  <2>1. PICK v \in Vmms : v = caller[c].vmm
    BY <1>6, <1>t DEF Release, CallerKnown
  <2>0. /\ UNCHANGED <<idle, victims, refill, closed>>
        /\ \A d \in Callers : d # c => caller'[d] = caller[d]
        /\ caller[c].pc = "using" /\ caller'[c].pc = "out"
        /\ vmm' = [vmm EXCEPT ![v] = "none"]
    BY <1>6, <1>t, <2>1 DEF Release, Kill, Out
  <2>2. Life(v) = "used" /\ Holds(c) = v /\ Life(v)' = "gone" /\ Holds(c)' = NoVmm
    BY <1>l, <1>t, <2>0, <2>1 DEF LifeFacts, Holds
  <2>3. ASSUME NEW w \in Vmms, w # v PROVE Life(w)' = Life(w)
    <3>1. \A d \in Callers : Holds(d)' = w <=> Holds(d) = w
      BY <1>d, <1>t, <2>0, <2>2, <2>3
    <3>2. vmm'[w] = vmm[w]
      BY <1>t, <2>0, <2>3
    <3> QED
      BY <2>0, <3>1, <3>2, LifeKept
  <2>4. Supply!Become(v, {"used"}, "gone")
    BY <2>2, <2>3, Becomes
  <2>5. Supply!GiveBack(c, v)
    BY <1>d, <2>0, <2>2, <2>4, HoldsChange DEF Supply!GiveBack
  <2> QED
    BY <2>5 DEF Seen, Supply!Next
<1> QED
  BY <1>1, <1>2, <1>3, <1>4, <1>5, <1>6 DEF CallerStep

\* The steps of the refill goroutine. (pool.go kickRefill)
LEMMA RefillSeen ==
  ASSUME SupplyInv, SupplyInv', NEW g \in Refills, RefillStep(g)
  PROVE  Seen
<1>t. /\ vmm \in [Vmms -> {"none", "booting", "hung", "ready", "stray"}]
      /\ idle \subseteq Vmms /\ NoVmm \notin Vmms
      /\ refill \in [Refills -> RefillRec]
      /\ \A h \in Refills : RefillKnown(refill[h])
  BY ConstantsAssumption DEF SupplyInv, TypeInv, TypeOK, RefillsOK
<1>l. LifeFacts /\ LifeFacts'
  BY LifeNow, LifeNext
<1>c. refill[g].pc \in Adding => Cardinality(idle) < Target
  BY DEF SupplyInv, CountInv
\* Nobody else has what g has.
<1>o. \A h \in Refills : h # g /\ refill[g].vmm \in Vmms => refill[h].vmm # refill[g].vmm
  BY DEF SupplyInv, OwnInv, ExclusiveVmm, RefillHas
\* What the step leaves alone.
<1>k. ASSUME UNCHANGED <<caller, victims>>,
             \A h \in Refills : h # g => refill'[h] = refill[h]
      PROVE  /\ \A d \in Callers : Holds(d)' = Holds(d)
             /\ \A w \in Vmms :
                  /\ w \in idle' <=> w \in idle
                  /\ vmm'[w] = vmm[w]
                  /\ refill'[g].pc = "kill" /\ refill'[g].vmm = w
                     <=> refill[g].pc = "kill" /\ refill[g].vmm = w
                  => Life(w)' = Life(w)
  <2>1. \A d \in Callers : Holds(d)' = Holds(d)
    BY <1>k DEF Holds
  <2> QED
    BY <1>k, <2>1, LifeKept
<1>1. CASE CheckNeed(g) \/ EndRefill(g)
  <2>0. /\ UNCHANGED <<vmm, idle, caller, victims, closed>>
        /\ \A h \in Refills : h # g => refill'[h] = refill[h]
        /\ refill[g].pc # "kill" /\ refill'[g].pc # "kill"
    BY <1>1, <1>t DEF CheckNeed, EndRefill, RefillRec, Off
  <2> QED
    BY <1>k, <2>0, Stutters DEF Seen
<1>2. CASE SpawnSpare(g)
  <2>0. /\ UNCHANGED <<idle, caller, victims, closed>>
        /\ \A h \in Refills : h # g => refill'[h] = refill[h]
        /\ refill[g].pc # "kill" /\ refill'[g].pc # "kill"
        /\ \/ /\ refill'[g].pc = "boot" /\ refill'[g].vmm \in Vmms
              /\ vmm[refill'[g].vmm] = "none"
              /\ vmm' = [vmm EXCEPT ![refill'[g].vmm] = "booting"]
           \/ UNCHANGED vmm
    BY <1>2, <1>t DEF SpawnSpare, StartProcess, RefillRec
  <2>1. CASE UNCHANGED vmm
    BY <1>k, <2>0, <2>1, Stutters DEF Seen
  <2>2. ASSUME NEW v \in Vmms, v = refill'[g].vmm, refill'[g].pc = "boot",
               vmm[v] = "none", vmm' = [vmm EXCEPT ![v] = "booting"]
        PROVE  Seen
    <3>1. Life(v) = "gone" /\ Life(v)' = "starting"
      BY <1>l, <2>2 DEF LifeFacts
    <3>2. \A w \in Vmms : w # v => Life(w)' = Life(w)
      BY <1>k, <1>t, <2>0, <2>2
    <3>3. Supply!Become(v, {"gone"}, "starting")
      BY <3>1, <3>2, Becomes
    <3> QED
      BY <1>k, <2>0, <3>3, HoldsKept DEF Seen, Supply!Next, Supply!Start
  <2> QED
    BY <2>0, <2>1, <2>2
<1>3. CASE SpareBooted(g)
  <2>1. PICK v \in Vmms : v = refill[g].vmm
    BY <1>3, <1>t DEF SpareBooted, RefillKnown
  <2>0. /\ UNCHANGED <<idle, caller, victims, closed>>
        /\ \A h \in Refills : h # g => refill'[h] = refill[h]
        /\ refill[g].pc = "boot"
        /\ \/ /\ refill'[g].pc = "add" /\ refill'[g].vmm = v
              /\ vmm' = [vmm EXCEPT ![v] = "ready"]
           \/ /\ refill'[g].pc = "end"
              /\ vmm' = [vmm EXCEPT ![v] = "stray"]
    BY <1>3, <1>t, <2>1 DEF SpareBooted, Answers, TimesOut, RefillRec
  <2>2. Life(v) = "starting" /\ \A w \in Vmms : w # v => Life(w)' = Life(w)
    BY <1>k, <1>l, <1>t, <2>0, <2>1 DEF LifeFacts
  <2>3. CASE refill'[g].pc = "add" /\ refill'[g].vmm = v
    <3>1. Life(v)' = "starting"
      BY <1>l, <2>3 DEF LifeFacts
    <3> QED
      BY <1>k, <2>0, <2>2, <3>1, Stutters DEF Seen
  <2>4. CASE vmm' = [vmm EXCEPT ![v] = "stray"]
    <3>1. Life(v)' = "gone"
      BY <1>l, <1>t, <2>4 DEF LifeFacts
    <3>2. Supply!Become(v, {"starting"}, "gone")
      BY <2>2, <3>1, Becomes
    <3> QED
      BY <1>k, <2>0, <3>2, HoldsKept DEF Seen, Supply!Next, Supply!Fail
  <2> QED
    BY <2>0, <2>3, <2>4
<1>4. CASE AddSpare(g)
  <2>1. PICK v \in Vmms : v = refill[g].vmm
    BY <1>4, <1>t DEF AddSpare, RefillKnown
  <2>0. /\ UNCHANGED <<vmm, caller, victims, closed>>
        /\ \A h \in Refills : h # g => refill'[h] = refill[h]
        /\ refill[g].pc = "add"
        /\ \/ /\ closed /\ refill'[g].pc = "kill" /\ refill'[g].vmm = v
              /\ UNCHANGED idle
           \/ /\ ~closed /\ refill'[g].pc = "check"
              /\ idle' = idle \cup {v}
    BY <1>4, <1>t, <2>1 DEF AddSpare, RefillRec
  <2>2. Life(v) = "starting" /\ \A w \in Vmms : w # v => Life(w)' = Life(w)
    BY <1>k, <1>l, <2>0, <2>1 DEF LifeFacts
  <2>3. CASE closed /\ refill'[g].pc = "kill" /\ refill'[g].vmm = v
    <3>1. Life(v)' = "doomed"
      BY <1>l, <2>3 DEF LifeFacts
    <3>2. Supply!Become(v, {"starting"}, "doomed")
      BY <2>2, <3>1, Becomes
    <3> QED
      BY <1>k, <2>0, <2>3, <3>2, HoldsKept DEF Seen, Supply!Next, Supply!Doom
  <2>4. CASE ~closed /\ idle' = idle \cup {v}
    <3>1. Life(v)' = "spare"
      BY <1>l, <2>4 DEF LifeFacts
    <3>2. Supply!Become(v, {"starting"}, "spare")
      BY <2>2, <3>1, Becomes
    <3>3. Cardinality(Supply!Spares) < Target
      BY <1>c, <1>t, <2>0, SparesAreIdle DEF Adding
    <3>4. [d \in Callers |-> Holds(d)'] = [d \in Callers |-> Holds(d)] /\ UNCHANGED closed
      BY <1>k, <2>0, HoldsKept
    <3>5. Supply!Keep(v)
      BY <2>4, <3>2, <3>3, <3>4, SameCount DEF Supply!Keep
    <3> QED
      BY <3>5 DEF Seen, Supply!Next
  <2> QED
    BY <2>0, <2>3, <2>4
<1>5. CASE KillSpare(g)
  <2>1. PICK v \in Vmms : v = refill[g].vmm
    BY <1>5, <1>t DEF KillSpare, RefillKnown
  <2>0. /\ UNCHANGED <<idle, caller, victims, closed>>
        /\ \A h \in Refills : h # g => refill'[h] = refill[h]
        /\ refill[g].pc = "kill" /\ refill'[g].pc = "end"
        /\ vmm' = [vmm EXCEPT ![v] = "none"]
    BY <1>5, <1>t, <2>1 DEF KillSpare, Kill
  <2>2. Life(v) = "doomed" /\ Life(v)' = "gone"
    BY <1>l, <1>t, <2>0, <2>1 DEF LifeFacts
  <2>3. \A w \in Vmms : w # v => Life(w)' = Life(w)
    BY <1>k, <1>t, <2>0, <2>1
  <2>4. Supply!Become(v, {"doomed"}, "gone")
    BY <2>2, <2>3, Becomes
  <2> QED
    BY <1>k, <2>0, <2>4, HoldsKept DEF Seen, Supply!Next, Supply!Kill
<1> QED
  BY <1>1, <1>2, <1>3, <1>4, <1>5 DEF RefillStep

\* close takes all the spares away from the users at once. (pool.go close)
LEMMA CloseSeen ==
  ASSUME SupplyInv, SupplyInv', Close
  PROVE  Seen
<1>t. idle \subseteq Vmms
  BY DEF SupplyInv, TypeInv, TypeOK
<1>0. /\ UNCHANGED <<vmm, caller, refill>>
      /\ closed' = TRUE /\ idle' = {} /\ victims' = victims \cup idle
  BY DEF Close
<1>1. \A d \in Callers : Holds(d)' = Holds(d)
  BY <1>0 DEF Holds
<1>2. ASSUME NEW w \in Vmms PROVE Life(w)' = IF w \in idle THEN "doomed" ELSE Life(w)
  <2>1. CASE w \in idle
    <3>1. w \in victims'
      BY <1>0, <2>1
    <3> QED
      BY <2>1, <3>1, LifeNext DEF LifeFacts
  <2>2. CASE w \notin idle
    BY <1>0, <1>1, <2>2, LifeKept
  <2> QED
    BY <2>1, <2>2
<1>3. Supply!Close
  BY <1>0, <1>1, <1>2, <1>t, SparesAreIdle, HoldsKept DEF Supply!Close
<1> QED
  BY <1>3 DEF Seen, Supply!Next

\* close kills one of them. (pool.go close, vmmHandle.kill)
LEMMA KillVictimSeen ==
  ASSUME SupplyInv, SupplyInv', KillVictim
  PROVE  Seen
<1>t. vmm \in [Vmms -> {"none", "booting", "hung", "ready", "stray"}] /\ victims \subseteq Vmms
  BY DEF SupplyInv, TypeInv, TypeOK
<1>1. PICK v \in victims : /\ vmm' = [vmm EXCEPT ![v] = "none"]
                          /\ victims' = victims \ {v}
                          /\ UNCHANGED <<idle, closed, caller, refill>>
  BY DEF KillVictim, Kill
<1>2. Life(v) = "doomed" /\ Life(v)' = "gone"
  BY <1>1, <1>t, LifeNow, LifeNext DEF LifeFacts
<1>3. \A d \in Callers : Holds(d)' = Holds(d)
  BY <1>1 DEF Holds
<1>4. \A w \in Vmms : w # v => Life(w)' = Life(w)
  BY <1>1, <1>3, <1>t, LifeKept
<1>5. Supply!Become(v, {"doomed"}, "gone")
  BY <1>2, <1>4, <1>t, Becomes
<1> QED
  BY <1>1, <1>3, <1>5, <1>t, HoldsKept DEF Seen, Supply!Next, Supply!Kill

\* To the driver a VMM that hangs is still starting. (pool.go waitReady)
LEMMA HangUnseen ==
  ASSUME SupplyInv, SupplyInv', NEW v \in Vmms, VmmHangs(v)
  PROVE  Seen
<1>t. vmm \in [Vmms -> {"none", "booting", "hung", "ready", "stray"}]
  BY DEF SupplyInv, TypeInv, TypeOK
<1>1. /\ UNCHANGED <<idle, closed, victims, caller, refill>>
      /\ vmm[v] = "booting" /\ vmm'[v] = "hung"
      /\ \A w \in Vmms : w # v => vmm'[w] = vmm[w]
  BY <1>t DEF VmmHangs
<1>2. \A d \in Callers : Holds(d)' = Holds(d)
  BY <1>1 DEF Holds
<1>3. Life(v)' = Life(v)
  BY <1>1, <1>2 DEF Life, Doomed, RefillHas
<1>4. \A w \in Vmms : w # v => Life(w)' = Life(w)
  BY <1>1, <1>2, LifeKept
<1> QED
  BY <1>1, <1>2, <1>3, <1>4, Stutters DEF Seen

\* Every step of the pool is one of VmmSupply, or unseen. (pool.go)
LEMMA StepSeen ==
  ASSUME SupplyInv, SupplyInv', [Next]_vars
  PROVE  Seen
<1>1. CASE Warm
  <2>1. UNCHANGED <<vmm, idle, victims, closed, caller>> /\ Kick /\ RefillsOK
    BY <1>1 DEF Warm, SupplyInv, TypeInv
  <2>2. \A d \in Callers : Holds(d)' = Holds(d)
    BY <2>1 DEF Holds
  <2>3. \A w \in Vmms : Life(w)' = Life(w)
    BY <2>1, <2>2, KickUnseen, LifeKept
  <2> QED
    BY <2>1, <2>2, <2>3, Stutters DEF Seen
<1>2. CASE UNCHANGED vars
  BY <1>2, LifeKept, Stutters DEF Seen, vars, Holds
<1> QED
  BY <1>1, <1>2, CallerSeen, RefillSeen, CloseSeen, KillVictimSeen, HangUnseen DEF Next

\* At first there is no VMM, and nobody was handed one. (pool.go newVMMPool)
LEMMA InitSeen == Init => Supply!Init
<1> SUFFICES ASSUME Init PROVE Supply!Init
  OBVIOUS
<1>1. /\ \A c \in Callers : caller[c].pc = "out"
      /\ \A g \in Refills : refill[g].pc = "off"
  BY DEF Init, Out, Off
<1>2. \A c \in Callers : Holds(c) = NoVmm
  BY <1>1 DEF Holds
<1>3. \A v \in Vmms : Life(v) = "gone"
  BY <1>1, <1>2, ConstantsAssumption DEF Init, Life, Doomed
<1> QED
  BY <1>2, <1>3 DEF Init, Supply!Init

\* The pool keeps its promise to the driver, for any number of callers and
\* refill goroutines: what get returns is used by nobody else and was not killed,
\* spares stay within the target, and close is final. (pool.go)
THEOREM SupplyImplemented == Spec => ImplementsSupply
<1>1. SupplyInv /\ SupplyInv' /\ [Next]_vars => [Supply!Next]_(Supply!supply)
  BY StepSeen DEF Seen
<1>2. Spec => []SupplyInv
  BY OwnInvariant, CountInvariant, PTL DEF SupplyInv
<1> QED
  BY <1>1, <1>2, InitSeen, PTL DEF Spec, ImplementsSupply, Supply!Spec
=============================================================================
