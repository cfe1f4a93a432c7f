------------------------------- MODULE VmmSupply -------------------------------
(***************************************************************************)
(* What the pool of VMM processes promises the driver: a VMM is started,    *)
(* perhaps kept as a spare while the pool is open and below its target, and *)
(* then handed to one user for good or killed.  After close nothing is      *)
(* kept, and what was kept is never handed out.                             *)
(***************************************************************************)
EXTENDS Naturals, FiniteSets

CONSTANTS Vmms,      \* the VMM processes
          Users,     \* who uses a VMM
          Target,    \* how many spares are kept at most
          NoVmm      \* no VMM

VARIABLES life,      \* how far each VMM is
          holds,     \* the VMM each user was handed, or NoVmm
          closed     \* the pool has been closed

supply == <<life, holds, closed>>

Spares == {v \in Vmms : life[v] = "spare"}

Init == /\ life = [v \in Vmms |-> "gone"]
        /\ holds = [u \in Users |-> NoVmm]
        /\ closed = FALSE

Become(v, from, to) == life[v] \in from /\ life' = [life EXCEPT ![v] = to]

Start(v) == Become(v, {"gone"}, "starting") /\ UNCHANGED <<holds, closed>>

Fail(v) == Become(v, {"starting"}, "gone") /\ UNCHANGED <<holds, closed>>

Keep(v) == /\ ~closed
           /\ Cardinality(Spares) < Target
           /\ Become(v, {"starting"}, "spare")
           /\ UNCHANGED <<holds, closed>>

HandOut(u, v) == /\ holds[u] = NoVmm
                 /\ holds' = [holds EXCEPT ![u] = v]
                 /\ Become(v, {"starting", "spare"}, "used")
                 /\ UNCHANGED closed

GiveBack(u, v) == /\ holds[u] = v
                  /\ holds' = [holds EXCEPT ![u] = NoVmm]
                  /\ Become(v, {"used"}, "gone")
                  /\ UNCHANGED closed

\* Started for the pool, but too late.
Doom(v) == closed /\ Become(v, {"starting"}, "doomed") /\ UNCHANGED <<holds, closed>>

Kill(v) == Become(v, {"doomed"}, "gone") /\ UNCHANGED <<holds, closed>>

Close == /\ closed' = TRUE
         /\ life' = [v \in Vmms |-> IF v \in Spares THEN "doomed" ELSE life[v]]
         /\ UNCHANGED holds

Next == \/ \E v \in Vmms : Start(v) \/ Fail(v) \/ Keep(v) \/ Doom(v) \/ Kill(v)
        \/ \E u \in Users, v \in Vmms : HandOut(u, v) \/ GiveBack(u, v)
        \/ Close

Spec == Init /\ [][Next]_supply
=============================================================================
