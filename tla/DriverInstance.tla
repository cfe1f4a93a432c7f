---------------------------- MODULE DriverInstance ----------------------------
(***************************************************************************)
(* What the driver promises its callers (the shim, the manager) about one  *)
(* sandbox.Instance: it comes up once or not at all, it never gets back    *)
(* what it has lost, and when its creation has failed or a Stop has        *)
(* returned it holds nothing any more, for good, but what the host has     *)
(* refused to take back.                                                   *)
(***************************************************************************)
EXTENDS Naturals

CONSTANTS
  Resources,    \* what an instance holds on the host
  Stubborn      \* those the host may refuse to take back

VARIABLES
  phase,        \* what the callers know of the instance
  held,         \* the resources it holds
  refused       \* those the host has refused to take back

instance == <<phase, held, refused>>

Init == phase = "absent" /\ held = {} /\ refused = {}

\* Creating takes resources, one after the other, and may lose some.
Work == /\ phase \in {"absent", "creating"}
        /\ phase' = "creating"
        /\ held' \in SUBSET Resources
        /\ refused' \in SUBSET Stubborn

\* The last step may take the last resource.
Ready == /\ phase = "creating"
         /\ phase' = "running"
         /\ held' \in SUBSET Resources
         /\ refused = {} /\ refused' = {}

Lose == /\ phase = "running"
        /\ held' \subseteq held
        /\ refused' \in SUBSET Stubborn
        /\ UNCHANGED phase

End == /\ phase \in {"creating", "running"}
       /\ phase' = "ended"
       /\ held' \subseteq refused'
       /\ refused' \in SUBSET Stubborn

\* A Stop that is still at work may be luckier.
Yield == /\ phase = "ended"
         /\ held' \subseteq held \cap refused'
         /\ refused' \subseteq refused
         /\ UNCHANGED phase

Next == Work \/ Ready \/ Lose \/ End \/ Yield

Spec == Init /\ [][Next]_instance
=============================================================================
