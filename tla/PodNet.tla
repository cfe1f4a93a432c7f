-------------------------------- MODULE PodNet --------------------------------
(***************************************************************************)
(* The network namespace of a pod and the sandboxes bridged into it        *)
(* (pkg/vmnet/vmnet.go).  SetupTap runs six ip and tc commands one after   *)
(* the other; nothing keeps two sandboxes of one pod from doing so at the  *)
(* same time.  TeardownTap deletes the TAP, whose own rules go with it,    *)
(* and leaves what was added to eth0.  Nobody looks at its error: a TAP    *)
(* that `ip link del` did not delete stays, and no one tries again.        *)
(***************************************************************************)
EXTENDS Naturals

CONSTANTS
  Insts,        \* the sandboxes ever created for the pod
  NoInst        \* no sandbox

ASSUME NoInstAssumption == NoInst \notin Insts

VARIABLES
  setup,        \* how far each sandbox is in SetupTap and TeardownTap
  pod           \* the devices, qdiscs and filters in the namespace

podVars == <<setup, pod>>

InSetup == {"addTap", "addIngress", "addRedirect", "mirror", "rollback"}
SetupPoints == InSetup \cup {"none", "refused", "up", "gone"}

PodTypeOK ==
  /\ setup \in [Insts -> SetupPoints]
  /\ pod \in [taps     : SUBSET Insts,          \* TAP devices
              mirrored : SUBSET Insts,          \* TAPs redirected to eth0
              stuck    : SUBSET Insts,          \* TAPs that `ip link del` has left
              ingress  : BOOLEAN,               \* eth0 has an ingress qdisc
              redirect : Insts \cup {NoInst}]   \* where eth0 is redirected to

\* What CNI hands over: eth0 and nothing else.
PodInit ==
  /\ setup = [i \in Insts |-> "none"]
  /\ pod = [taps |-> {}, mirrored |-> {}, stuck |-> {}, ingress |-> FALSE, redirect |-> NoInst]

To(i, point) == setup' = [setup EXCEPT ![i] = point]

\* A sandbox is created once, so its TAP has a name of its own.
BeginSetup(i) == setup[i] = "none" /\ To(i, "addTap") /\ UNCHANGED pod

\* Two commands; the second may fail when the first has made the device.
AddTap(i) ==
  LET made == [pod EXCEPT !.taps = @ \cup {i}]
  IN /\ setup[i] = "addTap"
     /\ \/ pod' = made /\ To(i, "addIngress")
        \/ pod' \in {pod, made} /\ To(i, "rollback")

\* Faulty: a qdisc that is there already is taken for one's own.
AddIngressAnyway(i) ==
  /\ setup[i] = "addIngress"
  /\ \/ pod' = [pod EXCEPT !.ingress = TRUE] /\ To(i, "addRedirect")
     \/ UNCHANGED pod /\ To(i, "rollback")

\* tc refuses a second ingress qdisc on one device.
AddIngress(i) ==
  /\ setup[i] = "addIngress"
  /\ \/ /\ ~pod.ingress
        /\ pod' = [pod EXCEPT !.ingress = TRUE]
        /\ To(i, "addRedirect")
     \/ UNCHANGED pod /\ To(i, "rollback")

AddRedirect(i) ==
  /\ setup[i] = "addRedirect"
  /\ \/ pod' = [pod EXCEPT !.redirect = i] /\ To(i, "mirror")
     \/ UNCHANGED pod /\ To(i, "rollback")

\* Two commands on the TAP; what the first leaves goes with the TAP.
MirrorTap(i) ==
  /\ setup[i] = "mirror"
  /\ \/ pod' = [pod EXCEPT !.mirrored = @ \cup {i}] /\ To(i, "up")
     \/ UNCHANGED pod /\ To(i, "rollback")

\* The rules of a TAP die with it; eth0's qdisc and filter stay.  The command
\* fails when there is no TAP, and may fail when there is one.
TeardownTap(i) ==
  \/ pod' = [pod EXCEPT !.taps = @ \ {i}, !.mirrored = @ \ {i}, !.stuck = @ \ {i}]
  \/ i \in pod.taps /\ pod' = [pod EXCEPT !.stuck = @ \cup {i}]

Rollback(i) == setup[i] = "rollback" /\ TeardownTap(i) /\ To(i, "refused")

SetupTap(i) ==
  AddTap(i) \/ AddIngress(i) \/ AddRedirect(i) \/ MirrorTap(i) \/ Rollback(i)

\* A second teardown finds no TAP, or the one the first has left.
RemoveTap(i) == setup[i] \in {"up", "gone"} /\ TeardownTap(i) /\ To(i, "gone")

PodNext == \E i \in Insts : BeginSetup(i) \/ SetupTap(i) \/ RemoveTap(i)

PodSpec == PodInit /\ [][PodNext]_podVars

-----------------------------------------------------------------------------
(* Properties *)

\* A sandbox whose SetupTap succeeded has the pod's traffic, both ways, until
\* its TAP is removed: no other sandbox of the pod takes it away, by setting up,
\* failing to, or leaving. (vmnet.go:92-123)
UpIsBridged ==
  \A i \in Insts : setup[i] = "up" =>
    i \in pod.taps /\ i \in pod.mirrored /\ pod.ingress /\ pod.redirect = i

\* What TeardownTap leaves on eth0 is "harmless" (vmnet.go:126-127): a sandbox
\* that sets up when every other one is gone, and its TAP with it, does not find
\* it in the way.
LeftoverHarmless ==
  \A i \in Insts :
    /\ setup[i] = "addIngress"
    /\ \A j \in Insts \ {i} : setup[j] \in {"none", "gone"} /\ j \notin pod.taps
    => ~pod.ingress
=============================================================================
