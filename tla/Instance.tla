------------------------------- MODULE Instance -------------------------------
(***************************************************************************)
(* One sandbox of a pod from Driver.Create or Restore to its last Stop     *)
(* (pkg/driver/cloudhypervisor/driver.go, netguest.go), composed with its  *)
(* agent connection (Agent) and with the pod's network namespace (PodNet), *)
(* which other sandboxes of the pod share.  The creator's goroutine works  *)
(* through Create or Restore and, when a step fails, through Stop; once    *)
(* the instance is handed out any number of goroutines may call Stop.      *)
(* Calls to the VMM's API and to the agent have no time limit of their own *)
(* (client.go of the driver and of the agent).                             *)
(***************************************************************************)
EXTENDS Agent, PodNet

CONSTANTS
  Self,         \* the instance, one of the sandboxes of the pod
  HasNetns,     \* the instance is bridged into the pod's network
  Stops,        \* the Stops ever called by users of the instance
  PingCall,     \* the agent call that ends the wait for the guest
  NetCall       \* the agent call that gives the guest its address

ASSUME InstanceAssumption ==
  /\ Self \in Insts \ Stops
  /\ HasNetns \in BOOLEAN
  /\ Calls \subseteq Nat
  /\ PingCall \in Calls
  /\ NetCall \in Calls \ {PingCall}

VARIABLES
  creator,      \* the goroutine of Create or Restore
  stop,         \* the goroutines in Stop: a failing creator's and the users'
  vmm,          \* the cloud-hypervisor process: a hung one answers nobody, a
                \* deaf one does while its guest hangs
  netCfg        \* i.netCfg is set

ownVars == <<creator, stop, vmm, netCfg>>
allVars == <<vars, podVars, ownVars>>

Actors == Stops \cup {Self}

Users == Calls \ {PingCall, NetCall}

Netns(with, without) == IF HasNetns THEN with ELSE without

\* What follows each step of Create with boot, and of Restore.
After ==
  [api |-> "pack", pack |-> Netns("config", "create"), config |-> "network",
   network |-> "create", create |-> "boot", boot |-> "dial", dial |-> "ping",
   ping |-> Netns("configure", "running"),
   overlay |-> "restore", restore |-> "restoreDial",
   restoreDial |-> Netns("restoreConfig", "running"),
   restoreConfig |-> "restoreNetwork", restoreNetwork |-> "openTap",
   openTap |-> "addNet", addNet |-> "configure",
   configure |-> "running"]

Creating == DOMAIN After

ITypeOK ==
  /\ TypeOK
  /\ PodTypeOK
  /\ creator \in Creating \cup {"none", "running", "undo", "failed"}
  /\ stop \in [Actors -> {"idle", "close", "check", "delTap", "shutdown", "reap", "done",
                         "panicked"}]
  /\ vmm \in {"none", "up", "deaf", "hung", "dead"}
  /\ netCfg \in BOOLEAN

IInit ==
  /\ Init
  /\ PodInit
  /\ creator = "none"
  /\ stop = [a \in Actors |-> "idle"]
  /\ vmm = "none"
  /\ netCfg = FALSE

-----------------------------------------------------------------------------
(* Create and Restore *)

At(points) == creator \in points

Proceed == creator' = After[creator]

StopBy(a, pc) == stop' = [stop EXCEPT ![a] = pc]

\* The creator stops the instance it gives up, with a background context.
Fail == /\ creator' = "undo"
        /\ StopBy(Self, "close")
        /\ BeginStop

\* The VMM comes from the pool or is spawned in the netns, and has answered.
Begin ==
  /\ At({"none"})
  /\ creator' \in {"api", "overlay"}
  /\ vmm' = "up"
  /\ UNCHANGED <<stop, netCfg, vars, podVars>>

\* Without its snapshot the clone's VMM goes the way of a spare.
LinkOverlay ==
  /\ At({"overlay"})
  /\ \/ Proceed /\ UNCHANGED vmm
     \/ creator' = "failed" /\ vmm' = "dead"
  /\ UNCHANGED <<stop, netCfg, vars, podVars>>

Answers == vmm \in {"up", "deaf"}

\* A VMM that hangs keeps its caller waiting.
CallApi ==
  /\ At({"api", "create", "boot", "restore"})
  /\ \/ Answers /\ Proceed /\ UNCHANGED <<stop, vars>>
     \/ vmm # "hung" /\ Fail
  /\ UNCHANGED <<vmm, netCfg, podVars>>

\* The caller of Create or Restore goes away, which cancels the request.
Cancel ==
  /\ At({"api", "create", "boot", "restore"})
  /\ Fail
  /\ UNCHANGED <<vmm, netCfg, podVars>>

\* A directory is packed into an image beside the final name, then renamed.
PackRootfs ==
  /\ At({"pack"})
  /\ (Proceed /\ UNCHANGED <<stop, vars>>) \/ Fail
  /\ UNCHANGED <<vmm, netCfg, podVars>>

\* The TAP is in the pod's namespace, the VMM that will get it is not.
OpenTap ==
  /\ At({"openTap"})
  /\ (Proceed /\ UNCHANGED <<stop, vars>>) \/ Fail
  /\ UNCHANGED <<vmm, netCfg, podVars>>

\* eth0's address is read first; a pod without one is an error.
ReadConfig ==
  /\ At({"config", "restoreConfig"})
  /\ \/ Proceed /\ BeginSetup(Self) /\ UNCHANGED <<stop, vars>>
     \/ Fail /\ UNCHANGED podVars
  /\ UNCHANGED <<vmm, netCfg>>

\* Faulty: the setup is recorded when the network works, not when it is there.
SetupNetworkUnrecorded ==
  /\ At({"network", "restoreNetwork"})
  /\ SetupTap(Self)
  /\ netCfg' = (setup'[Self] = "up" /\ At({"network"}))
  /\ \/ setup'[Self] = "up" /\ Proceed /\ UNCHANGED <<stop, vars>>
     \/ setup'[Self] = "refused" /\ Fail
     \/ setup'[Self] \in InSetup /\ UNCHANGED <<creator, stop, vars>>
  /\ UNCHANGED vmm

SetupNetwork ==
  /\ At({"network", "restoreNetwork"})
  /\ SetupTap(Self)
  /\ netCfg' = (setup'[Self] = "up")
  /\ \/ setup'[Self] = "up" /\ Proceed /\ UNCHANGED <<stop, vars>>
     \/ setup'[Self] = "refused" /\ Fail
     \/ setup'[Self] \in InSetup /\ UNCHANGED <<creator, stop, vars>>
  /\ UNCHANGED vmm

\* Each try ends after a second, and the tries end after BootWait.
DialAgent ==
  /\ At({"dial", "restoreDial"})
  /\ \/ Answers /\ Dial /\ Proceed /\ UNCHANGED stop
     \/ Fail
  /\ UNCHANGED <<vmm, netCfg, podVars>>

\* Hand-written HTTP with a deadline: a VMM that hangs is an error here.
AddNet ==
  /\ At({"addNet"})
  /\ \/ Answers /\ Proceed /\ UNCHANGED <<stop, vars>>
     \/ Fail
  /\ UNCHANGED <<vmm, netCfg, podVars>>

\* The agent is asked at "ping" and at "configure", without a deadline.
Asked == IF At({"ping"}) THEN PingCall ELSE NetCall

AskAgent ==
  /\ At({"ping", "configure"})
  /\ Request(Asked)
  /\ UNCHANGED <<ownVars, podVars>>

\* ConfigureNet's answer may be an error.
AgentAnswers ==
  /\ At({"ping", "configure"})
  /\ \/ call[Asked] = "answered" /\ Proceed /\ UNCHANGED <<stop, vars>>
     \/ call[Asked] \in {"failed", "crossed"} /\ Fail
     \/ At({"configure"}) /\ call[Asked] = "answered" /\ Fail
  /\ UNCHANGED <<vmm, netCfg, podVars>>

Create == \/ LinkOverlay \/ CallApi \/ PackRootfs \/ ReadConfig \/ SetupNetwork
          \/ DialAgent \/ OpenTap \/ AddNet \/ AskAgent \/ AgentAnswers

-----------------------------------------------------------------------------
(* Stop *)

StopCall(s) ==
  /\ stop[s] = "idle"
  /\ At({"running"})
  /\ StopBy(s, "close")
  /\ BeginStop
  /\ UNCHANGED <<creator, vmm, netCfg, podVars>>

\* Faulty: the client is closed without looking whether there is one.
CloseAgentUnchecked(a) ==
  /\ stop[a] = "close"
  /\ StopBy(a, IF conn = "none" THEN "nilDereference" ELSE "check")
  /\ IF conn = "none" THEN UNCHANGED vars ELSE Close
  /\ UNCHANGED <<creator, vmm, netCfg, podVars>>

CloseAgent(a) ==
  /\ stop[a] = "close"
  /\ StopBy(a, "check")
  /\ IF conn = "none" THEN UNCHANGED vars ELSE Close
  /\ UNCHANGED <<creator, vmm, netCfg, podVars>>

\* Faulty: i.netCfg is cleared before the TAP is deleted.
CheckNetClearing(a) ==
  /\ stop[a] = "check"
  /\ StopBy(a, IF netCfg THEN "delTap" ELSE "shutdown")
  /\ netCfg' = FALSE
  /\ UNCHANGED <<creator, vmm, vars, podVars>>

\* i.netCfg is loaded for the check, and again for the call.
CheckNet(a) ==
  /\ stop[a] = "check"
  /\ StopBy(a, IF netCfg THEN "delTap" ELSE "shutdown")
  /\ UNCHANGED <<creator, vmm, netCfg, vars, podVars>>

\* A data race: where another Stop has cleared i.netCfg since the check, this one
\* either holds the old value or dereferences nil.  net/http recovers the panic of
\* a handler; a shim ends with it, as in VmmDies and nothing after.
DeleteTap(a) ==
  /\ stop[a] = "delTap"
  /\ \/ RemoveTap(Self) /\ netCfg' = FALSE /\ StopBy(a, "shutdown")
     \/ ~netCfg /\ StopBy(a, "panicked") /\ UNCHANGED <<netCfg, podVars>>
  /\ UNCHANGED <<creator, vmm, vars>>

VmmEnds == vmm' = "dead" /\ GuestEnds

\* The VMM may refuse, or say yes and go on.  One that hangs is waited for.
ShutdownVMM(a) ==
  /\ stop[a] = "shutdown"
  /\ vmm # "hung"
  /\ StopBy(a, "reap")
  /\ UNCHANGED <<vmm, vars>> \/ VmmEnds
  /\ UNCHANGED <<creator, netCfg, podVars>>

\* The caller of Stop goes away, which cancels the request to the VMM.
CancelStop(s) ==
  /\ stop[s] = "shutdown"
  /\ StopBy(s, "reap")
  /\ UNCHANGED <<creator, vmm, netCfg, vars, podVars>>

\* Faulty: the process is waited for and never killed.
ReapPolitely(a) ==
  /\ stop[a] = "reap"
  /\ vmm = "dead"
  /\ StopBy(a, "done")
  /\ UNCHANGED <<creator, vmm, netCfg, vars, podVars>>

\* After three seconds comes SIGKILL.
Reap(a) ==
  /\ stop[a] = "reap"
  /\ VmmEnds
  /\ StopBy(a, "done")
  /\ UNCHANGED <<creator, netCfg, podVars>>

Stop(a) == CloseAgent(a) \/ CheckNet(a) \/ DeleteTap(a) \/ ShutdownVMM(a) \/ Reap(a)

-----------------------------------------------------------------------------
(* Everybody else *)

\* Exec and the file calls of users who have the instance; request ids are
\* handed out in order.
Use(c) ==
  /\ At({"running"})
  /\ \A d \in Users : d < c => call[d] # "idle"
  /\ Request(c)
  /\ UNCHANGED <<ownVars, podVars>>

CallGoesOn(c) == RoundTrip(c) /\ UNCHANGED <<ownVars, podVars>>

\* The guest runs while its VMM does, unless it hangs.
Guest(Step) == vmm = "up" /\ Step /\ UNCHANGED <<ownVars, podVars>>

VmmDies ==
  /\ vmm \in {"up", "deaf", "hung"}
  /\ VmmEnds
  /\ UNCHANGED <<creator, stop, netCfg, podVars>>

VmmHangs ==
  /\ Answers
  /\ vmm' = "hung"
  /\ UNCHANGED <<creator, stop, netCfg, vars, podVars>>

\* The guest stops, or its agent does; its end of the connection stays open.  To
\* the users of a running instance it is a command that never ends.
GuestHangs ==
  /\ vmm = "up"
  /\ At(Creating)
  /\ vmm' = "deaf"
  /\ UNCHANGED <<creator, stop, netCfg, vars, podVars>>

\* The other sandboxes of the pod.
Neighbour(i) ==
  /\ BeginSetup(i) \/ SetupTap(i) \/ (setup[i] = "up" /\ RemoveTap(i))
  /\ UNCHANGED <<ownVars, vars>>

\* The creator makes its own two calls.
CreatorGoesOn == Create \/ CallGoesOn(PingCall) \/ CallGoesOn(NetCall)

INext == \/ Begin \/ CreatorGoesOn \/ Cancel
         \/ \E a \in Actors : Stop(a)
         \/ \E s \in Stops : StopCall(s) \/ CancelStop(s)
         \/ \E c \in Users : Use(c) \/ CallGoesOn(c)
         \/ Guest(Decode) \/ Guest(Handle) \/ Guest(Encode)
         \/ VmmDies \/ VmmHangs \/ GuestHangs
         \/ \E i \in Insts \ {Self} : Neighbour(i)

ISpec == IInit /\ [][INext]_allVars

\* A goroutine each: the creator, every Stop, every user's call,
\* and the guest's server.  Go runs what is runnable, and commands on the host end.
\* A guest that runs answers its set-up; a user's command may run for ever.
GuestGoesOn ==
  Guest(Decode \/ Encode \/ (server.cur \in {PingCall, NetCall} /\ Handle))

IFairness == /\ WF_allVars(CreatorGoesOn \/ Stop(Self))
             /\ \A s \in Stops : WF_allVars(Stop(s))
             /\ \A c \in Users : WF_allVars(CallGoesOn(c))
             /\ WF_allVars(GuestGoesOn)

FairISpec == ISpec /\ IFairness

-----------------------------------------------------------------------------
(* Properties *)

\* A TAP in the namespace is known to Stop, or a SetupTap that will take it back
\* is at work, or an `ip link del` was tried and failed: a creation that fails
\* anywhere, and Stops that meet, forget none. (netguest.go:53-97)
TapsAccounted ==
  Self \in pod.taps => \/ netCfg
                       \/ At({"network", "restoreNetwork"}) /\ setup[Self] \in InSetup
                       \/ Self \in pod.stuck

\* A sandbox that is running and that nobody stops has its agent and, when it was
\* given a network namespace, all of the pod's traffic, whatever the other
\* sandboxes of the pod do. (netguest.go, vmnet.go:92-123)
RunningIsBridged ==
  At({"running"}) /\ ~stopping =>
    /\ conn # "none"
    /\ HasNetns => /\ Self \in pod.taps \cap pod.mirrored
                   /\ pod.redirect = Self

\* Somebody is inside Create, Restore or Stop.
Busy == \/ At(Creating)
        \/ \E a \in Actors : stop[a] \notin {"idle", "done", "panicked"}

\* A guest that hangs under a live VMM keeps a creator that asks its agent waiting.
AsksTheDeaf == vmm = "deaf" /\ At({"ping", "configure"})

\* Create, Restore and every Stop return, unless they wait for an answer that
\* nothing bounds the wait for: of a VMM that hangs with its socket open, or, for
\* the creator's two calls to the agent, of a guest that hangs.  Stop waits for no
\* guest. (driver client.go:24-36, agent client.go:27-50, driver.go:281-285,339)
CallsReturn == Busy ~> ~Busy \/ vmm = "hung" \/ AsksTheDeaf

\* A command that never ends holds nobody up for good: once Stop has begun or the
\* VMM is gone, every call of a user returns, those queued behind that command
\* included, and so does one made later. (driver.go:334-337, client.go Close)
EndFreesUsers == \A c \in Users : EndFreesCaller(c)

Over == At({"failed"}) \/ \E a \in Actors : stop[a] = "done"

Phase == CASE At({"none"})               -> "absent"
           [] Over                       -> "ended"
           [] At({"running"}) /\ ~Over   -> "running"
           [] OTHER                      -> "creating"

Held == {r \in {"vmm", "tap", "conn"} :
           \/ r = "vmm" /\ vmm \in {"up", "deaf", "hung"}
           \/ r = "tap" /\ Self \in pod.taps
           \/ r = "conn" /\ conn \in {"open", "broken"}}

\* Of all that Stop gives back only a TAP may be refused.
Refused == {r \in {"tap"} : Self \in pod.stuck}

Driver == INSTANCE DriverInstance WITH
            Resources <- {"vmm", "tap", "conn"}, Stubborn <- {"tap"},
            phase <- Phase, held <- Held, refused <- Refused

\* Every interleaving of the creator, of Stops, of the VMM's end and of the
\* pod's other sandboxes is an instance as its callers assume it. (driver.go)
ImplementsDriver == Driver!Spec
=============================================================================
