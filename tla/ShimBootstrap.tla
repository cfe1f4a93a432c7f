----------------------------- MODULE ShimBootstrap -----------------------------
(***************************************************************************)
(* How a shim process comes and goes (pkg/shim/bootstrap.go, serve.go,     *)
(* cmd/containerd-shim-vessel-v1): the start subcommand opens the socket   *)
(* and leaves a detached daemon behind, the daemon serves, the delete      *)
(* subcommand cleans up.  They share the socket path and two files in the  *)
(* bundle, and nothing else.  All of it is for one task ID, for which      *)
(* containerd runs one subcommand at a time and kills one that is too      *)
(* slow.  A daemon has the name of the start that spawned it.              *)
(***************************************************************************)
EXTENDS Naturals

CONSTANTS
  Starts,       \* the start subcommands ever run
  Deletes,      \* the delete subcommands ever run
  NoCmd         \* no subcommand

ASSUME ConstantsAssumption ==
  /\ Starts \cap Deletes = {}
  /\ NoCmd \notin Starts \cup Deletes

Cmds == Starts \cup Deletes

VARIABLES
  socket,       \* the start whose listener the socket path leads to
  address,      \* the file address is in the bundle; its content never differs
  pidFile,      \* the daemon that shim.pid names
  daemon,       \* the daemon process of each start
  cmd,          \* where each subcommand is
  last          \* the last subcommand that was run

vars == <<socket, address, pidFile, daemon, cmd, last>>

TypeOK ==
  /\ socket \in Starts \cup {NoCmd}
  /\ address \in BOOLEAN
  /\ pidFile \in Starts \cup {NoCmd}
  /\ daemon \in [Starts -> {"none", "serving", "gone"}]
  /\ cmd \in [Cmds -> {"new", "remove", "listen", "spawn", "address", "pid",
                       "print", "kill", "socket", "returned", "failed", "killed"}]
  /\ last \in Cmds \cup {NoCmd}

Init ==
  /\ socket = NoCmd
  /\ address = FALSE
  /\ pidFile = NoCmd
  /\ daemon = [s \in Starts |-> "none"]
  /\ cmd = [c \in Cmds |-> "new"]
  /\ last = NoCmd

-----------------------------------------------------------------------------
Ended(c) == cmd[c] \in {"returned", "failed", "killed"}

Goto(c, pc) == cmd' = [cmd EXCEPT ![c] = pc]

\* containerd creates a task again only when it has lost the old shim.
Run(c, pc) ==
  /\ cmd[c] = "new"
  /\ \A e \in Cmds : cmd[e] = "new" \/ Ended(e)
  /\ Goto(c, pc)
  /\ last' = c

BeginStart(s) ==
  /\ \A t \in Starts : cmd[t] = "returned" => daemon[t] # "serving"
  /\ Run(s, "remove")
  /\ UNCHANGED <<socket, address, pidFile, daemon>>

BeginDelete(d) ==
  /\ Run(d, "kill")
  /\ UNCHANGED <<socket, address, pidFile, daemon>>

\* containerd gives up on the subcommand, which leaves no trace of itself.
KillCmd(c) ==
  /\ ~Ended(c) /\ cmd[c] # "new"
  /\ Goto(c, "killed")
  /\ UNCHANGED <<socket, address, pidFile, daemon, last>>

-----------------------------------------------------------------------------
(* RunStart *)

\* The directory of the socket may be missing and impossible to make.
RemoveStale(s) ==
  /\ cmd[s] = "remove"
  /\ \/ socket' = NoCmd /\ Goto(s, "listen")
     \/ Goto(s, "failed") /\ UNCHANGED socket
  /\ UNCHANGED <<address, pidFile, daemon, last>>

\* A path that exists cannot be bound to.
Listen(s) ==
  /\ cmd[s] = "listen"
  /\ IF socket = NoCmd
     THEN socket' = s /\ Goto(s, "spawn")
     ELSE Goto(s, "failed") /\ UNCHANGED socket
  /\ UNCHANGED <<address, pidFile, daemon, last>>

\* The socket file stays when the listener is closed by a failed start.
Spawn(s) ==
  /\ cmd[s] = "spawn"
  /\ \/ daemon' = [daemon EXCEPT ![s] = "serving"] /\ Goto(s, "address")
     \/ Goto(s, "failed") /\ UNCHANGED daemon
  /\ UNCHANGED <<socket, address, pidFile, last>>

\* cmd.Process.Kill of a start that cannot write.
GiveUp(s) ==
  /\ daemon' = [daemon EXCEPT ![s] = "gone"]
  /\ Goto(s, "failed")

WriteAddress(s) ==
  /\ cmd[s] = "address"
  /\ \/ address' = TRUE /\ Goto(s, "pid") /\ UNCHANGED daemon
     \/ GiveUp(s) /\ UNCHANGED address
  /\ UNCHANGED <<socket, pidFile, last>>

\* Faulty: closing the start's copy of the listener removes the path.
WritePidUnlinking(s) ==
  /\ cmd[s] = "pid"
  /\ pidFile' = s
  /\ socket' = NoCmd
  /\ Goto(s, "print")
  /\ UNCHANGED <<address, daemon, last>>

\* Faulty: the daemon is left behind when shim.pid cannot be written.
WritePidLenient(s) ==
  /\ cmd[s] = "pid"
  /\ \/ pidFile' = s /\ Goto(s, "print")
     \/ Goto(s, "failed") /\ UNCHANGED pidFile
  /\ UNCHANGED <<socket, address, daemon, last>>

\* Faulty: written in place, so that half a file may be left or seen.
WritePidInPlace(s) ==
  /\ cmd[s] = "pid"
  /\ pidFile' = "half"
  /\ UNCHANGED <<socket, address, daemon, cmd, last>>

\* Written to another name and renamed, so no one sees half a file.  The start's
\* copies of the listener then close and the path stays.
WritePid(s) ==
  /\ cmd[s] = "pid"
  /\ \/ pidFile' = s /\ Goto(s, "print") /\ UNCHANGED daemon
     \/ GiveUp(s) /\ UNCHANGED pidFile
  /\ UNCHANGED <<socket, address, last>>

\* main prints the address and exits.
PrintAddress(s) ==
  /\ cmd[s] = "print"
  /\ Goto(s, "returned")
  /\ UNCHANGED <<socket, address, pidFile, daemon, last>>

-----------------------------------------------------------------------------
(* RunDaemon *)

\* No configuration, Shutdown, a signal or a crash.  Its files stay.
DaemonEnds(s) ==
  /\ daemon[s] = "serving"
  /\ daemon' = [daemon EXCEPT ![s] = "gone"]
  /\ UNCHANGED <<socket, address, pidFile, cmd, last>>

-----------------------------------------------------------------------------
(* RunDelete *)

\* Faulty: the daemon is asked to end with SIGTERM.
KillDaemonPolitely(d) ==
  /\ cmd[d] = "kill"
  /\ Goto(d, "socket")
  /\ UNCHANGED <<socket, address, pidFile, daemon, last>>

KillDaemon(d) ==
  /\ cmd[d] = "kill"
  /\ daemon' = [s \in Starts |-> IF s = pidFile /\ daemon[s] = "serving"
                                 THEN "gone" ELSE daemon[s]]
  /\ Goto(d, "socket")
  /\ UNCHANGED <<socket, address, pidFile, last>>

RemoveSocket(d) ==
  /\ cmd[d] = "socket"
  /\ socket' = NoCmd
  /\ Goto(d, "address")
  /\ UNCHANGED <<address, pidFile, daemon, last>>

RemoveAddress(d) ==
  /\ cmd[d] = "address"
  /\ address' = FALSE
  /\ Goto(d, "pid")
  /\ UNCHANGED <<socket, pidFile, daemon, last>>

RemovePid(d) ==
  /\ cmd[d] = "pid"
  /\ pidFile' = NoCmd
  /\ Goto(d, "returned")
  /\ UNCHANGED <<socket, address, daemon, last>>

-----------------------------------------------------------------------------
Start(s) == RemoveStale(s) \/ Listen(s) \/ Spawn(s) \/ WriteAddress(s)
            \/ WritePid(s) \/ PrintAddress(s)

Delete(d) == KillDaemon(d) \/ RemoveSocket(d) \/ RemoveAddress(d) \/ RemovePid(d)

Next == \/ \E s \in Starts : BeginStart(s) \/ Start(s) \/ DaemonEnds(s)
        \/ \E d \in Deletes : BeginDelete(d) \/ Delete(d)
        \/ \E c \in Cmds : KillCmd(c)

Spec == Init /\ [][Next]_vars

-----------------------------------------------------------------------------
(* Properties *)

\* The address that start prints leads to the daemon it spawned, and shim.pid
\* to the same process: the last word of containerd on this task. An older
\* start's files never come between. (bootstrap.go:92-96, 125-133)
AddressServed ==
  \A s \in Starts :
    last = s /\ cmd[s] = "returned" => socket = s /\ address /\ pidFile = s

\* After a delete, run again if it was killed, nothing of any shim is left, of a
\* start that failed neither, but for daemons whose start was killed on the way:
\* before shim.pid was written, or before a later start wrote over it.
\* (bootstrap.go:125-132, 178-198)
DeleteEndsShim ==
  \A d \in Deletes : last = d /\ cmd[d] = "returned" =>
    /\ socket = NoCmd /\ ~address /\ pidFile = NoCmd
    /\ \A s \in Starts : daemon[s] = "serving" => cmd[s] = "killed"

\* shim.pid is removed only when its process is dead, whatever was killed
\* before: it is the only way to the daemon. (bootstrap.go:187-197)
PidKeptWhileServing ==
  [][pidFile # NoCmd /\ pidFile' = NoCmd => daemon[pidFile] # "serving"]_vars
=============================================================================
