------------------------- MODULE ShimBootstrap_proofs -------------------------
(***************************************************************************)
(* The shim's subcommands and its daemon (ShimBootstrap), for every set of *)
(* start and delete subcommands, wherever each of them is killed.  What is *)
(* inductive says, for each place a subcommand can be at, which of the     *)
(* socket, the two files and the daemons it has seen to by then.           *)
(***************************************************************************)
EXTENDS ShimBootstrap, TLAPS

\* A start at one of these has opened the socket, written address, shim.pid.
Opened    == {"spawn", "address", "pid", "print", "returned"}
Addressed == {"pid", "print", "returned"}
PidGiven  == {"print", "returned"}

\* A delete at one of these has killed the daemon, removed the socket, address.
Killed      == {"socket", "address", "pid", "returned"}
SocketGone  == {"address", "pid", "returned"}
AddressGone == {"pid", "returned"}

\* Only the last subcommand can still be running.
OneCommand ==
  /\ \A c \in Cmds : cmd[c] = "new" \/ Ended(c) \/ c = last
  /\ \A c \in Cmds : c = last => cmd[c] # "new"

Places ==
  /\ \A s \in Starts : cmd[s] \notin {"kill", "socket"}
  /\ \A d \in Deletes : cmd[d] \notin {"remove", "listen", "spawn", "print", "failed"}

\* How far the last start has come.
StartDone ==
  \A s \in Starts : last = s =>
    /\ cmd[s] \in Opened => socket = s
    /\ cmd[s] \in Addressed => address
    /\ cmd[s] \in PidGiven => pidFile = s

\* Where a start is whose daemon serves; and one that serves for a start that
\* returned is named by shim.pid, while no younger start is under way.
Serving ==
  \A s \in Starts : daemon[s] = "serving" =>
    /\ cmd[s] \in {"address", "pid", "print", "returned", "killed"}
    /\ cmd[s] = "returned" => /\ pidFile = s
                              /\ \A t \in Starts : t = last /\ t # s => Ended(t)

\* How far the last delete has come.
DeleteDone ==
  \A d \in Deletes : last = d =>
    /\ cmd[d] \in Killed =>
         /\ pidFile # NoCmd => daemon[pidFile] # "serving"
         /\ \A s \in Starts : daemon[s] = "serving" => cmd[s] = "killed"
    /\ cmd[d] \in SocketGone => socket = NoCmd
    /\ cmd[d] \in AddressGone => ~address
    /\ cmd[d] = "returned" => pidFile = NoCmd

BootInv == OneCommand /\ Places /\ StartDone /\ Serving /\ DeleteDone

-----------------------------------------------------------------------------
\* Every subcommand and the daemon keep the types. (bootstrap.go)
LEMMA TypeStep ==
  ASSUME TypeOK, [Next]_vars
  PROVE  TypeOK'
<1> USE DEF TypeOK, Cmds
<1>1. ASSUME NEW s \in Starts, BeginStart(s) PROVE TypeOK'
  BY <1>1 DEF BeginStart, Run, Goto
<1>2. ASSUME NEW s \in Starts, RemoveStale(s) PROVE TypeOK'
  BY <1>2 DEF RemoveStale, Goto
<1>3. ASSUME NEW s \in Starts, Listen(s) PROVE TypeOK'
  BY <1>3 DEF Listen, Goto
<1>4. ASSUME NEW s \in Starts, Spawn(s) PROVE TypeOK'
  BY <1>4 DEF Spawn, Goto
<1>5. ASSUME NEW s \in Starts, WriteAddress(s) PROVE TypeOK'
  BY <1>5 DEF WriteAddress, GiveUp, Goto
<1>6. ASSUME NEW s \in Starts, WritePid(s) PROVE TypeOK'
  BY <1>6 DEF WritePid, GiveUp, Goto
<1>7. ASSUME NEW s \in Starts, PrintAddress(s) PROVE TypeOK'
  BY <1>7 DEF PrintAddress, Goto
<1>8. ASSUME NEW s \in Starts, DaemonEnds(s) PROVE TypeOK'
  BY <1>8 DEF DaemonEnds
<1>9. ASSUME NEW d \in Deletes, BeginDelete(d) PROVE TypeOK'
  BY <1>9 DEF BeginDelete, Run, Goto
<1>10. ASSUME NEW d \in Deletes, KillDaemon(d) PROVE TypeOK'
  BY <1>10 DEF KillDaemon, Goto
<1>11. ASSUME NEW d \in Deletes, RemoveSocket(d) PROVE TypeOK'
  BY <1>11 DEF RemoveSocket, Goto
<1>12. ASSUME NEW d \in Deletes, RemoveAddress(d) PROVE TypeOK'
  BY <1>12 DEF RemoveAddress, Goto
<1>13. ASSUME NEW d \in Deletes, RemovePid(d) PROVE TypeOK'
  BY <1>13 DEF RemovePid, Goto
<1>14. ASSUME NEW c \in Cmds, KillCmd(c) PROVE TypeOK'
  BY <1>14 DEF KillCmd, Goto
<1>15. CASE UNCHANGED vars
  BY <1>15 DEF vars
<1>16. QED
  BY <1>1, <1>2, <1>3, <1>4, <1>5, <1>6, <1>7, <1>8, <1>9, <1>10, <1>11, <1>12, <1>13, <1>14, <1>15 DEF Next, Start, Delete

\* No subcommand begins before the one before it has ended. (containerd, for
\* one task ID)
LEMMA OneCommandStep ==
  ASSUME TypeOK, OneCommand, [Next]_vars
  PROVE  OneCommand'
<1> USE DEF TypeOK, Cmds, OneCommand, Ended
<1>1. ASSUME NEW s \in Starts, BeginStart(s) PROVE OneCommand'
  BY <1>1 DEF BeginStart, Run, Goto
<1>2. ASSUME NEW s \in Starts, RemoveStale(s) PROVE OneCommand'
  BY <1>2 DEF RemoveStale, Goto
<1>3. ASSUME NEW s \in Starts, Listen(s) PROVE OneCommand'
  BY <1>3 DEF Listen, Goto
<1>4. ASSUME NEW s \in Starts, Spawn(s) PROVE OneCommand'
  BY <1>4 DEF Spawn, Goto
<1>5. ASSUME NEW s \in Starts, WriteAddress(s) PROVE OneCommand'
  BY <1>5 DEF WriteAddress, GiveUp, Goto
<1>6. ASSUME NEW s \in Starts, WritePid(s) PROVE OneCommand'
  BY <1>6 DEF WritePid, GiveUp, Goto
<1>7. ASSUME NEW s \in Starts, PrintAddress(s) PROVE OneCommand'
  BY <1>7 DEF PrintAddress, Goto
<1>8. ASSUME NEW s \in Starts, DaemonEnds(s) PROVE OneCommand'
  BY <1>8 DEF DaemonEnds
<1>9. ASSUME NEW d \in Deletes, BeginDelete(d) PROVE OneCommand'
  BY <1>9 DEF BeginDelete, Run, Goto
<1>10. ASSUME NEW d \in Deletes, KillDaemon(d) PROVE OneCommand'
  BY <1>10 DEF KillDaemon, Goto
<1>11. ASSUME NEW d \in Deletes, RemoveSocket(d) PROVE OneCommand'
  BY <1>11 DEF RemoveSocket, Goto
<1>12. ASSUME NEW d \in Deletes, RemoveAddress(d) PROVE OneCommand'
  BY <1>12 DEF RemoveAddress, Goto
<1>13. ASSUME NEW d \in Deletes, RemovePid(d) PROVE OneCommand'
  BY <1>13 DEF RemovePid, Goto
<1>14. ASSUME NEW c \in Cmds, KillCmd(c) PROVE OneCommand'
  BY <1>14 DEF KillCmd, Goto
<1>15. CASE UNCHANGED vars
  BY <1>15 DEF vars
<1>16. QED
  BY <1>1, <1>2, <1>3, <1>4, <1>5, <1>6, <1>7, <1>8, <1>9, <1>10, <1>11, <1>12, <1>13, <1>14, <1>15 DEF Next, Start, Delete

\* Each of the five parts survives every step. (bootstrap.go RunStart, RunDelete)
LEMMA BootStep ==
  ASSUME TypeOK, BootInv, [Next]_vars
  PROVE  BootInv'
<1> USE ConstantsAssumption DEF TypeOK, Cmds, OneCommand, Ended, BootInv, Places
<1>0. OneCommand'
  BY OneCommandStep
<1>1. ASSUME NEW s \in Starts, BeginStart(s) PROVE BootInv'
  <2>1. Places'
    BY <1>1 DEF BeginStart, Run, Goto
  <2>2. StartDone'
    BY <1>1 DEF BeginStart, Run, Goto, StartDone, Opened, Addressed, PidGiven
  <2>3. Serving'
    BY <1>1 DEF BeginStart, Run, Goto, Serving, StartDone, PidGiven, DeleteDone, Killed
  <2>4. DeleteDone'
    BY <1>1 DEF BeginStart, Run, Goto, DeleteDone, Serving, Killed, SocketGone, AddressGone
  <2>5. QED
    BY <1>0, <2>1, <2>2, <2>3, <2>4
<1>2. ASSUME NEW s \in Starts, RemoveStale(s) PROVE BootInv'
  <2>1. Places'
    BY <1>2 DEF RemoveStale, Goto
  <2>2. StartDone'
    BY <1>2 DEF RemoveStale, Goto, StartDone, Opened, Addressed, PidGiven
  <2>3. Serving'
    BY <1>2 DEF RemoveStale, Goto, Serving, StartDone, PidGiven, DeleteDone, Killed
  <2>4. DeleteDone'
    BY <1>2 DEF RemoveStale, Goto, DeleteDone, Serving, Killed, SocketGone, AddressGone
  <2>5. QED
    BY <1>0, <2>1, <2>2, <2>3, <2>4
<1>3. ASSUME NEW s \in Starts, Listen(s) PROVE BootInv'
  <2>1. Places'
    BY <1>3 DEF Listen, Goto
  <2>2. StartDone'
    BY <1>3 DEF Listen, Goto, StartDone, Opened, Addressed, PidGiven
  <2>3. Serving'
    BY <1>3 DEF Listen, Goto, Serving, StartDone, PidGiven, DeleteDone, Killed
  <2>4. DeleteDone'
    BY <1>3 DEF Listen, Goto, DeleteDone, Serving, Killed, SocketGone, AddressGone
  <2>5. QED
    BY <1>0, <2>1, <2>2, <2>3, <2>4
<1>4. ASSUME NEW s \in Starts, Spawn(s) PROVE BootInv'
  <2>1. Places'
    BY <1>4 DEF Spawn, Goto
  <2>2. StartDone'
    BY <1>4 DEF Spawn, Goto, StartDone, Opened, Addressed, PidGiven
  <2>3. Serving'
    BY <1>4 DEF Spawn, Goto, Serving, StartDone, PidGiven, DeleteDone, Killed
  <2>4. DeleteDone'
    BY <1>4 DEF Spawn, Goto, DeleteDone, Serving, Killed, SocketGone, AddressGone
  <2>5. QED
    BY <1>0, <2>1, <2>2, <2>3, <2>4
<1>5. ASSUME NEW s \in Starts, WriteAddress(s) PROVE BootInv'
  <2>1. Places'
    BY <1>5 DEF WriteAddress, GiveUp, Goto
  <2>2. StartDone'
    BY <1>5 DEF WriteAddress, GiveUp, Goto, StartDone, Opened, Addressed, PidGiven
  <2>3. Serving'
    BY <1>5 DEF WriteAddress, GiveUp, Goto, Serving, StartDone, PidGiven, DeleteDone, Killed
  <2>4. DeleteDone'
    BY <1>5 DEF WriteAddress, GiveUp, Goto, DeleteDone, Serving, Killed, SocketGone, AddressGone
  <2>5. QED
    BY <1>0, <2>1, <2>2, <2>3, <2>4
<1>6. ASSUME NEW s \in Starts, WritePid(s) PROVE BootInv'
  <2>1. Places'
    BY <1>6 DEF WritePid, GiveUp, Goto
  <2>2. StartDone'
    BY <1>6 DEF WritePid, GiveUp, Goto, StartDone, Opened, Addressed, PidGiven
  <2>3. Serving'
    BY <1>6 DEF WritePid, GiveUp, Goto, Serving, StartDone, PidGiven, DeleteDone, Killed
  <2>4. DeleteDone'
    BY <1>6 DEF WritePid, GiveUp, Goto, DeleteDone, Serving, Killed, SocketGone, AddressGone
  <2>5. QED
    BY <1>0, <2>1, <2>2, <2>3, <2>4
<1>7. ASSUME NEW s \in Starts, PrintAddress(s) PROVE BootInv'
  <2>1. Places'
    BY <1>7 DEF PrintAddress, Goto
  <2>2. StartDone'
    BY <1>7 DEF PrintAddress, Goto, StartDone, Opened, Addressed, PidGiven
  <2>3. Serving'
    BY <1>7 DEF PrintAddress, Goto, Serving, StartDone, PidGiven, DeleteDone, Killed
  <2>4. DeleteDone'
    BY <1>7 DEF PrintAddress, Goto, DeleteDone, Serving, Killed, SocketGone, AddressGone
  <2>5. QED
    BY <1>0, <2>1, <2>2, <2>3, <2>4
<1>8. ASSUME NEW s \in Starts, DaemonEnds(s) PROVE BootInv'
  <2>1. Places'
    BY <1>8 DEF DaemonEnds
  <2>2. StartDone'
    BY <1>8 DEF DaemonEnds, StartDone, Opened, Addressed, PidGiven
  <2>3. Serving'
    BY <1>8 DEF DaemonEnds, Serving, StartDone, PidGiven, DeleteDone, Killed
  <2>4. DeleteDone'
    BY <1>8 DEF DaemonEnds, DeleteDone, Serving, Killed, SocketGone, AddressGone
  <2>5. QED
    BY <1>0, <2>1, <2>2, <2>3, <2>4
<1>9. ASSUME NEW d \in Deletes, BeginDelete(d) PROVE BootInv'
  <2>1. Places'
    BY <1>9 DEF BeginDelete, Run, Goto
  <2>2. StartDone'
    BY <1>9 DEF BeginDelete, Run, Goto, StartDone, Opened, Addressed, PidGiven
  <2>3. Serving'
    BY <1>9 DEF BeginDelete, Run, Goto, Serving, StartDone, PidGiven, DeleteDone, Killed
  <2>4. DeleteDone'
    BY <1>9 DEF BeginDelete, Run, Goto, DeleteDone, Serving, Killed, SocketGone, AddressGone
  <2>5. QED
    BY <1>0, <2>1, <2>2, <2>3, <2>4
<1>10. ASSUME NEW d \in Deletes, KillDaemon(d) PROVE BootInv'
  <2>1. Places'
    BY <1>10 DEF KillDaemon, Goto
  <2>2. StartDone'
    BY <1>10 DEF KillDaemon, Goto, StartDone, Opened, Addressed, PidGiven
  <2>3. Serving'
    BY <1>10 DEF KillDaemon, Goto, Serving, StartDone, PidGiven, DeleteDone, Killed
  <2>4. DeleteDone'
    BY <1>10 DEF KillDaemon, Goto, DeleteDone, Serving, Killed, SocketGone, AddressGone
  <2>5. QED
    BY <1>0, <2>1, <2>2, <2>3, <2>4
<1>11. ASSUME NEW d \in Deletes, RemoveSocket(d) PROVE BootInv'
  <2>1. Places'
    BY <1>11 DEF RemoveSocket, Goto
  <2>2. StartDone'
    BY <1>11 DEF RemoveSocket, Goto, StartDone, Opened, Addressed, PidGiven
  <2>3. Serving'
    BY <1>11 DEF RemoveSocket, Goto, Serving, StartDone, PidGiven, DeleteDone, Killed
  <2>4. DeleteDone'
    BY <1>11 DEF RemoveSocket, Goto, DeleteDone, Serving, Killed, SocketGone, AddressGone
  <2>5. QED
    BY <1>0, <2>1, <2>2, <2>3, <2>4
<1>12. ASSUME NEW d \in Deletes, RemoveAddress(d) PROVE BootInv'
  <2>1. Places'
    BY <1>12 DEF RemoveAddress, Goto
  <2>2. StartDone'
    BY <1>12 DEF RemoveAddress, Goto, StartDone, Opened, Addressed, PidGiven
  <2>3. Serving'
    BY <1>12 DEF RemoveAddress, Goto, Serving, StartDone, PidGiven, DeleteDone, Killed
  <2>4. DeleteDone'
    BY <1>12 DEF RemoveAddress, Goto, DeleteDone, Serving, Killed, SocketGone, AddressGone
  <2>5. QED
    BY <1>0, <2>1, <2>2, <2>3, <2>4
<1>13. ASSUME NEW d \in Deletes, RemovePid(d) PROVE BootInv'
  <2>1. Places'
    BY <1>13 DEF RemovePid, Goto
  <2>2. StartDone'
    BY <1>13 DEF RemovePid, Goto, StartDone, Opened, Addressed, PidGiven
  <2>3. Serving'
    BY <1>13 DEF RemovePid, Goto, Serving, StartDone, PidGiven, DeleteDone, Killed
  <2>4. DeleteDone'
    BY <1>13 DEF RemovePid, Goto, DeleteDone, Serving, Killed, SocketGone, AddressGone
  <2>5. QED
    BY <1>0, <2>1, <2>2, <2>3, <2>4
<1>14. ASSUME NEW c \in Cmds, KillCmd(c) PROVE BootInv'
  <2>1. Places'
    BY <1>14 DEF KillCmd, Goto
  <2>2. StartDone'
    BY <1>14 DEF KillCmd, Goto, StartDone, Opened, Addressed, PidGiven
  <2>3. Serving'
    BY <1>14 DEF KillCmd, Goto, Serving, StartDone, PidGiven, DeleteDone, Killed
  <2>4. DeleteDone'
    BY <1>14 DEF KillCmd, Goto, DeleteDone, Serving, Killed, SocketGone, AddressGone
  <2>5. QED
    BY <1>0, <2>1, <2>2, <2>3, <2>4
<1>15. CASE UNCHANGED vars
  BY <1>15 DEF vars, StartDone, Serving, DeleteDone
<1>16. QED
  BY <1>1, <1>2, <1>3, <1>4, <1>5, <1>6, <1>7, <1>8, <1>9, <1>10, <1>11, <1>12, <1>13, <1>14, <1>15 DEF Next, Start, Delete

-----------------------------------------------------------------------------
\* At first there is nothing. (bootstrap.go)
LEMMA BootInit == Init => TypeOK /\ BootInv
  BY ConstantsAssumption DEF Init, TypeOK, BootInv, Cmds, Ended, OneCommand,
     Places, StartDone, Serving, DeleteDone, Opened, Addressed, PidGiven, Killed,
     SocketGone, AddressGone

\* What is inductive, and the types, always hold. (bootstrap.go)
LEMMA Always == Spec => [](TypeOK /\ BootInv)
<1>1. TypeOK /\ BootInv /\ [Next]_vars => (TypeOK /\ BootInv)'
  BY TypeStep, BootStep
<1>2. QED
  BY BootInit, <1>1, PTL DEF Spec

\* The socket path, the two files, the daemons and the subcommands keep their
\* types. (bootstrap.go)
THEOREM TypeCorrect == Spec => []TypeOK
  BY Always, PTL

\* The address that the last start printed leads to the daemon it spawned, and
\* shim.pid to the same process. (bootstrap.go:92-133)
THEOREM StartServes == Spec => []AddressServed
<1>1. BootInv => AddressServed
  BY DEF BootInv, StartDone, AddressServed, Opened, Addressed, PidGiven
<1>2. QED
  BY <1>1, Always, PTL

\* A delete that returns leaves nothing of any shim behind but daemons whose
\* start was killed. (bootstrap.go:178-198)
THEOREM DeleteCleansUp == Spec => []DeleteEndsShim
<1>1. BootInv => DeleteEndsShim
  BY DEF BootInv, DeleteDone, DeleteEndsShim, Killed, SocketGone, AddressGone
<1>2. QED
  BY <1>1, Always, PTL

\* No step removes shim.pid while the process it names serves: whoever removes
\* it has killed that process, and none was spawned since. (bootstrap.go:187-197)
THEOREM PidKept == Spec => PidKeptWhileServing
<1>1. ASSUME TypeOK, BootInv, [Next]_vars, pidFile # NoCmd, pidFile' = NoCmd
      PROVE  daemon[pidFile] # "serving"
  <2>1. ASSUME NEW s \in Starts, BeginStart(s) \/ Start(s) \/ DaemonEnds(s)
        PROVE  FALSE
    BY <1>1, <2>1, ConstantsAssumption
       DEF BeginStart, Start, DaemonEnds, RemoveStale, Listen, Spawn, WriteAddress,
           WritePid, PrintAddress, GiveUp, Cmds
  <2>2. ASSUME NEW d \in Deletes, RemovePid(d)
        PROVE  daemon[pidFile] # "serving"
    BY <1>1, <2>2 DEF RemovePid, BootInv, OneCommand, Ended, DeleteDone, Killed, Cmds
  <2>3. QED
    BY <1>1, <2>1, <2>2
       DEF Next, Delete, BeginDelete, KillDaemon, RemoveSocket, RemoveAddress, KillCmd, vars
<1>2. TypeOK /\ BootInv /\ [Next]_vars
        => [pidFile # NoCmd /\ pidFile' = NoCmd => daemon[pidFile] # "serving"]_vars
  BY <1>1
<1>3. QED
  BY <1>2, Always, PTL DEF Spec, PidKeptWhileServing
===============================================================================
