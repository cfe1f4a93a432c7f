---------------------------- MODULE TaskLifecycle ----------------------------
(***************************************************************************)
(* What the shim promises containerd about one task object, whatever the   *)
(* order in which its RPCs run: the object is created once, may be         *)
(* started, exits once with one exit code, and disappears only after it    *)
(* has exited.  Nothing of an object that has exited ever changes again.   *)
(***************************************************************************)
CONSTANTS Tasks,        \* the task objects
          ExitCodes     \* the exit codes a task may report

VARIABLES phase,        \* where each task is in its life
          exitCode      \* the exit code recorded, meaningful once it exited

lifecycle == <<phase, exitCode>>

Phases == {"absent", "created", "running", "exited", "deleted"}

Init == /\ phase = [t \in Tasks |-> "absent"]
        /\ exitCode = [t \in Tasks |-> 0]

Enter(t, from, to) == /\ phase[t] \in from
                      /\ phase' = [phase EXCEPT ![t] = to]

Create(t) == Enter(t, {"absent"}, "created") /\ UNCHANGED exitCode

Start(t)  == Enter(t, {"created"}, "running") /\ UNCHANGED exitCode

Exit(t)   == /\ Enter(t, {"created", "running"}, "exited")
             /\ \E c \in ExitCodes : exitCode' = [exitCode EXCEPT ![t] = c]

Delete(t) == Enter(t, {"exited"}, "deleted") /\ UNCHANGED exitCode

Next == \E t \in Tasks : Create(t) \/ Start(t) \/ Exit(t) \/ Delete(t)

Spec == Init /\ [][Next]_lifecycle
=============================================================================
