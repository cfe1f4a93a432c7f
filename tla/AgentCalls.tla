------------------------------ MODULE AgentCalls ------------------------------
(***************************************************************************)
(* What the agent connection promises the driver about each call: the      *)
(* guest does what was asked at most once, and an answer is given only     *)
(* when it has been done.  A call that fails may have been done, or may    *)
(* even be done later.                                                     *)
(***************************************************************************)
EXTENDS Naturals

CONSTANT Calls

VARIABLES outcome,      \* what the caller knows of each call
          times         \* how often the guest has carried out each call

calls == <<outcome, times>>

Init == /\ outcome = [c \in Calls |-> "idle"]
        /\ times = [c \in Calls |-> 0]

Enter(c, from, to) == /\ outcome[c] = from
                      /\ outcome' = [outcome EXCEPT ![c] = to]

Invoke(c) == Enter(c, "idle", "pending") /\ UNCHANGED times

CarryOut(c) == /\ outcome[c] \in {"pending", "failed"}
               /\ times[c] = 0
               /\ times' = [times EXCEPT ![c] = 1]
               /\ UNCHANGED outcome

Answer(c) == /\ times[c] = 1
             /\ Enter(c, "pending", "answered")
             /\ UNCHANGED times

Fail(c) == Enter(c, "pending", "failed") /\ UNCHANGED times

Next == \E c \in Calls : Invoke(c) \/ CarryOut(c) \/ Answer(c) \/ Fail(c)

Spec == Init /\ [][Next]_calls
=============================================================================
