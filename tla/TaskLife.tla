------------------------------ MODULE TaskLife ------------------------------
(***************************************************************************)
(* The life of the replay tasks as backtest/tasks_db.py states it:         *)
(* PENDING, RUNNING, then one of SUCCESS, FAILED and CANCELLED for good.   *)
(***************************************************************************)
CONSTANT Task

VARIABLE status

Over == {"SUCCESS", "FAILED", "CANCELLED"}

Init == status = [t \in Task |-> "ABSENT"]

Moves(t, from, to) ==
    /\ status[t] \in from
    /\ \E s \in to : status' = [status EXCEPT ![t] = s]

\* A restart ends everything that runs.
Interrupt ==
    status' = [t \in Task |-> IF status[t] = "RUNNING" THEN "FAILED" ELSE status[t]]

Next ==
    \/ \E t \in Task : \/ Moves(t, {"ABSENT"}, {"PENDING"})
                       \/ Moves(t, {"PENDING"}, {"RUNNING"})
                       \/ Moves(t, {"RUNNING"}, Over)
    \/ Interrupt

Spec == Init /\ [][Next]_status

=============================================================================
