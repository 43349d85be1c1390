----------------------------- MODULE ActionGoal -----------------------------
(***************************************************************************)
(* What the client of one action server may see of its goals, one after    *)
(* the other: the goal state machine rclcpp_action enforces, as the        *)
(* driver's comments state it.  A transition outside it throws out of a    *)
(* callback and takes the process down.                                    *)
(***************************************************************************)
VARIABLE goal

Ended == {"none", "succeeded", "aborted", "canceled"}

Init == goal = "none"

Accept  == goal \in Ended /\ goal' = "executing"
Cancel  == goal = "executing" /\ goal' = "canceling"
Succeed == goal = "executing" /\ goal' = "succeeded"
Abort   == goal = "executing" /\ goal' = "aborted"
CancelDone == goal = "canceling" /\ goal' = "canceled"

(* A goal that is accepted and fails inside the accepted callback. *)
AcceptAndAbort == goal \in Ended /\ goal' = "aborted"

Next == Accept \/ Cancel \/ Succeed \/ Abort \/ CancelDone \/ AcceptAndAbort

Spec == Init /\ [][Next]_goal
=============================================================================
