--------------------------- MODULE MotionAuthority ---------------------------
(***************************************************************************)
(* What GimbalCore promises its operator, with every datum abstracted      *)
(* away.  The board is told to move only while a motion order stands.  An  *)
(* order can be given only while motion is permitted, any loss of the      *)
(* permission withdraws it, and an order that has expired does not come    *)
(* back: the operator has to give it again.                                *)
(***************************************************************************)
VARIABLES
  permitted,   \* control allowed, armed, and the link up
  order,       \* "none", "live" or "expired"
  moving       \* the step just taken sent a frame that can cause motion

vars == <<permitted, order, moving>>

Init == permitted = FALSE /\ order = "none" /\ moving = FALSE

Permit == permitted' = TRUE /\ order' = order /\ moving' = FALSE

Forbid == permitted' = FALSE /\ order' = "none" /\ moving' = FALSE

Give ==
  permitted /\ order' = "live" /\ permitted' = permitted /\ moving' = FALSE

Withdraw == order' = "none" /\ permitted' = permitted /\ moving' = FALSE

Expire ==
  /\ order = "live" /\ order' = "expired"
  /\ permitted' = permitted /\ moving' = FALSE

SendMotion == permitted /\ order = "live" /\ moving' = TRUE /\ UNCHANGED <<permitted, order>>

(* A hold frame, or nothing at all. *)
Rest == moving' = FALSE /\ UNCHANGED <<permitted, order>>

Next == Permit \/ Forbid \/ Give \/ Withdraw \/ Expire \/ SendMotion \/ Rest

Spec == Init /\ [][Next]_vars
=============================================================================
