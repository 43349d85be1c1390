---------------------------- MODULE MCGimbalLoop ----------------------------
(***************************************************************************)
(* One axis, pitch, whose upper limit lies where the camera starts or near *)
(* it.  There is room beyond it for the largest overshoot; a stop is near  *)
(* on the other side.                                                      *)
(***************************************************************************)
EXTENDS GimbalLoop

CONSTANTS
  UpperLimit,  \* the upper travel limit
  Inverted,    \* the invert parameter
  Targets      \* how far below the horizon a trajectory may aim

On(x) == [a \in Axes |-> x]
Plain ==
  [maxRate |-> On(1), limitMin |-> On(-1), limitMax |-> On(UpperLimit),
   invert |-> On(Inverted), enforceLimits |-> TRUE, rollLocked |-> FALSE,
   commandTimeout |-> 1, angleFresh |-> 1, slew |-> 1]

MCDefaults  == Plain
MCConfigs   == {Plain}
MCStops     == -4 .. 1   \* pitch in the board's convention: downward is positive
MCJogRates  == {On(1), On(-1)}
MCTrajGoals == [positions : {On(-x) : x \in Targets}, tolerance : {0}, deadline : {1}]
Unset == {}

(* States are told apart by what an action or an invariant reads: a track  *)
(* only while it is valid, the age of a command only while one is pending, *)
(* the delay to a retry only while the port is closed, the time the        *)
(* clients have been quiet only while the camera turns or may be set       *)
(* turning, and of a finalized node nothing but what the camera does.      *)
(* voice, severed and how the last goal ended are histories of no use here. *)
Seen(c) ==
  [c EXCEPT !.commandAge   = IF c.mode = "Idle" THEN 0 ELSE @,
            !.haveCommand  = c.mode # "Idle",
            !.telemetryAge = IF c.angleValid THEN @ ELSE 0,
            !.continuous   = IF c.angleValid THEN @ ELSE Zero]
SeenNode ==
  IF node.life = "finalized" THEN "finalized"
  ELSE [node EXCEPT !.core = Seen(@), !.traj.goal = IF node.traj.handle THEN @ ELSE "none",
                    !.retryIn = IF node.open THEN 0 ELSE @,
                    !.haveRealtime = FALSE, !.motorsOn = FALSE]
AtRest == ~order.moving /\ node.core.mode = "Idle" /\ ~node.traj.active
SeenQuiet == IF AtRest THEN 0 ELSE quiet
View == <<SeenNode, camera, order, reply, ticked, SeenQuiet, jumped, adrift, strayed>>
=============================================================================
