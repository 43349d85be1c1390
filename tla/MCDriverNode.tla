---------------------------- MODULE MCDriverNode ----------------------------
(***************************************************************************)
(* Small instances of DriverNode: one axis, with two angles the camera may *)
(* report, limits that are out of the way, and time outs of one unit.      *)
(***************************************************************************)
EXTENDS DriverNode

CONSTANTS
  Fresh,     \* angle_fresh_timeout
  Settles,   \* the settle timeouts goals carry
  Skips,     \* their skip_settle_check
  Targets    \* the positions trajectories name

On(x) == [a \in Axes |-> x]
Plain ==
  [maxRate |-> On(1), limitMin |-> On(-3), limitMax |-> On(3), invert |-> On(FALSE),
   enforceLimits |-> TRUE, rollLocked |-> FALSE,
   commandTimeout |-> 1, angleFresh |-> Fresh, slew |-> 1]

MCDefaults == Plain
MCConfigs  == {Plain}
MCReplies  == {On(0), On(1)}
MCJogRates == {On(1), On(NaN)}
MCJogAngles == {On(1)}
MCNamedGoals ==
  [positions : {On(x) : x \in Targets}, tolerance : {0}, deadline : {1}]
MCTrajGoals == MCNamedGoals
  \cup [positions : {[a \in {} |-> 0]}, tolerance : {0}, deadline : {1}]
MCCalibGoals == [skip : Skips, settle : Settles]
MCOneReply  == {On(0)}
Unset == {}

(* States are told apart by what an action or a property reads: the age of *)
(* a command and its reference only while one is pending, the age of an    *)
(* angle only while it is valid, the delay to a retry only while the port  *)
(* is closed.  motors_on_ is published and read by no callback.            *)
Seen(c) ==
  [c EXCEPT !.commandAge   = IF c.mode = "Idle" THEN 0 ELSE @,
            !.haveCommand  = c.mode # "Idle",
            !.relative     = c.mode = "Position" /\ @,
            !.telemetryAge = IF c.angleValid THEN @ ELSE 0]
SeenNode == [node EXCEPT !.core = Seen(@), !.retryIn = IF node.open THEN 0 ELSE @,
                         !.motorsOn = FALSE]
View == <<SeenNode, voice, severed>>
=============================================================================
