----------------------------- MODULE GimbalLoop -----------------------------
(***************************************************************************)
(* The closed loop: DriverNode composed with a camera that moves as the    *)
(* board was last told, and with replies that show where it was when the   *)
(* board sent them.  The board (external) takes a rate or an angle of each *)
(* axis from the last control frame it received and obeys it until the     *)
(* next, whether or not the driver is still there.                         *)
(*                                                                         *)
(* The camera is in the board's convention, pitch positive downward.  It   *)
(* stays within Stops, less than half a turn wide: a wrapped reading and   *)
(* the unwrapped track name the same place.  Zero, where ~/home and        *)
(* ~/level send the camera without a look at the limits, lies inside them. *)
(***************************************************************************)
EXTENDS DriverNode

CONSTANTS
  Pace,     \* the most angle units an axis moves in one unit of time
  Stops,    \* the angles the mount can reach, in the board's convention
  QuietMax  \* where the time since the last command saturates

TheConfig == AnyConfig

(* A count of the wire's fields is one unit of the camera's angle and rate. *)
ASSUME LoopAssumption ==
  /\ AngleScale = 1 /\ RateScale = 1
  /\ Configs = {TheConfig} /\ Sane(TheConfig)
  /\ Stops \subseteq Int /\ 0 \in Stops /\ \A x, y \in Stops : x - y < HalfTurn
  /\ Pace \in Nat /\ QuietMax \in Nat
  /\ \A a \in Axes : 0 \in TheConfig.limitMin[a] .. TheConfig.limitMax[a]
  /\ QuietMax > TheConfig.commandTimeout + JumpMax + 1
  /\ MaxAge - JumpMax > TheConfig.commandTimeout
  /\ MaxAge - JumpMax > TheConfig.angleFresh
  /\ \A a \in Axes : TheConfig.maxRate[a] <= Pace
  /\ CalibGoals = {} /\ FrameChoices = {FALSE}

VARIABLES
  camera,  \* where each axis is
  order,   \* the control frame the board obeys
  reply,   \* the reply waiting in the port: where the camera was, or None
  ticked,  \* the control timer has run since time last advanced
  quiet,   \* history: true time since the last command was given
  jumped,  \* history: by how much the clock has been set back
  adrift,  \* history: the board obeys an order that may turn it, and since then
           \* the driver could not send it another
  strayed  \* history: the camera left its limits while adrift and is not back

plant    == <<camera, order, reply, ticked, quiet, jumped, adrift, strayed>>
loopVars == <<vars, plant>>

RosAnglesFlat(raw) == raw   \* mutant: pitch is taken as the board gives it

(* rosAnglesFrom: the sign convention changes and nothing else. *)
RosAngles(raw) == [a \in Axes |-> IF a = "pitch" THEN -raw[a] ELSE raw[a]]

Inside(x, cfg) == \A a \in Axes : x[a] \in cfg.limitMin[a] .. cfg.limitMax[a]

LoopInit ==
  /\ Init
  /\ camera = Zero /\ order = HoldFrame /\ reply = None
  /\ ticked = FALSE /\ quiet = 0 /\ jumped = 0
  /\ adrift = FALSE /\ strayed = FALSE

-----------------------------------------------------------------------------
(* The plant's share of a callback: the frame, if any, that reached the    *)
(* board, and whether a command was given.  A port that closes or opens    *)
(* loses the reply in it.                                                  *)
Obeys(frame, sent, commanded) ==
  /\ order' = IF sent THEN frame ELSE order
  /\ adrift' = (order'.moving /\ (~node'.open \/ node'.life # "active" \/ (adrift /\ ~sent)))
  /\ strayed' = (adrift' \/ (strayed /\ ~Inside(RosAngles(camera), TheConfig)))
  /\ quiet' = IF commanded THEN 0 ELSE quiet
  /\ UNCHANGED <<camera, jumped>>

Sends(frame, ok, commanded) ==
  /\ Obeys(frame, node.open /\ ok, commanded)
  /\ reply' = IF node.open /\ node'.open THEN reply ELSE None
  /\ UNCHANGED ticked
SendsNothing(commanded) == Sends(order, FALSE, commanded)

(* sbgc_home and sbgc_level: an angle target of zero on every axis. *)
AutoTaskFrame ==
  [mode |-> [a \in Axes |-> "ANGLE"], speed |-> Zero, angle |-> Zero, moving |-> TRUE]

(* The frame goes out before the reply is read, and a trajectory commands  *)
(* afterwards, unless the callback ends it or the link is lost.  The one   *)
(* configuration stays, and no calibration runs whose writes could fail.   *)
LoopControlTick ==
  \E ok \in BOOLEAN :
    LET poll == IF reply = None THEN [kind |-> "nothing"]
                ELSE [kind |-> "reply", angle |-> RosAngles(reply)]
    IN  /\ ControlTickOf(node, ok, IF ok THEN poll ELSE [kind |-> "error"], TRUE, TRUE)
        /\ Obeys(Tick(node.core), node.open /\ ok,
                 node.traj.active /\ node'.core.mode # "Idle")
        /\ reply' = None /\ ticked' = TRUE

LoopTimers ==
  \/ LoopControlTick
  \/ \E ok \in BOOLEAN : (TelemetryTick(ok) \/ BoardInfoTick(ok)) /\ SendsNothing(FALSE)

LoopLifecycle ==
  \/ \E cfg \in Configs, ok \in BOOLEAN : OnConfigure(cfg, ok) /\ SendsNothing(FALSE)
  \/ \E arm \in StartArmed, motors \in AutoMotorsOn, ok \in BOOLEAN :
       OnActivate(arm, motors, ok) /\ SendsNothing(FALSE)
  \/ \E ok \in BOOLEAN :
       (OnDeactivate(ok) \/ OnShutdown(ok)) /\ Sends(HoldFrame, ok, FALSE)
  \/ OnCleanup /\ SendsNothing(FALSE)

LoopClients ==
  \/ OnJointJogHold /\ SendsNothing(TRUE)
  \/ \E v \in JogRates : OnJointJogRate(v) /\ SendsNothing(TRUE)
  \/ \E v \in JogAngles : OnJointJogAngle(v) /\ SendsNothing(TRUE)
  \/ \E on \in MotorRequests, ok \in BOOLEAN : SrvSetMotors(on, ok) /\ SendsNothing(FALSE)
  \/ SrvArm /\ SendsNothing(FALSE)
  \/ \E ok \in BOOLEAN :
       \/ (SrvDisarm(ok) \/ SrvStop(ok)) /\ Sends(HoldFrame, ok, FALSE)
       \/ (SrvHome(ok) \/ SrvLevel(ok)) /\ Sends(AutoTaskFrame, ok, TRUE)
  \/ \E g \in TrajGoals : TrajAccepted(g) /\ SendsNothing(TRUE)
  \/ TrajCancel /\ SendsNothing(FALSE)

-----------------------------------------------------------------------------
(* The board and the camera.                                               *)

(* Where an axis may be after one unit of time: it follows a rate or goes  *)
(* to an angle, as far as it gets.                                         *)
Reaches(a) ==
  LET at == camera[a]
      towards(x) == {y \in Stops : /\ Magnitude(y - at) <= Pace
                                   /\ y \in (at .. x) \cup (x .. at)}
  IN  IF order.mode[a] = "SPEED" THEN towards(at + order.speed[a])
      ELSE towards(order.angle[a])

(* A reply follows the one before it into the buffer; the poll that reads  *)
(* both keeps the later.                                                   *)
BoardAnswers ==
  /\ node.open
  /\ reply' = camera
  /\ UNCHANGED <<vars, camera, order, ticked, quiet, jumped, adrift, strayed>>

(* Time, with the executor keeping up. *)
LoopAdvance ==
  /\ Active => ticked
  /\ Advance
  /\ camera' \in {c \in [Axes -> Stops] : \A a \in Axes : c[a] \in Reaches(a)}
  /\ strayed' = (adrift \/ (strayed /\ ~Inside(RosAngles(camera'), TheConfig)))
  /\ quiet' = Capped(quiet, QuietMax)
  /\ ticked' = FALSE
  /\ UNCHANGED <<order, reply, jumped, adrift>>

(* The ROS clock is set back by one unit: what was stamped is younger than *)
(* it was, and what is due comes later.                                    *)
ClockSetBack ==
  /\ jumped < JumpMax
  /\ Keeps([node EXCEPT !.core.commandAge = @ - 1, !.core.telemetryAge = @ - 1,
                        !.retryIn = @ + 1,
                        !.traj.left = IF node.traj.handle THEN @ + 1 ELSE @])
  /\ jumped' = jumped + 1
  /\ UNCHANGED <<camera, order, reply, ticked, quiet, adrift, strayed>>

LoopNext ==
  \/ LoopTimers \/ LoopLifecycle \/ LoopClients
  \/ BoardAnswers \/ LoopAdvance \/ ClockSetBack

LoopSpec == LoopInit /\ [][LoopNext]_loopVars

-----------------------------------------------------------------------------
(* The frame the board obeys is the one DriverNode believes it obeys.      *)
LoopTypeOK ==
  /\ camera \in [Axes -> Stops] /\ reply \in [Axes -> Stops] \cup {None}
  /\ order \in Frame /\ (order.moving <=> node.board.turning)
  /\ ticked \in BOOLEAN /\ quiet \in 0 .. QuietMax
  /\ adrift \in BOOLEAN /\ strayed \in BOOLEAN
  /\ node \in Node /\ jumped \in 0 .. JumpMax
  /\ node.core.commandAge \in -jumped .. MaxAge
  /\ node.core.telemetryAge \in -jumped .. MaxAge

(* How far the camera moves between the sample a frame was judged on and   *)
(* the end of that frame: the sample waits for a poll and is good for      *)
(* angle_fresh_timeout by a clock that may have been set back, and the     *)
(* frame is obeyed for one period more.                                    *)
Overshoot == Pace * (1 + TheConfig.angleFresh + jumped + 1)

(* The camera itself, and not only its track, leaves the travel limits by  *)
(* less than Overshoot, whatever the clients ask for and however the link  *)
(* and the clock behave, unless it was left turning by a driver that could *)
(* no longer reach it (README, "Critical serial-disconnect limitation").   *)
TravelKept ==
  TheConfig.enforceLimits /\ ~strayed =>
    \A a \in Axes :
      /\ RosAngles(camera)[a] > TheConfig.limitMin[a] - Overshoot
      /\ RosAngles(camera)[a] < TheConfig.limitMax[a] + Overshoot

(* The watchdog stops the camera itself: once every client has been quiet  *)
(* for command_timeout and a period, and for as long again as the clock    *)
(* was set back, the board is at rest, unless the driver cannot reach it.  *)
WatchdogStops ==
  quiet > TheConfig.commandTimeout + jumped + 1 /\ ~adrift => ~order.moving

(* A trajectory can see that it has arrived: when the camera stands where  *)
(* the frame built for the goal sends it, and telemetry says so, the goal  *)
(* is not found to be away from it (trajTick), for targets inside the      *)
(* limits.                                                                 *)
Fed == SubmitAngle(node.core, node.traj.target, node.relative)
Arrived ==
  /\ node.traj.active /\ Inside(node.traj.target, TheConfig)
  /\ Tick(Fed).moving /\ camera = Tick(Fed).angle
  /\ node.core.angleValid /\ node.core.continuous = RosAngles(camera)
ArrivalIsSeen ==
  Arrived => ~Away(node.traj.target, node.core.continuous, node.traj.tolerance)
=============================================================================
