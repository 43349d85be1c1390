----------------------------- MODULE DriverNode -----------------------------
(***************************************************************************)
(* SbgcDriverNode: the lifecycle node around GimbalCore.  One action is    *)
(* one callback, whole: the executor of main.cpp runs one at a time.  What *)
(* the environment decides is quantified in the action: the outcome of     *)
(* each write and of each attempt to open the port, what a poll brings,    *)
(* what a client asks for.                                                 *)
(*                                                                         *)
(* Publishing, logging, the fault string and the board's identity do not   *)
(* influence any of this and are left out.                                 *)
(***************************************************************************)
EXTENDS DriverOps

CONSTANTS
  Configs,        \* values of the run-time parameters, as Config records
  AllowControl,   \* values of allow_control, fixed when the process starts
  StartArmed, AutoMotorsOn,    \* values of those parameters at an activation
  JogRates, JogAngles,         \* [subset of Axes -> Num]: joint_jog messages
  TrajGoals,      \* [positions : [subset of Axes -> Num], tolerance, deadline]
  CalibGoals,     \* [skip : BOOLEAN, settle : 0 .. MaxSettle]
  FrameChoices,   \* values of relative_to_frame a client may set
  MotorRequests   \* values of set_motors a client may ask for

ASSUME NodeInputs ==
  /\ Configs \subseteq Config /\ Configs # {}
  /\ AllowControl \subseteq BOOLEAN /\ StartArmed \subseteq BOOLEAN
  /\ AutoMotorsOn \subseteq BOOLEAN
  /\ FrameChoices \subseteq BOOLEAN /\ MotorRequests \subseteq BOOLEAN
  /\ CalibGoals \subseteq [skip : BOOLEAN, settle : 0 .. MaxSettle]
  /\ \A v \in JogRates \cup JogAngles \cup {g.positions : g \in TrajGoals} :
       DOMAIN v \subseteq Axes /\ v \in [DOMAIN v -> Num]
  /\ \A g \in TrajGoals : g.tolerance \in Nat /\ g.deadline \in 1 .. MaxTravel

VARIABLES
  node,    \* the members of the node, and the board
  voice,   \* history: the last word of the clients on motion is a command that
           \* was taken ("spoken"), a stop, disarm or deactivation ("silent"),
           \* a command taken before the link was lost ("dropped"), or that
           \* of a trajectory which was still live when it came back ("resumed")
  severed  \* history: the link was down at some moment of this PHASE_CALIBRATING

vars == <<node, voice, severed>>

AnyConfig == CHOOSE cfg \in Configs : TRUE

Init ==
  /\ \E allow \in AllowControl :
       node = [life |-> "unconfigured", core |-> NewCore(AnyConfig),
               allowControl |-> allow, armed |-> FALSE, motorsOn |-> FALSE,
               relative |-> FALSE, open |-> FALSE, haveRealtime |-> FALSE,
               retryIn |-> 0, calib |-> NoCalib("none"),
               traj |-> NoTraj("none"), board |-> BoardAtRest]
  /\ voice = "silent" /\ severed = FALSE

-----------------------------------------------------------------------------
(* A callback leaves the node as s.  Losing the link drops every command   *)
(* given before; a command counts only if motion is permitted at the time. *)
Becomes(s) ==
  /\ node' = s
  /\ severed' = (s.calib.phase = "Calibrating" /\ (severed \/ ~s.open))

Keeps(s) ==
  /\ Becomes(s)
  /\ voice' =
       IF voice \in {"spoken", "resumed"} /\ node.open /\ ~s.open THEN "dropped"
       ELSE IF voice = "dropped" /\ ~node.open /\ s.open /\ node.traj.handle THEN "resumed"
       ELSE voice
Speaks(s) ==
  Becomes(s) /\ voice' = IF MotionPermitted(node.core) THEN "spoken" ELSE voice
Silences(s) == Becomes(s) /\ voice' = "silent"

Configured == node.life \in {"inactive", "active"}
Active     == node.life = "active"

-----------------------------------------------------------------------------
(* Lifecycle transitions. *)

OnConfigure(cfg, ok) ==
  LET built == SetArmed(SetControlAllowed(NewCore(cfg), node.allowControl), FALSE)
      s == TryConnect([node EXCEPT !.core = built], ok)
  IN  /\ node.life = "unconfigured"
      /\ Keeps([s EXCEPT !.life = IF ok THEN "inactive" ELSE "unconfigured"])

OnActivate(arm, motors, ok) ==
  LET s == [node EXCEPT !.life = "active", !.core = SetArmed(@, arm), !.armed = arm]
  IN  /\ node.life = "inactive"
      /\ Keeps(IF motors THEN SendMotors(s, TRUE, ok) ELSE s)

OnDeactivateCore(ok) ==   \* mutant: armed_ is left as it was
  /\ node.life = "active"
  /\ Silences(AbortActiveGoals(
       SendControl([node EXCEPT !.life = "inactive", !.core = SetArmed(@, FALSE)],
                   HoldFrame, ok)))

OnDeactivate(ok) ==
  LET disarmed == [node EXCEPT !.core = SetArmed(@, FALSE), !.armed = FALSE]
      s == AbortActiveGoals(SendControl(disarmed, HoldFrame, ok))
  IN  /\ node.life = "active"
      /\ Silences([s EXCEPT !.life = "inactive"])

(* core_ is destroyed: what stands for it is what a constructor leaves. *)
CleanedUp(s) ==
  LET ended == AbortActiveGoals(s)
  IN  [Closed(ended) EXCEPT !.armed = FALSE, !.motorsOn = FALSE,
                            !.core = NewCore(AnyConfig)]

OnCleanup ==
  /\ node.life = "inactive"
  /\ Silences([CleanedUp(node) EXCEPT !.life = "unconfigured"])

OnShutdown(ok) ==
  LET held == SendControl([node EXCEPT !.core = SetArmed(@, FALSE)], HoldFrame, ok)
  IN  /\ node.life # "finalized"
      /\ Silences([CleanedUp(IF node.open THEN held ELSE node)
                     EXCEPT !.life = "finalized"])

-----------------------------------------------------------------------------
(* Timers: they exist while the node is active. *)

(* A reply carries an angle; motors_on in it is the board's. *)
Received(s, angle) ==
  LET settling == s.calib.handle /\ s.calib.lastAngle # None
  IN  [s EXCEPT
         !.haveRealtime = TRUE, !.motorsOn = s.board.powered,
         !.core = OnTelemetry(@, [valid |-> TRUE, angle |-> angle, age |-> 0]),
         !.calib.evidence = IF settling /\ @ < 2 THEN @ + 1 ELSE @]

Goals(s, hold, menu) == TrajTick(CalibTick(s, hold, menu))

(* applyParameters: the parameters are as they were or have been set to cfg. *)
Reconfigured(s, cfg) == [s EXCEPT !.core = SetConfig(@, cfg)]

TickWhileClosed(s, conn, hold, menu) ==
  LET retried == IF s.retryIn > 0 THEN s
                 ELSE IF conn THEN TryConnect(s, TRUE)
                 ELSE [TryConnect(s, FALSE) EXCEPT !.retryIn = ReconnectDelay]
  IN  Goals(retried, hold, menu)

TickAlwaysSends(s, ok, poll, hold, menu) ==   \* mutant: also while calibrating
  LET sent == SendControl(s, Tick(s.core), ok)
  IN  IF ~ok \/ poll.kind = "error" THEN NoteLinkLost(sent)
      ELSE Goals(IF poll.kind = "reply" THEN Received(sent, poll.angle) ELSE sent,
                 hold, menu)

TickReadsFirst(s, ok, poll, hold, menu) ==   \* mutant: the frame waits for the poll
  LET quiet == s.calib.phase = "Calibrating"
      read == IF poll.kind = "reply" THEN Received(s, poll.angle) ELSE s
      sent == IF quiet THEN read ELSE SendControl(read, Tick(read.core), ok)
  IN  IF (~quiet /\ ~ok) \/ poll.kind = "error" THEN NoteLinkLost(sent)
      ELSE Goals(sent, hold, menu)

(* poll: the read failed, brought nothing of interest, or a reply. *)
TickWhileOpen(s, ok, poll, hold, menu) ==
  LET quiet == s.calib.phase = "Calibrating"
      sent == IF quiet THEN s ELSE SendControl(s, Tick(s.core), ok)
  IN  IF (~quiet /\ ~ok) \/ poll.kind = "error" THEN NoteLinkLost(sent)
      ELSE Goals(IF poll.kind = "reply" THEN Received(sent, poll.angle) ELSE sent,
                 hold, menu)

ControlTickOf(s, ok, poll, hold, menu) ==
  /\ Active
  /\ Keeps(IF node.open THEN TickWhileOpen(s, ok, poll, hold, menu)
                        ELSE TickWhileClosed(s, ok, hold, menu))

ControlTick(ok, poll) ==
  \E hold, menu \in BOOLEAN, s \in {node} \cup {Reconfigured(node, cfg) : cfg \in Configs} :
    ControlTickOf(s, ok, poll, hold, menu)

(* Both request timers do nothing but write a request. *)
TelemetryTick(ok) ==
  Active /\ node.open /\ Keeps(IF ok THEN node ELSE NoteLinkLost(node))
BoardInfoTick(ok) ==
  Active /\ node.open /\ Keeps(IF ok THEN node ELSE NoteLinkLost(node))

-----------------------------------------------------------------------------
(* Commands. The subscription and the services exist while configured. *)

(* onJointJog: joints the message does not name are commanded to zero, and *)
(* a message that names none of this gimbal's joints holds.                *)
Filled(v) == [a \in Axes |-> IF a \in DOMAIN v THEN v[a] ELSE 0]

OnJointJogHold == Configured /\ Keeps([node EXCEPT !.core = SubmitHold(@)])
OnJointJogRate(v) ==
  /\ Configured /\ DOMAIN v # {}
  /\ Speaks([node EXCEPT !.core = SubmitRate(@, Filled(v))])
OnJointJogAngle(v) ==
  /\ Configured /\ DOMAIN v # {}
  /\ Speaks([node EXCEPT !.core = SubmitAngle(@, Filled(v), node.relative)])

SrvSetMotors(on, ok) ==
  /\ Configured /\ node.open
  /\ on => node.allowControl
  /\ Keeps(SendMotors(node, on, ok))

SrvArm ==
  /\ Active /\ node.allowControl
  /\ Keeps([node EXCEPT !.core = SetArmed(@, TRUE), !.armed = TRUE])

SrvDisarm(ok) ==
  LET held == SendControl([node EXCEPT !.core = SubmitHold(@)], HoldFrame, ok)
  IN  /\ Configured
      /\ Silences([AbortActiveGoals(held) EXCEPT !.core = SetArmed(@, FALSE), !.armed = FALSE])

SrvSetLockMode(locked) == Configured /\ Keeps([node EXCEPT !.relative = ~locked])

SrvStopAlone(ok) ==   \* mutant: goals are left running
  Configured /\ Silences(SendControl([node EXCEPT !.core = SubmitHold(@)], HoldFrame, ok))

SrvStop(ok) ==
  LET held == SendControl([node EXCEPT !.core = SubmitHold(@)], HoldFrame, ok)
  IN  Configured /\ Silences(AbortActiveGoals(held))

SrvHomeAnytime(ok) ==   \* mutant: the calibration is not asked about
  /\ Configured /\ MotionPermitted(node.core) /\ node.open
  /\ Speaks(SendAutoTask(node, ok))

(* srvHome and srvLevel differ in the pose only. *)
SrvHome(ok) ==
  /\ Configured /\ MotionPermitted(node.core) /\ node.calib.phase = "Idle" /\ node.open
  /\ Speaks(SendAutoTask(node, ok))
SrvLevel(ok) == SrvHome(ok)

(* MODE_POSITION and MODE_VELOCITY set nothing but the reference. *)
SrvSetControlMode(idle, relative) ==
  /\ Configured
  /\ Keeps([node EXCEPT !.relative = relative,
                        !.core = IF idle THEN SubmitHold(@) ELSE @])

-----------------------------------------------------------------------------
(* The action servers.  The goal callback and the accepted callback run in *)
(* one executor step; a refusal changes nothing.                           *)

CalibGoal ==
  /\ Active /\ node.calib.phase = "Idle" /\ ~node.traj.active
  /\ MotionPermitted(node.core)

CalibAccepted(g, hold, menu) ==
  LET settle == IF g.settle > 0 THEN g.settle ELSE DefaultSettle
      accepted == [NoCalib("executing") EXCEPT
                     !.handle = TRUE, !.phase = "Settling", !.settle = settle]
      s == [node EXCEPT !.calib = accepted]
  IN  /\ CalibGoal
      /\ Keeps(IF g.skip THEN BeginCalibrating(s, hold, menu) ELSE s)

CalibCancel ==
  /\ node.calib.goal = "executing"
  /\ Keeps([node EXCEPT !.calib.goal = "canceling", !.calib.cancelRequested = TRUE])

TrajGoalUnchecked ==   \* mutant: the same
  Active /\ ~node.traj.active /\ MotionPermitted(node.core)

TrajGoal ==
  /\ Active /\ ~node.traj.active /\ node.calib.phase = "Idle"
  /\ MotionPermitted(node.core)

(* Axes the goal does not name are held where telemetry last saw them. *)
TrajAccepted(g) ==
  LET target == [a \in Axes |-> IF a \in DOMAIN g.positions THEN g.positions[a]
                                ELSE node.core.continuous[a]]
      accepted == [handle |-> TRUE, active |-> TRUE, goal |-> "executing",
                   target |-> target, tolerance |-> g.tolerance,
                   left |-> g.deadline]
  IN  /\ TrajGoal
      /\ Speaks([node EXCEPT !.traj = accepted,
                             !.core = SubmitAngle(@, target, node.relative)])

TrajCancel ==
  node.traj.goal = "executing" /\ Keeps([node EXCEPT !.traj.goal = "canceling"])

-----------------------------------------------------------------------------
(* One unit of time.  The executor may be late by any amount. *)
Capped(age, bound) == IF age < bound THEN age + 1 ELSE age

LaterCalib(g) ==
  [g EXCEPT
    !.startedAge = IF g.handle THEN Capped(@, MaxSettle) ELSE @,
    !.phaseAge = IF g.handle THEN Capped(@, CalibTime) ELSE @,
    !.stillAge = IF @ = None THEN None ELSE Capped(@, StillTime)]
LaterTraj(g) == [g EXCEPT !.left = IF g.handle /\ @ >= 0 THEN @ - 1 ELSE @]
Later(s) ==
  [s EXCEPT !.core = Aged(@), !.retryIn = IF @ > 0 THEN @ - 1 ELSE 0,
            !.calib = LaterCalib(@), !.traj = LaterTraj(@)]

Advance == Keeps(Later(node))

Lifecycle ==
  \/ \E cfg \in Configs, ok \in BOOLEAN : OnConfigure(cfg, ok)
  \/ \E arm \in StartArmed, motors \in AutoMotorsOn, ok \in BOOLEAN :
       OnActivate(arm, motors, ok)
  \/ \E ok \in BOOLEAN : OnDeactivate(ok) \/ OnShutdown(ok)
  \/ OnCleanup

Replies == [kind : {"reply"}, angle : BoardReplies]
Polls   == Replies \cup [kind : {"nothing", "error"}]

Timers ==
  \/ \E ok \in BOOLEAN, poll \in Polls : ControlTick(ok, poll)
  \/ \E ok \in BOOLEAN : TelemetryTick(ok) \/ BoardInfoTick(ok)

Clients ==
  \/ OnJointJogHold
  \/ \E v \in JogRates : OnJointJogRate(v)
  \/ \E v \in JogAngles : OnJointJogAngle(v)
  \/ \E on \in MotorRequests, ok \in BOOLEAN : SrvSetMotors(on, ok)
  \/ SrvArm
  \/ \E ok \in BOOLEAN : SrvDisarm(ok) \/ SrvStop(ok) \/ SrvHome(ok) \/ SrvLevel(ok)
  \/ \E rel \in FrameChoices : SrvSetLockMode(~rel)
  \/ \E idle \in BOOLEAN, rel \in FrameChoices : SrvSetControlMode(idle, rel)
  \/ \E g \in CalibGoals, hold, menu \in BOOLEAN : CalibAccepted(g, hold, menu)
  \/ CalibCancel
  \/ \E g \in TrajGoals : TrajAccepted(g)
  \/ TrajCancel

Next == Lifecycle \/ Timers \/ Clients \/ Advance

Spec == Init /\ [][Next]_vars

-----------------------------------------------------------------------------
TypeOK ==
  node \in Node /\ voice \in {"spoken", "silent", "dropped", "resumed"} /\ severed \in BOOLEAN

(* The members that describe one goal agree with the goal's own state, and *)
(* no goal is live without the timers that could resolve it: otherwise its *)
(* client would wait for an answer that could not arrive (on_deactivate).  *)
GoalsTracked ==
  /\ node.calib.handle <=> node.calib.goal \in Live
  /\ node.calib.handle <=> node.calib.phase # "Idle"
  /\ node.traj.handle <=> node.traj.goal \in Live
  /\ node.traj.handle <=> node.traj.active
  /\ node.calib.handle \/ node.traj.handle => Active

(* A trajectory never commands motion while a calibration holds the board, *)
(* in whichever order the two goals and their cancellations arrive.        *)
OneClaimant == ~(node.calib.handle /\ node.traj.handle)

(* From the menu command until the goal is resolved no control frame       *)
(* reaches the board, and the frame it obeys keeps it still, whatever      *)
(* jogs, services and timers run meanwhile: a CMD_CONTROL would cancel the *)
(* calibration and a moving gimbal would spoil it (controlTick, srvHome).  *)
CalibrationUndisturbed ==
  node.calib.phase = "Calibrating" =>
    node.board.calib = "undisturbed" /\ ~node.board.turning

(* The arm bit the status topic reports is the one that gates motion       *)
(* (on_activate: "mirrors the core exactly").                              *)
ArmedAgrees == Configured => (node.armed <=> node.core.armed)

(* No pending motion command behind a closed gate, for the node's core.    *)
NodeNeverQueuesMotion ==
  node.core.mode # "Idle" => MotionPermitted(node.core) /\ Active

(* A node started without allow_control is a monitor: nothing it ever      *)
(* sends, the board's own auto-tasks included, sets the board turning.     *)
MonitorNeverMoves == node.board.turning => node.allowControl

(* After a stop, a disarm or a deactivation the board is not set turning   *)
(* again until a client gives a new command with the gates open, whatever  *)
(* goals, cached commands and timers were there before.                    *)
NoMotionAfterStop ==
  [][~node.board.turning /\ node'.board.turning => voice' # "silent"]_vars

(* The same across a loss of the link, with one exception: a trajectory    *)
(* whose goal the executor did not get round to ending while the link was  *)
(* down.  A callback writes before it reads, and so before the drop it may *)
(* find.                                                                   *)
NoMotionAfterDrop ==
  [][~node.board.turning /\ node'.board.turning
       => voice \in {"spoken", "resumed"} \/ voice' = "spoken"]_vars

(* Without the exception: "a link that drops and recovers inside the       *)
(* command timeout" does not resume "whatever was being commanded before   *)
(* the drop, without the operator having said anything since" (setLinkUp). *)
NothingResumes ==
  [][~node.board.turning /\ node'.board.turning
       => voice = "spoken" \/ voice' = "spoken"]_vars

(* The settle check calibrates on the evidence of at least two samples     *)
(* that arrived while it watched, never on one cached angle seen twice.    *)
SettledOnFreshSamples ==
  [][node.calib.phase = "Settling" /\ node'.calib.phase = "Calibrating"
       => node'.calib.evidence >= 2]_vars

(* Each action server takes its goals only through transitions that        *)
(* rclcpp_action permits.                                                  *)
CalibClient == INSTANCE ActionGoal WITH goal <- node.calib.goal
TrajClient  == INSTANCE ActionGoal WITH goal <- node.traj.goal
CalibGoalProtocol == CalibClient!Spec
TrajGoalProtocol  == TrajClient!Spec

(* RESULT_OK is not claimed for a calibration the link did not outlive     *)
(* (calibTick: "not something this driver can claim either way").          *)
OkOnlyIfLinkHeld ==
  [][node.calib.goal # "succeeded" /\ node'.calib.goal = "succeeded" => ~severed]_vars
=============================================================================
