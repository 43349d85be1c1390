--------------------------- MODULE DriverFairness ---------------------------
(***************************************************************************)
(* DriverNode in time.  The control timer comes due again and again and    *)
(* the executor gets round to it, whatever that callback then finds to do; *)
(* and at some moment every client may fall silent for good.               *)
(***************************************************************************)
EXTENDS DriverNode

VARIABLES
  timer,  \* the control timer is "due", or its callback has "run" since, or has
          \* run and found a reply to read and a port to write to: "answered"
  hushed  \* no client will call any more

timeVars == <<vars, timer, hushed>>

TimedInit == Init /\ timer = "run" /\ hushed = FALSE

TimePasses == Advance /\ timer' = "due" /\ UNCHANGED hushed

TimerRuns(ok, poll) ==
  /\ ControlTick(ok, poll)
  /\ timer' = IF node.open /\ ok /\ poll.kind = "reply" THEN "answered" ELSE "run"
  /\ UNCHANGED hushed

RequestsRun ==
  /\ \E ok \in BOOLEAN : TelemetryTick(ok) \/ BoardInfoTick(ok)
  /\ UNCHANGED <<timer, hushed>>

ClientsCall == ~hushed /\ Clients /\ UNCHANGED <<timer, hushed>>

TransitionsRun == Lifecycle /\ UNCHANGED <<timer, hushed>>

Hush == hushed' = TRUE /\ UNCHANGED <<vars, timer>>

TimedNext ==
  \/ TimePasses
  \/ \E ok \in BOOLEAN, poll \in Polls : TimerRuns(ok, poll)
  \/ RequestsRun \/ ClientsCall \/ TransitionsRun \/ Hush

(* Time passes, and rclcpp::spin runs the due timer of an active node: the *)
(* second formula is weak fairness of TimerRuns where the timer is due.    *)
TimedSpec ==
  /\ TimedInit /\ [][TimedNext]_timeVars
  /\ WF_timeVars(TimePasses)
  /\ []<>(Active => timer # "due")

(* Moreover a board answers over a port that works: not always, but again  *)
(* and again as long as an active node has it open again and again.        *)
AnsweredSpec ==
  TimedSpec /\ ([]<>(node.open /\ Active) => []<>(timer = "answered"))

(* Or the port works for good and the board need not answer.               *)
OpenPortSpec == TimedSpec /\ <>[]node.open

-----------------------------------------------------------------------------
(* Every accepted calibration is resolved.                                 *)
CalibGoalsEnd == node.calib.goal \in Live ~> node.calib.goal \notin Live

(* Every accepted trajectory is resolved, board or no board.               *)
TrajGoalsEnd == node.traj.goal \in Live ~> node.traj.goal \notin Live

(* Once every client has fallen silent, the board comes to rest behind an  *)
(* open port of an active node, and stays so: the watchdog, or the end of  *)
(* the goal that feeds it, stops it.                                       *)
DeadPublisherStops ==
  hushed ~> [](~node.board.turning \/ ~node.open \/ ~Active)
=============================================================================
