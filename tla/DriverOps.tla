------------------------------ MODULE DriverOps ------------------------------
(***************************************************************************)
(* The parts the callbacks of SbgcDriverNode are built from, as operators  *)
(* on a record s: the node's members and, in s.board, what the far end of  *)
(* the serial port was last told.  A callback makes several calls in a row *)
(* and each may fail; an operator takes the outcome of every call that can *)
(* fail as a parameter, so that module DriverNode can choose it.           *)
(*                                                                         *)
(* As in CoreOps a stamp is an age, and a deadline the time left to it.    *)
(***************************************************************************)
EXTENDS CoreOps

CONSTANTS
  None,            \* no value
  CalibTime,       \* kCalibSeconds
  StillTime,       \* kCalibStillSeconds
  StillStep,       \* kCalibStillRad
  DefaultSettle,   \* kCalibSettleTimeout
  MaxSettle,       \* the longest settle timeout a goal may carry
  MaxTravel,       \* the longest deadline a trajectory goal may carry
  ReconnectDelay,  \* the reconnect_delay parameter
  BoardReplies     \* angles a CMD_REALTIME_DATA_3 reply may carry

ASSUME DriverAssumption ==
  /\ None \notin Int /\ None \notin [Axes -> Int] /\ NaN # None
  /\ CalibTime \in Nat /\ StillTime \in Nat /\ StillStep \in Nat
  /\ MaxSettle \in Nat /\ DefaultSettle \in 1 .. MaxSettle
  /\ MaxTravel \in Nat /\ ReconnectDelay \in Nat
  /\ BoardReplies \subseteq [Axes -> Int]

Live     == {"executing", "canceling"}
Terminal == {"succeeded", "aborted", "canceled"}
GoalStates == {"none"} \cup Live \cup Terminal

(***************************************************************************)
(* The board, as far as its behaviour depends on the driver: whether the   *)
(* last control frame it obeys can turn it, whether the motors are on, and *)
(* whether the calibration it was asked for has been left alone.  A        *)
(* CMD_CONTROL cancels a running calibration.                              *)
(***************************************************************************)
Board == [turning : BOOLEAN, powered : BOOLEAN,
          calib : {"unasked", "undisturbed", "disturbed"}]
BoardAtRest == [turning |-> FALSE, powered |-> FALSE, calib |-> "unasked"]

Obeying(board, moving) ==
  [board EXCEPT !.turning = moving,
                !.calib = IF @ = "undisturbed" THEN "disturbed" ELSE @]

(***************************************************************************)
(* The record.                                                             *)
(***************************************************************************)
LifeStates == {"unconfigured", "inactive", "active", "finalized"}

Calib == [phase : {"Idle", "Settling", "Calibrating"}, handle : BOOLEAN,
          goal : GoalStates, cancelRequested : BOOLEAN,
          settle : 1 .. MaxSettle, startedAge : 0 .. MaxSettle,
          phaseAge : 0 .. CalibTime, stillAge : (0 .. StillTime) \cup {None},
          lastAngle : [Axes -> Int] \cup {None}, evidence : 0 .. 2]

Traj == [handle : BOOLEAN, active : BOOLEAN, goal : GoalStates,
         target : [Axes -> Num], tolerance : Nat, left : -1 .. MaxTravel + JumpMax]

Node == [life : LifeStates, core : Core, allowControl : BOOLEAN, armed : BOOLEAN,
         motorsOn : BOOLEAN, relative : BOOLEAN, open : BOOLEAN,
         haveRealtime : BOOLEAN, retryIn : 0 .. ReconnectDelay + JumpMax,
         calib : Calib, traj : Traj, board : Board]

(***************************************************************************)
(* SbgcLink.  A send that is refused or cut short delivers nothing: the    *)
(* board drops a frame whose checksum does not come out.                   *)
(***************************************************************************)
Closed(s) == [s EXCEPT !.open = FALSE, !.haveRealtime = FALSE]
Opened(s) == [Closed(s) EXCEPT !.open = TRUE]

SendControl(s, f, ok) ==
  IF s.open /\ ok THEN [s EXCEPT !.board = Obeying(@, f.moving)] ELSE s

(* sendHome and sendLevel: angle targets, by the board's own auto-task. *)
SendAutoTask(s, ok) ==
  IF s.open /\ ok THEN [s EXCEPT !.board = Obeying(@, TRUE)] ELSE s

SendMotors(s, on, ok) ==
  IF s.open /\ ok THEN [s EXCEPT !.board.powered = on, !.motorsOn = on] ELSE s

SendCalibrate(s, ok) ==
  IF s.open /\ ok THEN [s EXCEPT !.board.calib = "undisturbed"] ELSE s

(***************************************************************************)
(* tryConnect and noteLinkLost.                                            *)
(***************************************************************************)
TryConnect(s, ok) ==
  [(IF ok THEN Opened(s) ELSE Closed(s)) EXCEPT !.core = SetLinkUp(@, ok)]

NoteLinkLost(s) ==
  [Closed(s) EXCEPT !.core = SetLinkUp(@, FALSE), !.retryIn = ReconnectDelay]

(***************************************************************************)
(* The two action goals.  A record whose handle is FALSE has no more state *)
(* than how the last goal ended: the rest is set again by the next accept. *)
(* A result code is kept only as far as it chooses that end.               *)
(***************************************************************************)
NoCalib(goal) ==
  [phase |-> "Idle", handle |-> FALSE, goal |-> goal,
   cancelRequested |-> FALSE, settle |-> DefaultSettle,
   startedAge |-> 0, phaseAge |-> 0, stillAge |-> None, lastAngle |-> None,
   evidence |-> 0]

NoTraj(goal) ==
  [handle |-> FALSE, active |-> FALSE, goal |-> goal,
   target |-> Zero, tolerance |-> 0, left |-> 0]

TerminatedByCode(goal, success) ==   \* mutant: a cancelled goal is not told apart
  IF success THEN "succeeded" ELSE "aborted"

(* The terminal method is chosen by the state of the goal before the code: *)
(* canceled() from CANCELING, succeed() or abort() from EXECUTING.         *)
Terminated(goal, success) ==
  IF goal = "canceling" THEN "canceled"
  ELSE IF success THEN "succeeded" ELSE "aborted"

CalibFinish(s, code) ==
  IF ~s.calib.handle THEN [s EXCEPT !.calib.phase = "Idle"]
  ELSE [s EXCEPT !.calib = NoCalib(Terminated(@.goal, code = "OK"))]

TrajFinishByCode(s, code) ==   \* mutant: the same, in one of the two servers
  IF ~s.traj.handle THEN s
  ELSE [s EXCEPT !.traj =
          NoTraj(IF code = "SUCCESSFUL" THEN "succeeded" ELSE Terminated(@.goal, FALSE))]

TrajFinish(s, code) ==
  IF ~s.traj.handle THEN s
  ELSE [s EXCEPT !.traj = NoTraj(Terminated(@.goal, code = "SUCCESSFUL"))]

AbortCalibrationOnly(s) ==   \* mutant: the trajectory is forgotten
  IF s.calib.handle THEN CalibFinish(s, "INTERRUPTED") ELSE s

AbortActiveGoals(s) ==
  LET calibDone == IF s.calib.handle THEN CalibFinish(s, "INTERRUPTED") ELSE s
      idle == [calibDone EXCEPT !.calib.phase = "Idle", !.calib.handle = FALSE]
      trajDone == IF idle.traj.handle THEN TrajFinish(idle, "INVALID_GOAL") ELSE idle
  IN  [trajDone EXCEPT !.traj.handle = FALSE]

(***************************************************************************)
(* Gyro calibration.                                                       *)
(***************************************************************************)

(* recallMotionForCalibration, when `hold' says its frame was sent, and    *)
(* then the menu command: the sequence both ways into PHASE_CALIBRATING    *)
(* share.  Either failure ends the goal.                                   *)
BeginCalibrating(s, hold, menu) ==
  LET held == SendControl(IF s.open THEN [s EXCEPT !.core = SubmitHold(@)] ELSE s,
                          HoldFrame, hold)
      sent == SendCalibrate(held, menu)
  IN  IF ~s.open \/ ~hold THEN CalibFinish(held, "LINK_UNAVAILABLE")
      ELSE IF ~menu THEN CalibFinish(sent, "LINK_UNAVAILABLE")
      ELSE [sent EXCEPT !.calib.phase = "Calibrating", !.calib.phaseAge = 0]

(* The largest movement since the last look, and whether it counts as still. *)
StillSince(from, to) ==
  \A a \in Axes : Magnitude(to[a] - from[a]) <= StillStep

AngleUsable(s) ==
  s.core.angleValid /\ s.haveRealtime /\ ~Lt(s.core.cfg.angleFresh, s.core.telemetryAge)

(* One look at the cached angle while settling. *)
Watched(s) ==
  LET from == s.calib.lastAngle
      to == s.core.continuous
      still == IF from = None THEN s.calib.stillAge
               ELSE IF ~StillSince(from, to) THEN None
               ELSE IF s.calib.stillAge = None THEN 0 ELSE s.calib.stillAge
  IN  [s EXCEPT !.calib.stillAge = still, !.calib.lastAngle = to,
                !.calib.evidence = IF from = None THEN 1 ELSE @]

SettlingOnCache(s, hold, menu) ==   \* mutant: any angle there is will do
  LET w == Watched(s)
  IN  IF s.calib.cancelRequested THEN CalibFinish(s, "CANCELLED")
      ELSE IF w.calib.stillAge # None /\ w.calib.stillAge >= StillTime
        THEN BeginCalibrating(w, hold, menu)
      ELSE IF w.calib.startedAge >= w.calib.settle THEN CalibFinish(w, "NOT_STILL")
      ELSE w

SettlingTick(s, hold, menu) ==
  LET w == Watched(s)
  IN  IF s.calib.cancelRequested THEN CalibFinish(s, "CANCELLED")
      ELSE IF ~AngleUsable(s)
        THEN [s EXCEPT !.calib.stillAge = None, !.calib.lastAngle = None,
                       !.calib.evidence = 0]
      ELSE IF w.calib.stillAge # None /\ w.calib.stillAge >= StillTime
        THEN BeginCalibrating(w, hold, menu)
      ELSE IF w.calib.startedAge >= w.calib.settle THEN CalibFinish(w, "NOT_STILL")
      ELSE w

CalibratingWhileOpen(s) ==   \* mutant: a lost link is waited for
  IF s.calib.phaseAge < CalibTime \/ ~s.open THEN s
  ELSE CalibFinish(s, IF s.calib.cancelRequested THEN "CANCELLED" ELSE "OK")

CalibratingTick(s) ==
  IF s.calib.phaseAge < CalibTime THEN s
  ELSE CalibFinish(s, IF ~s.open THEN "LINK_UNAVAILABLE"
                      ELSE IF s.calib.cancelRequested THEN "CANCELLED" ELSE "OK")

CalibTick(s, hold, menu) ==
  IF s.calib.phase = "Idle" \/ ~s.calib.handle THEN s
  ELSE IF s.calib.phase = "Calibrating" THEN CalibratingTick(s)
  ELSE IF ~s.open THEN CalibFinish(s, "LINK_UNAVAILABLE")
  ELSE SettlingTick(s, hold, menu)

(***************************************************************************)
(* Trajectories.                                                           *)
(***************************************************************************)

(* abs(target - at) > tolerance, which is false of a NaN target. *)
Away(target, at, tolerance) ==
  \E a \in Axes : target[a] # NaN /\ Magnitude(target[a] - at[a]) > tolerance

TrajTickForever(s) ==   \* mutant: no goal time
  LET fed == [s EXCEPT !.core = SubmitAngle(@, s.traj.target, s.relative)]
  IN  IF ~s.traj.handle \/ ~s.traj.active THEN s
      ELSE IF s.traj.goal = "canceling"
        THEN TrajFinish([s EXCEPT !.core = SubmitHold(@)], "SUCCESSFUL")
      ELSE IF ~s.open THEN TrajFinish(s, "INVALID_GOAL")
      ELSE IF fed.core.angleValid /\ ~Away(s.traj.target, fed.core.continuous, s.traj.tolerance)
        THEN TrajFinish(fed, "SUCCESSFUL")
      ELSE fed

TrajTick(s) ==
  LET fed == [s EXCEPT !.core = SubmitAngle(@, s.traj.target, s.relative)]
      stopped(r) == [r EXCEPT !.core = SubmitHold(@)]
  IN  IF ~s.traj.handle \/ ~s.traj.active THEN s
      ELSE IF s.traj.goal = "canceling" THEN TrajFinish(stopped(s), "SUCCESSFUL")
      ELSE IF ~s.open THEN TrajFinish(s, "INVALID_GOAL")
      ELSE IF fed.core.angleValid /\ ~Away(s.traj.target, fed.core.continuous, s.traj.tolerance)
        THEN TrajFinish(fed, "SUCCESSFUL")
      ELSE IF s.traj.left < 0 THEN TrajFinish(stopped(fed), "GOAL_TOLERANCE_VIOLATED")
      ELSE fed
=============================================================================
