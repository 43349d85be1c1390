-------------------------- MODULE DriverOps_proofs --------------------------
(***************************************************************************)
(* Lemmas about the operators of DriverOps, for every value of its         *)
(* constants: each keeps the record a node in which the two goals, the     *)
(* gates and the board agree, and changes only the part that is its own.   *)
(***************************************************************************)
EXTENDS DriverOps, CoreOps_proofs

-----------------------------------------------------------------------------
(* Types. *)

(* One member of the node at a time. *)
LEMMA NodeUpdates ==
  ASSUME NEW s \in Node
  PROVE  /\ \A x \in Core  : [s EXCEPT !.core = x] \in Node
         /\ \A x \in Calib : [s EXCEPT !.calib = x] \in Node
         /\ \A x \in Traj  : [s EXCEPT !.traj = x] \in Node
         /\ \A x \in Board : [s EXCEPT !.board = x] \in Node
         /\ \A x \in BOOLEAN : /\ [s EXCEPT !.armed = x] \in Node
                               /\ [s EXCEPT !.motorsOn = x] \in Node
                               /\ [s EXCEPT !.open = x] \in Node
                               /\ [s EXCEPT !.haveRealtime = x] \in Node
                               /\ [s EXCEPT !.relative = x] \in Node
         /\ \A x \in 0 .. ReconnectDelay + JumpMax : [s EXCEPT !.retryIn = x] \in Node
         /\ \A x \in LifeStates : [s EXCEPT !.life = x] \in Node
  BY DEF Node

(* One member of a goal at a time. *)
LEMMA CalibUpdates ==
  ASSUME NEW g \in Calib
  PROVE  /\ \A x \in {"Idle", "Settling", "Calibrating"} : [g EXCEPT !.phase = x] \in Calib
         /\ \A x \in BOOLEAN : /\ [g EXCEPT !.handle = x] \in Calib
                               /\ [g EXCEPT !.cancelRequested = x] \in Calib
         /\ \A x \in GoalStates : [g EXCEPT !.goal = x] \in Calib
         /\ \A x \in 1 .. MaxSettle : [g EXCEPT !.settle = x] \in Calib
         /\ \A x \in 0 .. MaxSettle : [g EXCEPT !.startedAge = x] \in Calib
         /\ \A x \in 0 .. CalibTime : [g EXCEPT !.phaseAge = x] \in Calib
         /\ \A x \in (0 .. StillTime) \cup {None} : [g EXCEPT !.stillAge = x] \in Calib
         /\ \A x \in [Axes -> Int] \cup {None} : [g EXCEPT !.lastAngle = x] \in Calib
         /\ \A x \in 0 .. 2 : [g EXCEPT !.evidence = x] \in Calib
  BY DEF Calib

(* A record without a goal has the type of one with a goal.                *)
LEMMA NoGoalTypes ==
  ASSUME NEW goal \in GoalStates
  PROVE  NoCalib(goal) \in Calib /\ NoTraj(goal) \in Traj
<1>1. NoCalib(goal) \in Calib
  BY DriverAssumption DEF NoCalib, Calib
<1>2. Zero \in [Axes -> Num] /\ 0 \in -1 .. MaxTravel + JumpMax
  BY CoreAssumption, DriverAssumption DEF Zero, Num
<1>3. NoTraj(goal) \in Traj
  BY <1>2 DEF NoTraj, Traj
<1> QED
  BY <1>1, <1>3

(* A frame sent, an order to move or to calibrate leave a board.           *)
LEMMA BoardTypes ==
  ASSUME NEW b \in Board, NEW x \in BOOLEAN
  PROVE  /\ Obeying(b, x) \in Board /\ Obeying(b, x).turning = x
         /\ Obeying(b, x).powered = b.powered
         /\ [b EXCEPT !.powered = x] \in Board /\ [b EXCEPT !.powered = x].turning = b.turning
         /\ [b EXCEPT !.powered = x].calib = b.calib
         /\ [b EXCEPT !.calib = "undisturbed"] \in Board
         /\ [b EXCEPT !.calib = "undisturbed"].turning = b.turning
         /\ [b EXCEPT !.calib = "undisturbed"].calib = "undisturbed"
  BY DEF Board, Obeying

-----------------------------------------------------------------------------
(* What the operators preserve.                                            *)

(* No motion is pending or under way that a gate should have kept back.    *)
GatesAgree(s) ==
  /\ s.core.mode # "Idle" => MotionPermitted(s.core)
  /\ s.core.controlAllowed => s.allowControl
  /\ s.core.linkUp <=> s.open
  /\ s.board.turning => s.allowControl

(* A calibration goal and the members that describe it agree, and the      *)
(* board is left alone while it calibrates.                                *)
CalibTracked(s) ==
  /\ s.calib.handle <=> s.calib.goal \in Live
  /\ s.calib.handle <=> s.calib.phase # "Idle"
CalibHeld(s) ==
  /\ CalibTracked(s)
  /\ s.calib.phase = "Calibrating" => s.board.calib = "undisturbed" /\ ~s.board.turning

TrajHeld(s) ==
  /\ s.traj.handle <=> s.traj.goal \in Live
  /\ s.traj.handle <=> s.traj.active

Held(s) ==
  /\ s \in Node
  /\ GatesAgree(s) /\ CalibHeld(s) /\ TrajHeld(s)
  /\ ~(s.calib.handle /\ s.traj.handle)

(* What no operator touches, and what only those of the link do.           *)
Rest(s) == <<s.life, s.allowControl, s.armed, s.relative>>
Port(s) == <<s.open, s.haveRealtime, s.retryIn>>

(* The transitions of a goal inside one operator: it may end, in the way   *)
(* its state allows (ActionGoal).                                          *)
MayEnd(g, h) ==
  \/ h = g
  \/ g = "executing" /\ h \in {"succeeded", "aborted"}
  \/ g = "canceling" /\ h = "canceled"

-----------------------------------------------------------------------------
(* Writes. *)

(* Only the board hears of a control frame or an auto-task.                *)
LEMMA SendEffect ==
  ASSUME NEW s \in Node, NEW f, f.moving \in BOOLEAN, NEW ok
  PROVE  LET r == SendControl(s, f, ok)
         IN  /\ r \in Node /\ Rest(r) = Rest(s) /\ Port(r) = Port(s)
             /\ r.core = s.core /\ r.calib = s.calib /\ r.traj = s.traj
             /\ r.board.turning = s.board.turning \/ r.board.turning = f.moving
<1>1. CASE s.open /\ ok
  <2>1. s.board \in Board
    BY DEF Node
  <2>2. Obeying(s.board, f.moving) \in Board
        /\ Obeying(s.board, f.moving).turning = f.moving
    BY <2>1 DEF Obeying, Board
  <2>3. SendControl(s, f, ok) = [s EXCEPT !.board = Obeying(s.board, f.moving)]
    BY <1>1 DEF SendControl
  <2> QED
    BY <2>2, <2>3, NodeUpdates DEF Rest, Port, Node
<1>2. CASE ~(s.open /\ ok)
  BY <1>2 DEF SendControl
<1> QED
  BY <1>1, <1>2

(* A frame that may move the board is sent where control is allowed, and   *)
(* none while a calibration runs.                                          *)
LEMMA SendHeld ==
  ASSUME NEW s, Held(s), NEW f, f.moving \in BOOLEAN, NEW ok,
         f.moving => s.allowControl, s.calib.phase # "Calibrating"
  PROVE  Held(SendControl(s, f, ok))
<1> DEFINE r == SendControl(s, f, ok)
<1>1. s \in Node
  BY DEF Held
<1>2. /\ r \in Node /\ Rest(r) = Rest(s) /\ Port(r) = Port(s)
      /\ r.core = s.core /\ r.calib = s.calib /\ r.traj = s.traj
      /\ r.board.turning = s.board.turning \/ r.board.turning = f.moving
  BY <1>1, SendEffect
<1> HIDE DEF r
<1>3. GatesAgree(r)
  BY <1>2 DEF Held, GatesAgree, Rest, Port
<1> QED
  BY <1>2, <1>3 DEF Held, CalibTracked, CalibHeld, TrajHeld, r

(* The auto-tasks are frames that move.                                    *)
LEMMA AutoTaskIsFrame ==
  ASSUME NEW s, NEW ok
  PROVE  SendAutoTask(s, ok) = SendControl(s, [moving |-> TRUE], ok)
  BY DEF SendAutoTask, SendControl

(* Motor power concerns nothing else.                                      *)
LEMMA MotorsHeld ==
  ASSUME NEW s, Held(s), NEW on \in BOOLEAN, NEW ok
  PROVE  LET r == SendMotors(s, on, ok)
         IN  /\ Held(r) /\ Rest(r) = Rest(s) /\ Port(r) = Port(s)
             /\ r.core = s.core /\ r.calib = s.calib /\ r.traj = s.traj
             /\ r.board.turning = s.board.turning
<1>1. CASE s.open /\ ok
  <2> DEFINE b == [s.board EXCEPT !.powered = on]
             d == [s EXCEPT !.board = b]
             r == [d EXCEPT !.motorsOn = on]
  <2>1. s \in Node /\ s.board \in Board
    BY DEF Held, Node
  <2>2. b \in Board /\ b.turning = s.board.turning /\ b.calib = s.board.calib
    BY <2>1, BoardTypes
  <2>3. SendMotors(s, on, ok) = r
    BY <1>1 DEF SendMotors
  <2> HIDE DEF b
  <2>4. d \in Node
    BY <2>1, <2>2, NodeUpdates
  <2>5. r \in Node
    BY <2>4, NodeUpdates
  <2>6. /\ Rest(r) = Rest(s) /\ Port(r) = Port(s) /\ r.board = b
        /\ r.core = s.core /\ r.calib = s.calib /\ r.traj = s.traj
    BY <2>1 DEF Node, Rest, Port
  <2> HIDE DEF r, d
  <2>7. Held(r)
    BY <2>2, <2>5, <2>6 DEF Held, GatesAgree, CalibTracked, CalibHeld, TrajHeld, Rest, Port
  <2> QED
    BY <2>2, <2>3, <2>6, <2>7
<1>2. CASE ~(s.open /\ ok)
  BY <1>2 DEF SendMotors
<1> QED
  BY <1>1, <1>2

-----------------------------------------------------------------------------
(* The core inside the node, and the port. *)

(* Replacing the core by one that has the same gates and commands nothing  *)
(* they forbid.                                                            *)
LEMMA CoreHeld ==
  ASSUME NEW s, Held(s), NEW c \in Core,
         Gates(c) = Gates(s.core), c.mode # "Idle" => MotionPermitted(s.core)
  PROVE  LET r == [s EXCEPT !.core = c]
         IN  /\ Held(r) /\ Rest(r) = Rest(s) /\ Port(r) = Port(s) /\ r.core = c
             /\ r.calib = s.calib /\ r.traj = s.traj /\ r.board = s.board
<1> DEFINE r == [s EXCEPT !.core = c]
<1>1. r \in Node
  BY NodeUpdates DEF Held
<1>2. /\ Rest(r) = Rest(s) /\ Port(r) = Port(s) /\ r.core = c
      /\ r.calib = s.calib /\ r.traj = s.traj /\ r.board = s.board
  BY DEF Held, Node, Rest, Port
<1>3. MotionPermitted(c) <=> MotionPermitted(s.core)
  BY DEF Gates, MotionPermitted
<1> HIDE DEF r
<1>4. Held(r)
  BY <1>1, <1>2, <1>3
     DEF Held, GatesAgree, CalibTracked, CalibHeld, TrajHeld, Rest, Port, Gates
<1> QED
  BY <1>2, <1>4 DEF r

(* The port closes with the link, and a command is dropped with it.        *)
LEMMA LinkLostHeld ==
  ASSUME NEW s, Held(s)
  PROVE  LET r == NoteLinkLost(s)
         IN  /\ Held(r) /\ Rest(r) = Rest(s) /\ ~r.open
             /\ r.core = SetLinkUp(s.core, FALSE)
             /\ r.calib = s.calib /\ r.traj = s.traj /\ r.board = s.board
<1> DEFINE c == SetLinkUp(s.core, FALSE)
           d == [s EXCEPT !.open = FALSE]
           e == [d EXCEPT !.haveRealtime = FALSE]
           f == [e EXCEPT !.core = c]
           r == [f EXCEPT !.retryIn = ReconnectDelay]
<1>1. s \in Node /\ s.core \in Core
  BY DEF Held, Node
<1>2. c \in Core /\ c.mode = "Idle"
      /\ Gates(c) = <<s.core.controlAllowed, s.core.armed, FALSE>>
  BY <1>1, GatesType, LinkEffect
<1>3. NoteLinkLost(s) = r
  BY <1>1 DEF NoteLinkLost, Closed, Node
<1> HIDE DEF c
<1>4. e \in Node
  BY <1>1, NodeUpdates
<1>5. f \in Node
  BY <1>2, <1>4, NodeUpdates
<1>6. r \in Node
  <2>1. ReconnectDelay \in 0 .. ReconnectDelay + JumpMax
    BY CoreAssumption, DriverAssumption
  <2> QED
    BY <1>5, <2>1, NodeUpdates
<1>7. /\ Rest(r) = Rest(s) /\ r.open = FALSE /\ r.core = c
      /\ r.calib = s.calib /\ r.traj = s.traj /\ r.board = s.board
  BY <1>1 DEF Node, Rest
<1> HIDE DEF d, e, f, r
<1>8. Held(r)
  BY <1>2, <1>6, <1>7
     DEF Held, GatesAgree, CalibTracked, CalibHeld, TrajHeld, Rest, Gates
<1> QED
  BY <1>3, <1>7, <1>8 DEF c

(* An attempt to open the port tells the core how it went.                 *)
LEMMA ConnectHeld ==
  ASSUME NEW s, Held(s), NEW ok \in BOOLEAN
  PROVE  LET r == TryConnect(s, ok)
         IN  /\ Held(r) /\ Rest(r) = Rest(s) /\ r.open = ok /\ r.retryIn = s.retryIn
             /\ r.core = SetLinkUp(s.core, ok)
             /\ r.calib = s.calib /\ r.traj = s.traj /\ r.board = s.board
<1> DEFINE c == SetLinkUp(s.core, ok)
           d == [s EXCEPT !.open = ok]
           e == [d EXCEPT !.haveRealtime = FALSE]
           r == [e EXCEPT !.core = c]
<1>1. s \in Node /\ s.core \in Core
  BY DEF Held, Node
<1>2. c \in Core /\ c.mode = (IF ok THEN s.core.mode ELSE "Idle")
      /\ Gates(c) = <<s.core.controlAllowed, s.core.armed, ok>>
  BY <1>1, GatesType, LinkEffect
<1>3. TryConnect(s, ok) = r
  BY <1>1 DEF TryConnect, Opened, Closed, Node
<1> HIDE DEF c
<1>4. e \in Node
  BY <1>1, NodeUpdates
<1>5. r \in Node
  BY <1>2, <1>4, NodeUpdates
<1>6. /\ Rest(r) = Rest(s) /\ r.open = ok /\ r.core = c /\ r.retryIn = s.retryIn
      /\ r.calib = s.calib /\ r.traj = s.traj /\ r.board = s.board
  BY <1>1 DEF Node, Rest
<1> HIDE DEF d, e, r
<1>7. GatesAgree(r)
  BY <1>2, <1>6 DEF Held, GatesAgree, MotionPermitted, Rest, Gates
<1>8. Held(r)
  BY <1>5, <1>6, <1>7 DEF Held, CalibTracked, CalibHeld, TrajHeld
<1> QED
  BY <1>3, <1>6, <1>8 DEF c

-----------------------------------------------------------------------------
(* The end of a goal. *)

(* A goal that is live ends in the way its state allows.                   *)
LEMMA TerminatedEnds ==
  ASSUME NEW g \in Live, NEW success
  PROVE  /\ Terminated(g, success) \in GoalStates \ Live
         /\ MayEnd(g, Terminated(g, success))
  BY DEF Live, Terminal, GoalStates, Terminated, MayEnd

(* calibFinish, from whatever phase: it does nothing but end the goal.     *)
LEMMA CalibFinishHeld ==
  ASSUME NEW s \in Node, NEW code,
         s.calib.handle <=> s.calib.goal \in Live
  PROVE  LET r == CalibFinish(s, code)
         IN  /\ r \in Node /\ Rest(r) = Rest(s) /\ Port(r) = Port(s)
             /\ r.core = s.core /\ r.traj = s.traj /\ r.board = s.board
             /\ ~r.calib.handle /\ r.calib.phase = "Idle" /\ r.calib.goal \notin Live
             /\ MayEnd(s.calib.goal, r.calib.goal)
             /\ r.calib.goal = IF s.calib.handle
                               THEN Terminated(s.calib.goal, code = "OK")
                               ELSE s.calib.goal
<1> DEFINE h == Terminated(s.calib.goal, code = "OK")
           g == IF s.calib.handle THEN NoCalib(h) ELSE [s.calib EXCEPT !.phase = "Idle"]
           r == [s EXCEPT !.calib = g]
<1>1. s.calib \in Calib
  BY DEF Node
<1>2. CalibFinish(s, code) = r
  BY <1>1 DEF CalibFinish, Node
<1>3. /\ g \in Calib /\ ~g.handle /\ g.phase = "Idle" /\ g.goal \notin Live
      /\ MayEnd(s.calib.goal, g.goal)
      /\ g.goal = IF s.calib.handle THEN h ELSE s.calib.goal
  <2>1. CASE s.calib.handle
    <3>1. h \in GoalStates \ Live /\ MayEnd(s.calib.goal, h)
      BY <2>1, TerminatedEnds
    <3> HIDE DEF h
    <3>2. NoCalib(h) \in Calib
      BY <3>1, NoGoalTypes
    <3> QED
      BY <2>1, <3>1, <3>2 DEF NoCalib
  <2>2. CASE ~s.calib.handle
    BY <1>1, <2>2 DEF MayEnd, Calib
  <2> QED
    BY <2>1, <2>2
<1> HIDE DEF g
<1>4. r \in Node
  BY <1>3, NodeUpdates
<1>5. /\ Rest(r) = Rest(s) /\ Port(r) = Port(s) /\ r.calib = g
      /\ r.core = s.core /\ r.traj = s.traj /\ r.board = s.board
  BY DEF Rest, Port, Node
<1> HIDE DEF r, h
<1> QED
  BY <1>2, <1>3, <1>4, <1>5 DEF h

(* trajFinish the same; without a goal it does nothing.                    *)
LEMMA TrajFinishHeld ==
  ASSUME NEW s \in Node, NEW code, TrajHeld(s)
  PROVE  LET r == TrajFinish(s, code)
         IN  /\ r \in Node /\ Rest(r) = Rest(s) /\ Port(r) = Port(s)
             /\ r.core = s.core /\ r.calib = s.calib /\ r.board = s.board
             /\ ~r.traj.handle /\ ~r.traj.active /\ r.traj.goal \notin Live
             /\ MayEnd(s.traj.goal, r.traj.goal)
<1> DEFINE h == Terminated(s.traj.goal, code = "SUCCESSFUL")
           g == NoTraj(h)
           r == [s EXCEPT !.traj = g]
<1>1. CASE ~s.traj.handle
  BY <1>1 DEF TrajFinish, TrajHeld, MayEnd
<1>2. CASE s.traj.handle
  <2>1. TrajFinish(s, code) = r
    BY <1>2 DEF TrajFinish
  <2>2. h \in GoalStates \ Live /\ MayEnd(s.traj.goal, h)
    BY <1>2, TerminatedEnds DEF TrajHeld
  <2> HIDE DEF h
  <2>3. g \in Traj /\ g.goal = h /\ ~g.handle /\ ~g.active
    BY <2>2, NoGoalTypes DEF NoTraj
  <2> HIDE DEF g
  <2>4. r \in Node
    BY <2>3, NodeUpdates
  <2>5. /\ Rest(r) = Rest(s) /\ Port(r) = Port(s) /\ r.traj = g
        /\ r.core = s.core /\ r.calib = s.calib /\ r.board = s.board
    BY DEF Rest, Port, Node
  <2> HIDE DEF r
  <2> QED
    BY <2>1, <2>2, <2>3, <2>4, <2>5
<1> QED
  BY <1>1, <1>2

(* abortActiveGoals leaves no goal, even where a frame has just disturbed  *)
(* the calibration it ends.                                                *)
LEMMA AbortHeld ==
  ASSUME NEW s, s \in Node, GatesAgree(s), CalibTracked(s), TrajHeld(s)
  PROVE  LET r == AbortActiveGoals(s)
         IN  /\ Held(r) /\ Rest(r) = Rest(s) /\ Port(r) = Port(s)
             /\ r.core = s.core /\ r.board = s.board
             /\ ~r.calib.handle /\ ~r.traj.handle
             /\ MayEnd(s.calib.goal, r.calib.goal) /\ MayEnd(s.traj.goal, r.traj.goal)
<1> DEFINE a == IF s.calib.handle THEN CalibFinish(s, "INTERRUPTED") ELSE s
           b == [a EXCEPT !.calib.phase = "Idle", !.calib.handle = FALSE]
           c == IF b.traj.handle THEN TrajFinish(b, "INVALID_GOAL") ELSE b
           r == [c EXCEPT !.traj.handle = FALSE]
<1>1. AbortActiveGoals(s) = r
  BY DEF AbortActiveGoals
<1>2. /\ a \in Node /\ Rest(a) = Rest(s) /\ Port(a) = Port(s)
      /\ a.core = s.core /\ a.board = s.board /\ a.traj = s.traj
      /\ ~a.calib.handle /\ a.calib.phase = "Idle" /\ a.calib.goal \notin Live
      /\ MayEnd(s.calib.goal, a.calib.goal)
  <2>1. CASE s.calib.handle
    BY <2>1, CalibFinishHeld DEF CalibTracked
  <2>2. CASE ~s.calib.handle
    BY <2>2 DEF CalibTracked, MayEnd
  <2> QED
    BY <2>1, <2>2
<1> HIDE DEF a
<1>3. b = a
  <2> DEFINE g == [[a.calib EXCEPT !.phase = "Idle"] EXCEPT !.handle = FALSE]
  <2>1. a.calib \in Calib /\ a.calib.handle = FALSE
    BY <1>2 DEF Node, Calib
  <2>2. g = a.calib
    BY <1>2, <2>1 DEF Calib
  <2>3. b = [a EXCEPT !.calib = g]
    BY <1>2 DEF Node
  <2> HIDE DEF g
  <2> QED
    BY <1>2, <2>2, <2>3 DEF Node
<1>4. TrajHeld(b)
  BY <1>2, <1>3 DEF TrajHeld
<1>5. /\ c \in Node /\ Rest(c) = Rest(s) /\ Port(c) = Port(s)
      /\ c.core = s.core /\ c.board = s.board /\ c.calib = a.calib
      /\ ~c.traj.handle /\ ~c.traj.active /\ c.traj.goal \notin Live
      /\ MayEnd(s.traj.goal, c.traj.goal)
  <2>1. CASE b.traj.handle
    BY <1>2, <1>3, <1>4, <2>1, TrajFinishHeld
  <2>2. CASE ~b.traj.handle
    BY <1>2, <1>3, <1>4, <2>2 DEF TrajHeld, MayEnd
  <2> QED
    BY <2>1, <2>2
<1> HIDE DEF b, c
<1>6. r = c
  BY <1>5 DEF Node, Traj
<1> HIDE DEF r
<1>7. Held(r)
  BY <1>2, <1>5, <1>6 DEF Held, GatesAgree, CalibTracked, CalibHeld, TrajHeld, Rest, Port
<1> QED
  BY <1>1, <1>2, <1>5, <1>6, <1>7

-----------------------------------------------------------------------------
(* The calibration, one control period after the other. *)

(* What a step of the calibration may do to the node.                      *)
CalibStep(s, r) ==
  /\ Held(r) /\ Rest(r) = Rest(s) /\ Port(r) = Port(s) /\ r.traj = s.traj
  /\ Gates(r.core) = Gates(s.core) /\ r.core.cfg = s.core.cfg
  /\ r.core.mode \in {s.core.mode, "Idle"}
  /\ r.board.turning => s.board.turning
  /\ MayEnd(s.calib.goal, r.calib.goal)

(* The end of a calibration is such a step.                                *)
LEMMA CalibFinishSteps ==
  ASSUME NEW s, Held(s), NEW code PROVE CalibStep(s, CalibFinish(s, code))
<1> DEFINE r == CalibFinish(s, code)
<1>1. /\ r \in Node /\ Rest(r) = Rest(s) /\ Port(r) = Port(s)
      /\ r.core = s.core /\ r.traj = s.traj /\ r.board = s.board
      /\ ~r.calib.handle /\ r.calib.phase = "Idle" /\ r.calib.goal \notin Live
      /\ MayEnd(s.calib.goal, r.calib.goal)
  BY CalibFinishHeld DEF Held, CalibTracked, CalibHeld
<1> HIDE DEF r
<1>2. Held(r)
  BY <1>1 DEF Held, GatesAgree, CalibTracked, CalibHeld, TrajHeld, Rest, Port
<1> QED
  BY <1>1, <1>2 DEF CalibStep, r

(* Into PHASE_CALIBRATING: the board is held and asked, or the goal ends.  *)
LEMMA BeginSteps ==
  ASSUME NEW s, Held(s), s.calib.handle, s.calib.phase = "Settling",
         NEW hold \in BOOLEAN, NEW menu \in BOOLEAN
  PROVE  LET r == BeginCalibrating(s, hold, menu)
         IN  /\ CalibStep(s, r)
             /\ r.calib.goal \in {s.calib.goal, Terminated(s.calib.goal, FALSE)}
             /\ r.calib.phase # "Settling"
             /\ r.calib.phase = "Calibrating" =>
                  r.open /\ r.calib.evidence = s.calib.evidence
<1> DEFINE c == IF s.open THEN [s EXCEPT !.core = SubmitHold(s.core)] ELSE s
           h == SendControl(c, HoldFrame, hold)
           m == SendCalibrate(h, menu)
           r == BeginCalibrating(s, hold, menu)
<1>0. s \in Node /\ s.core \in Core
  BY DEF Held, Node
<1>1. /\ Held(c) /\ Rest(c) = Rest(s) /\ Port(c) = Port(s)
      /\ Gates(c.core) = Gates(s.core) /\ c.core.mode \in {s.core.mode, "Idle"}
      /\ c.core.cfg = s.core.cfg
      /\ c.calib = s.calib /\ c.traj = s.traj /\ c.board = s.board
  <2>1. SubmitHold(s.core) \in Core
    BY <1>0, ClearType
  <2>2. /\ SubmitHold(s.core).mode = "Idle" /\ Gates(SubmitHold(s.core)) = Gates(s.core)
        /\ SubmitHold(s.core).cfg = s.core.cfg
    BY <1>0, HoldEffect
  <2> QED
    BY <2>1, <2>2, CoreHeld
<1> HIDE DEF c
<1>2. HoldFrame.moving = FALSE /\ HoldFrame.moving \in BOOLEAN
  BY DEF HoldFrame
<1>3. /\ h \in Node /\ Rest(h) = Rest(s) /\ Port(h) = Port(s)
      /\ h.core = c.core /\ h.calib = s.calib /\ h.traj = s.traj
      /\ h.board.turning = s.board.turning \/ h.board.turning = FALSE
  BY <1>1, <1>2, SendEffect DEF Held
<1>4. Held(h)
  BY <1>1, <1>2, SendHeld
<1>5. s.open /\ hold => h.board.turning = FALSE
  BY <1>1, <1>2 DEF SendControl, Obeying, Held, Node, Board, Port
<1>6. r = IF ~s.open \/ ~hold THEN CalibFinish(h, "LINK_UNAVAILABLE")
          ELSE IF ~menu THEN CalibFinish(m, "LINK_UNAVAILABLE")
          ELSE [m EXCEPT !.calib.phase = "Calibrating", !.calib.phaseAge = 0]
  BY DEF BeginCalibrating, c
<1> DEFINE q == CalibFinish(h, "LINK_UNAVAILABLE")
<1>f. CalibStep(h, q) /\ q.calib.phase = "Idle"
  BY <1>4, CalibFinishSteps, CalibFinishHeld DEF Held, CalibTracked, CalibHeld
<1>g. q.calib.goal = Terminated(s.calib.goal, FALSE)
  <2>1. h.calib.handle /\ h.calib.goal = s.calib.goal
    BY <1>3
  <2> DEFINE g == NoCalib(Terminated(h.calib.goal, FALSE))
  <2>2. q = [h EXCEPT !.calib = g]
    BY <1>3, <2>1 DEF CalibFinish, Node
  <2>3. g.goal = Terminated(h.calib.goal, FALSE)
    BY DEF NoCalib
  <2> HIDE DEF g, q
  <2>4. q.calib = g
    BY <1>3, <2>2 DEF Node
  <2> QED
    BY <2>1, <2>3, <2>4
<1>7. CASE ~s.open \/ ~hold
  BY <1>1, <1>3, <1>6, <1>7, <1>f, <1>g DEF CalibStep
<1>8. CASE s.open /\ hold /\ ~menu
  <2>1. m = h
    BY <1>8 DEF SendCalibrate
  <2>2. r = q
    BY <1>6, <1>8, <2>1 DEF q
  <2> QED
    BY <1>1, <1>3, <1>f, <1>g, <2>2 DEF CalibStep
<1>9. CASE s.open /\ hold /\ menu
  <2> DEFINE b == [h.board EXCEPT !.calib = "undisturbed"]
             d == [h EXCEPT !.board = b]
             g == [[s.calib EXCEPT !.phase = "Calibrating"] EXCEPT !.phaseAge = 0]
             e == [d EXCEPT !.calib = g]
  <2>1. h.board \in Board /\ s.calib \in Calib
    BY <1>0, <1>3 DEF Node
  <2>2. b \in Board /\ b.turning = FALSE /\ b.calib = "undisturbed"
    BY <1>5, <1>9, <2>1 DEF Board
  <2>3. h.open
    BY <1>3, <1>9 DEF Port
  <2>4. r = e
    <3>1. m = d
      BY <1>3, <1>9, <2>3 DEF SendCalibrate, Node
    <3>2. r = [m EXCEPT !.calib.phase = "Calibrating", !.calib.phaseAge = 0]
      BY <1>6, <1>9
    <3>3. d.calib = s.calib
      BY <1>3 DEF Node
    <3> HIDE DEF d, m, r
    <3>4. [d EXCEPT !.calib.phase = "Calibrating", !.calib.phaseAge = 0] = e
      BY <3>3
    <3> QED
      BY <3>1, <3>2, <3>4
  <2>5. [s.calib EXCEPT !.phase = "Calibrating"] \in Calib /\ 0 \in 0 .. CalibTime
    BY <2>1, DriverAssumption DEF Calib
  <2>6. g \in Calib
    BY <2>5, CalibUpdates
  <2>7. /\ g.phase = "Calibrating" /\ g.handle = s.calib.handle
        /\ g.goal = s.calib.goal /\ g.evidence = s.calib.evidence
    BY <2>1 DEF Calib
  <2> HIDE DEF b, g
  <2>8. d \in Node
    BY <1>3, <2>2, NodeUpdates
  <2>9. e \in Node
    BY <2>6, <2>8, NodeUpdates
  <2>10. /\ Rest(e) = Rest(s) /\ Port(e) = Port(s) /\ e.core = c.core
         /\ e.traj = s.traj /\ e.board = b /\ e.calib = g
    BY <1>3 DEF Node, Rest, Port
  <2> HIDE DEF d, e, h, m, r
  <2>11. GatesAgree(e)
    BY <1>1, <2>2, <2>10 DEF Held, GatesAgree, Rest, Port
  <2>12. Held(e)
    BY <1>4, <1>3, <2>2, <2>7, <2>9, <2>10, <2>11 DEF Held, CalibTracked, CalibHeld, TrajHeld
  <2> QED
    BY <1>1, <1>9, <2>2, <2>3, <2>4, <2>7, <2>10, <2>12 DEF CalibStep, MayEnd, Port, r
<1> QED
  BY <1>7, <1>8, <1>9

(* A look at the angle changes what the settle check knows.                *)
LEMMA WatchedHeld ==
  ASSUME NEW s, Held(s)
  PROVE  LET w == Watched(s)
         IN  /\ Held(w) /\ Rest(w) = Rest(s) /\ Port(w) = Port(s)
             /\ w.core = s.core /\ w.traj = s.traj /\ w.board = s.board
             /\ w.calib.phase = s.calib.phase /\ w.calib.handle = s.calib.handle
             /\ w.calib.goal = s.calib.goal
             /\ w.calib.lastAngle = s.core.continuous
             /\ w.calib.evidence = IF s.calib.lastAngle = None THEN 1 ELSE s.calib.evidence
             /\ w.calib.stillAge =
                  IF s.calib.lastAngle = None THEN s.calib.stillAge
                  ELSE IF ~StillSince(s.calib.lastAngle, s.core.continuous) THEN None
                  ELSE IF s.calib.stillAge = None THEN 0 ELSE s.calib.stillAge
<1> DEFINE still == IF s.calib.lastAngle = None THEN s.calib.stillAge
                    ELSE IF ~StillSince(s.calib.lastAngle, s.core.continuous) THEN None
                    ELSE IF s.calib.stillAge = None THEN 0 ELSE s.calib.stillAge
           seen == IF s.calib.lastAngle = None THEN 1 ELSE s.calib.evidence
           f == [s.calib EXCEPT !.stillAge = still]
           g == [f EXCEPT !.lastAngle = s.core.continuous]
           h == [g EXCEPT !.evidence = seen]
           w == [s EXCEPT !.calib = h]
<1>1. s \in Node /\ s.calib \in Calib /\ s.core.continuous \in [Axes -> Int]
  BY DEF Held, Node, Core
<1>2. 0 \in 0 .. StillTime
  BY DriverAssumption
<1>3. still \in (0 .. StillTime) \cup {None} /\ seen \in 0 .. 2
  BY <1>1, <1>2 DEF Calib
<1>4. Watched(s) = w
  BY <1>1 DEF Watched, Node, Calib
<1> HIDE DEF still, seen
<1>5. f \in Calib
  BY <1>1, <1>3, CalibUpdates
<1>6. g \in Calib
  BY <1>1, <1>5, CalibUpdates
<1>7. h \in Calib
  BY <1>3, <1>6, CalibUpdates
<1>8. /\ h.phase = s.calib.phase /\ h.handle = s.calib.handle /\ h.goal = s.calib.goal
      /\ h.stillAge = still /\ h.lastAngle = s.core.continuous /\ h.evidence = seen
  BY <1>1 DEF Calib
<1> HIDE DEF f, g, h
<1>9. w \in Node
  BY <1>1, <1>7, NodeUpdates
<1>10. /\ Rest(w) = Rest(s) /\ Port(w) = Port(s) /\ w.calib = h
       /\ w.core = s.core /\ w.traj = s.traj /\ w.board = s.board
  BY <1>1 DEF Node, Rest, Port
<1> HIDE DEF w
<1>11. Held(w)
  BY <1>8, <1>9, <1>10 DEF Held, GatesAgree, CalibTracked, CalibHeld, TrajHeld, Rest, Port
<1> QED
  BY <1>4, <1>8, <1>10, <1>11 DEF still, seen

(* The settle check starts over while there is no angle to judge by.       *)
Restarted(s) ==
  [s EXCEPT !.calib.stillAge = None, !.calib.lastAngle = None, !.calib.evidence = 0]

(* That, too, is a step of the calibration.                                *)
LEMMA RestartedHeld ==
  ASSUME NEW s, Held(s)
  PROVE  /\ CalibStep(s, Restarted(s))
         /\ Restarted(s).calib.phase = s.calib.phase
         /\ Restarted(s).calib.stillAge = None /\ Restarted(s).calib.lastAngle = None
<1> DEFINE f == [s.calib EXCEPT !.stillAge = None]
           g == [f EXCEPT !.lastAngle = None]
           h == [g EXCEPT !.evidence = 0]
           r == [s EXCEPT !.calib = h]
<1>1. s \in Node /\ s.calib \in Calib
  BY DEF Held, Node
<1>2. Restarted(s) = r
  BY <1>1 DEF Restarted, Node, Calib
<1>a. f \in Calib
  BY <1>1, CalibUpdates
<1>b. g \in Calib
  BY <1>a, CalibUpdates
<1>3. h \in Calib
  <2>1. 0 \in 0 .. 2
    OBVIOUS
  <2> QED
    BY <1>b, <2>1, CalibUpdates
<1>4. /\ h.phase = s.calib.phase /\ h.handle = s.calib.handle /\ h.goal = s.calib.goal
      /\ h.stillAge = None /\ h.lastAngle = None
  BY <1>1 DEF Calib
<1> HIDE DEF f, g, h
<1>5. r \in Node
  BY <1>1, <1>3, NodeUpdates
<1>6. /\ Rest(r) = Rest(s) /\ Port(r) = Port(s) /\ r.calib = h
      /\ r.core = s.core /\ r.traj = s.traj /\ r.board = s.board
  BY <1>1 DEF Node, Rest, Port
<1> HIDE DEF r
<1>7. Held(r)
  BY <1>4, <1>5, <1>6 DEF Held, GatesAgree, CalibTracked, CalibHeld, TrajHeld, Rest, Port
<1> QED
  BY <1>2, <1>4, <1>6, <1>7 DEF CalibStep, MayEnd

(* The outcomes of a step of the settle check.                             *)
LEMMA SettlingOutcome ==
  ASSUME NEW s, NEW hold, NEW menu
  PROVE  LET r == SettlingTick(s, hold, menu)
         IN  \/ r = CalibFinish(s, "CANCELLED")
             \/ r = Restarted(s)
             \/ /\ AngleUsable(s) /\ Watched(s).calib.stillAge # None
                /\ Watched(s).calib.stillAge >= StillTime
                /\ r = BeginCalibrating(Watched(s), hold, menu)
             \/ r = CalibFinish(Watched(s), "NOT_STILL")
             \/ r = Watched(s)
  BY DEF SettlingTick, Restarted

(* Each of them is a step of the calibration.                              *)
LEMMA SettlingSteps ==
  ASSUME NEW s, Held(s), s.calib.handle, s.calib.phase = "Settling",
         NEW hold \in BOOLEAN, NEW menu \in BOOLEAN
  PROVE  CalibStep(s, SettlingTick(s, hold, menu))
<1> DEFINE w == Watched(s)
<1>1. /\ Held(w) /\ Rest(w) = Rest(s) /\ Port(w) = Port(s)
      /\ w.core = s.core /\ w.traj = s.traj /\ w.board = s.board
      /\ w.calib.phase = s.calib.phase /\ w.calib.handle = s.calib.handle
      /\ w.calib.goal = s.calib.goal
  BY WatchedHeld
<1> HIDE DEF w
<1>2. ASSUME NEW r, CalibStep(w, r) PROVE CalibStep(s, r)
  BY <1>1, <1>2 DEF CalibStep
<1>3. CalibStep(w, BeginCalibrating(w, hold, menu))
  BY <1>1, BeginSteps
<1>4. CalibStep(w, CalibFinish(w, "NOT_STILL"))
  BY <1>1, CalibFinishSteps
<1>5. CalibStep(s, w)
  BY <1>1 DEF CalibStep, MayEnd
<1>6. CalibStep(s, CalibFinish(s, "CANCELLED"))
  BY CalibFinishSteps
<1>7. CalibStep(s, Restarted(s))
  BY RestartedHeld
<1> QED
  BY <1>2, <1>3, <1>4, <1>5, <1>6, <1>7, SettlingOutcome DEF w

(* calibTick as a whole, in any phase.                                     *)
LEMMA CalibTickSteps ==
  ASSUME NEW s, Held(s), NEW hold \in BOOLEAN, NEW menu \in BOOLEAN
  PROVE  CalibStep(s, CalibTick(s, hold, menu))
<1>1. CalibStep(s, s)
  BY DEF CalibStep, MayEnd, CalibTracked, CalibHeld, Held
<1>2. \A code : CalibStep(s, CalibFinish(s, code))
  BY CalibFinishSteps
<1>3. CalibStep(s, CalibratingTick(s))
  BY <1>1, <1>2 DEF CalibratingTick
<1>4. CASE s.calib.phase = "Idle" \/ ~s.calib.handle
  BY <1>1, <1>4 DEF CalibTick
<1>5. CASE s.calib.handle /\ s.calib.phase = "Calibrating"
  BY <1>3, <1>5 DEF CalibTick
<1>6. CASE s.calib.handle /\ s.calib.phase = "Settling"
  <2>1. CalibStep(s, SettlingTick(s, hold, menu))
    BY <1>6, SettlingSteps
  <2> QED
    BY <1>2, <1>6, <2>1 DEF CalibTick
<1>7. s.calib.phase \in {"Idle", "Settling", "Calibrating"}
  BY DEF Held, Node, Calib
<1> QED
  BY <1>4, <1>5, <1>6, <1>7

-----------------------------------------------------------------------------
(* The evidence of the settle check.                                       *)

(* What it knows while it settles: how long the camera has been still is   *)
(* counted from a look at an angle, and as long as that is the only sample *)
(* it has seen the sample is at least as old, by a clock that is never set *)
(* back.                                                                   *)
Watching(s) ==
  s.calib.phase = "Settling" =>
    /\ s.calib.lastAngle = None => s.calib.stillAge = None
    /\ s.calib.lastAngle # None => s.calib.evidence >= 1
    /\ s.calib.stillAge # None /\ JumpMax = 0 =>
         \/ s.calib.evidence >= 2
         \/ s.core.telemetryAge >= s.calib.stillAge
         \/ s.core.telemetryAge = MaxAge

(* An angle as old as the time to be still is not fresh any more.          *)
FreshIsShort(cfg) ==
  /\ cfg.angleFresh \in Int /\ cfg.angleFresh < StillTime /\ cfg.angleFresh < MaxAge
  /\ JumpMax = 0

(* Looking once more keeps that.                                           *)
LEMMA WatchedSees ==
  ASSUME NEW s, Held(s), Watching(s), s.calib.phase = "Settling"
  PROVE  Watching(Watched(s))
<1> DEFINE w == Watched(s)
<1>1. /\ w.core = s.core /\ w.calib.phase = s.calib.phase
      /\ w.calib.lastAngle = s.core.continuous
      /\ w.calib.evidence = IF s.calib.lastAngle = None THEN 1 ELSE s.calib.evidence
      /\ w.calib.stillAge =
           IF s.calib.lastAngle = None THEN s.calib.stillAge
           ELSE IF ~StillSince(s.calib.lastAngle, s.core.continuous) THEN None
           ELSE IF s.calib.stillAge = None THEN 0 ELSE s.calib.stillAge
  BY WatchedHeld
<1> HIDE DEF w
<1>2. s.core.continuous \in [Axes -> Int] /\ s.core.telemetryAge \in Ages
      /\ s.calib.evidence \in 0 .. 2
  BY DEF Held, Node, Core, Calib
<1>3. w.calib.lastAngle # None
  BY <1>1, <1>2, DriverAssumption
<1>4. w.calib.evidence >= 1
  BY <1>1, <1>2 DEF Watching
<1>5. ASSUME w.calib.stillAge # None, JumpMax = 0
      PROVE  w.calib.evidence >= 2 \/ w.core.telemetryAge >= w.calib.stillAge
             \/ w.core.telemetryAge = MaxAge
  <2>1. s.calib.lastAngle # None
    BY <1>1, <1>5 DEF Watching
  <2>2. w.calib.evidence = s.calib.evidence
        /\ w.calib.stillAge = IF s.calib.stillAge = None THEN 0 ELSE s.calib.stillAge
    BY <1>1, <1>5, <2>1
  <2>3. CASE s.calib.stillAge = None
    BY <1>1, <1>2, <1>5, <2>2, <2>3 DEF Ages
  <2>4. CASE s.calib.stillAge # None
    BY <1>1, <1>5, <2>2, <2>4 DEF Watching
  <2> QED
    BY <2>3, <2>4
<1> QED
  BY <1>3, <1>4, <1>5 DEF Watching, w

(* The check starts the calibration on two samples or not at all.          *)
LEMMA SettlingSees ==
  ASSUME NEW s, Held(s), Watching(s), s.calib.handle, s.calib.phase = "Settling",
         FreshIsShort(s.core.cfg), NEW hold \in BOOLEAN, NEW menu \in BOOLEAN
  PROVE  LET r == SettlingTick(s, hold, menu)
         IN  /\ Watching(r)
             /\ r.calib.phase = "Calibrating" => r.calib.evidence >= 2
<1> DEFINE w == Watched(s)
           r == SettlingTick(s, hold, menu)
<1>1. /\ Held(w) /\ w.core = s.core
      /\ w.calib.phase = "Settling" /\ w.calib.handle /\ Watching(w)
  BY WatchedHeld, WatchedSees
<1> HIDE DEF w
<1>2. ASSUME NEW d, Held(d), NEW code
      PROVE  CalibFinish(d, code).calib.phase = "Idle"
  BY <1>2, CalibFinishHeld DEF Held, CalibHeld, CalibTracked
<1>3. CASE r = CalibFinish(s, "CANCELLED") \/ r = CalibFinish(w, "NOT_STILL")
  <2>1. r.calib.phase = "Idle"
    BY <1>1, <1>2, <1>3
  <2> QED
    BY <2>1 DEF Watching
<1>4. CASE r = Restarted(s)
  <2>1. /\ r.calib.phase = "Settling"
        /\ r.calib.stillAge = None /\ r.calib.lastAngle = None
    BY <1>4, RestartedHeld
  <2> QED
    BY <2>1 DEF Watching
<1>5. CASE r = w
  BY <1>1, <1>5
<1>6. CASE /\ AngleUsable(s) /\ w.calib.stillAge # None
           /\ w.calib.stillAge >= StillTime
           /\ r = BeginCalibrating(w, hold, menu)
  <2>1. /\ CalibStep(w, r)
        /\ r.calib.phase = "Calibrating" => r.calib.evidence = w.calib.evidence
    <3>1. LET b == BeginCalibrating(w, hold, menu)
          IN  /\ CalibStep(w, b)
              /\ b.calib.phase = "Calibrating" =>
                   b.open /\ b.calib.evidence = w.calib.evidence
      BY <1>1, BeginSteps
    <3> QED
      BY <1>6, <3>1
  <2>2. w.calib.stillAge \in Int /\ s.core.telemetryAge \in Int /\ StillTime \in Int
        /\ MaxAge \in Int
    BY <1>1, <1>6, CoreAssumption, DriverAssumption DEF Held, Node, Core, Calib, Ages
  <2>3. s.core.telemetryAge <= s.core.cfg.angleFresh
    <3>1. NaN \notin Int
      BY CoreAssumption
    <3> QED
      BY <1>6, <2>2, <3>1 DEF AngleUsable, Lt, FreshIsShort
  <2>4. w.calib.evidence >= 2
    BY <1>1, <1>6, <2>2, <2>3 DEF Watching, FreshIsShort
  <2>5. r.calib.phase # "Settling"
    BY <1>1, <1>6, BeginSteps
  <2> QED
    BY <2>1, <2>4, <2>5 DEF Watching
<1> QED
  BY <1>3, <1>4, <1>5, <1>6, SettlingOutcome DEF w

(* calibTick as a whole, likewise.                                         *)
LEMMA CalibTickSees ==
  ASSUME NEW s, Held(s), Watching(s), FreshIsShort(s.core.cfg),
         NEW hold \in BOOLEAN, NEW menu \in BOOLEAN
  PROVE  LET r == CalibTick(s, hold, menu)
         IN  /\ Watching(r)
             /\ s.calib.phase = "Settling" /\ r.calib.phase = "Calibrating"
                  => r.calib.evidence >= 2
<1> DEFINE r == CalibTick(s, hold, menu)
<1>1. \A code : CalibFinish(s, code).calib.phase = "Idle"
  BY CalibFinishHeld DEF Held, CalibHeld, CalibTracked
<1>2. CASE r = s
  BY <1>2
<1>3. CASE \E code : r = CalibFinish(s, code)
  <2>1. r.calib.phase = "Idle"
    BY <1>1, <1>3
  <2> QED
    BY <2>1 DEF Watching
<1>4. CASE /\ s.calib.handle /\ s.calib.phase = "Settling"
           /\ r = SettlingTick(s, hold, menu)
  BY <1>4, SettlingSees
<1>5. s.calib.phase \in {"Idle", "Settling", "Calibrating"}
  BY DEF Held, Node, Calib
<1> QED
  BY <1>2, <1>3, <1>4, <1>5 DEF CalibTick, CalibratingTick

-----------------------------------------------------------------------------
(* The trajectory, one control period after the other. *)

(* What a step of the trajectory may do to the node: motion is pending     *)
(* afterwards only where it was before or the trajectory goes on.          *)
TrajStep(s, r) ==
  /\ Held(r) /\ Rest(r) = Rest(s) /\ Port(r) = Port(s)
  /\ r.calib = s.calib /\ r.board = s.board
  /\ Gates(r.core) = Gates(s.core) /\ Track(r.core) = Track(s.core)
  /\ r.core.cfg = s.core.cfg
  /\ r.core.mode # "Idle" => s.core.mode # "Idle" \/ s.traj.handle
  /\ r.traj.handle => s.traj.handle
  /\ MayEnd(s.traj.goal, r.traj.goal)

(* The end of a trajectory is such a step.                                 *)
LEMMA TrajFinishSteps ==
  ASSUME NEW s, Held(s), NEW code PROVE TrajStep(s, TrajFinish(s, code))
<1> DEFINE r == TrajFinish(s, code)
<1>1. /\ r \in Node /\ Rest(r) = Rest(s) /\ Port(r) = Port(s)
      /\ r.core = s.core /\ r.calib = s.calib /\ r.board = s.board
      /\ ~r.traj.handle /\ ~r.traj.active /\ r.traj.goal \notin Live
      /\ MayEnd(s.traj.goal, r.traj.goal)
  BY TrajFinishHeld DEF Held
<1> HIDE DEF r
<1>2. Held(r)
  BY <1>1 DEF Held, GatesAgree, CalibHeld, CalibTracked, TrajHeld, Rest, Port
<1> QED
  BY <1>1, <1>2 DEF TrajStep, r

(* trajTick as a whole: it feeds the core its target, holds, or ends.      *)
LEMMA TrajTickSteps ==
  ASSUME NEW s, Held(s) PROVE TrajStep(s, TrajTick(s))
<1> DEFINE fed == [s EXCEPT !.core = SubmitAngle(s.core, s.traj.target, s.relative)]
           stopped(q) == [q EXCEPT !.core = SubmitHold(@)]
           r == TrajTick(s)
<1>0. /\ s \in Node /\ s.core \in Core /\ s.relative \in BOOLEAN
      /\ s.traj \in Traj /\ s.traj.target \in [Axes -> Num]
  BY DEF Held, Node, Traj
<1>1. TrajStep(s, s)
  BY DEF TrajStep, MayEnd
<1>2. ASSUME NEW q, TrajStep(s, q), q.traj = s.traj
      PROVE  /\ TrajStep(s, stopped(q)) /\ stopped(q).traj = s.traj
             /\ \A code : TrajStep(s, TrajFinish(q, code))
  <2>1. q \in Node /\ q.core \in Core /\ Held(q)
    BY <1>2 DEF TrajStep, Held, Node
  <2>2. stopped(q) = [q EXCEPT !.core = SubmitHold(q.core)]
    OBVIOUS
  <2>3. /\ SubmitHold(q.core) \in Core /\ SubmitHold(q.core).mode = "Idle"
        /\ Gates(SubmitHold(q.core)) = Gates(q.core)
        /\ Track(SubmitHold(q.core)) = Track(q.core)
        /\ SubmitHold(q.core).cfg = q.core.cfg
    BY <2>1, ClearType, HoldEffect, ConfigKept
  <2>4. /\ Held(stopped(q)) /\ Rest(stopped(q)) = Rest(q) /\ Port(stopped(q)) = Port(q)
        /\ stopped(q).core = SubmitHold(q.core) /\ stopped(q).calib = q.calib
        /\ stopped(q).traj = q.traj /\ stopped(q).board = q.board
    BY <2>1, <2>2, <2>3, CoreHeld
  <2>5. ASSUME NEW code PROVE TrajStep(s, TrajFinish(q, code))
    <3>1. TrajStep(q, TrajFinish(q, code))
      BY <2>1, TrajFinishSteps
    <3> QED
      BY <1>2, <3>1 DEF TrajStep
  <2>6. TrajStep(s, stopped(q))
    BY <1>2, <2>3, <2>4 DEF TrajStep, MayEnd
  <2> QED
    BY <2>4, <2>5, <2>6, <1>2
<1>3. CASE ~s.traj.handle \/ ~s.traj.active
  BY <1>1, <1>3 DEF TrajTick
<1>4. CASE s.traj.handle /\ s.traj.active
  <2> DEFINE c == SubmitAngle(s.core, s.traj.target, s.relative)
  <2>1. /\ c \in Core /\ Gates(c) = Gates(s.core) /\ Track(c) = Track(s.core)
        /\ c.cfg = s.core.cfg
        /\ c.mode # "Idle" => MotionPermitted(s.core)
    BY <1>0, SubmitAngleType, AngleEffect
  <2>2. fed = [s EXCEPT !.core = c]
    OBVIOUS
  <2>3. r \in {TrajFinish(stopped(s), "SUCCESSFUL"), TrajFinish(s, "INVALID_GOAL")}
        \/ r \in {fed, TrajFinish(fed, "SUCCESSFUL"),
                  TrajFinish(stopped(fed), "GOAL_TOLERANCE_VIOLATED")}
    BY <1>4 DEF TrajTick
  <2> HIDE DEF c, fed, stopped, r
  <2>4. /\ Held(fed) /\ Rest(fed) = Rest(s) /\ Port(fed) = Port(s)
        /\ fed.core = c /\ fed.calib = s.calib
        /\ fed.traj = s.traj /\ fed.board = s.board
    BY <2>1, <2>2, CoreHeld
  <2>5. TrajStep(s, fed)
    BY <1>4, <2>1, <2>4 DEF TrajStep, MayEnd
  <2>6. /\ TrajStep(s, stopped(s)) /\ stopped(s).traj = s.traj
        /\ TrajStep(s, stopped(fed)) /\ stopped(fed).traj = s.traj
    BY <1>1, <1>2, <2>4, <2>5
  <2>7. \A code : /\ TrajStep(s, TrajFinish(s, code))
                  /\ TrajStep(s, TrajFinish(fed, code))
                  /\ TrajStep(s, TrajFinish(stopped(s), code))
                  /\ TrajStep(s, TrajFinish(stopped(fed), code))
    BY <1>1, <1>2, <2>4, <2>5, <2>6
  <2> QED
    BY <2>5, <2>3, <2>7 DEF r
<1> QED
  BY <1>3, <1>4
=============================================================================
