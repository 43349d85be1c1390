-------------------------- MODULE GimbalLoop_proofs --------------------------
(***************************************************************************)
(* Proofs about GimbalLoop, for every value of its constants: that the     *)
(* watchdog stops the camera itself and that the camera itself, and not    *)
(* only its track, keeps to the travel limits.                             *)
(*                                                                         *)
(* What a callback does to the node is known from DriverNode_proofs up to  *)
(* four things the closed loop depends on: the age of the command, the     *)
(* track, the two delays a clock set back makes longer, and exactly which  *)
(* frame reached the board.  They come first.                              *)
(***************************************************************************)
EXTENDS GimbalLoop, DriverNode_proofs

-----------------------------------------------------------------------------
(* The configuration, and the sides of an axis. *)

(* The one configuration is sane, and setConfig leaves it as it is.        *)
LEMMA ConfigSane ==
  /\ TheConfig \in Configs /\ TheConfig \in Config /\ Sane(TheConfig)
  /\ Loaded = {TheConfig}
<1>1. TheConfig \in Configs /\ TheConfig \in Config /\ Sane(TheConfig)
  BY LoopAssumption, NodeInputs
<1>2. Sanitised(TheConfig) = TheConfig
  <2> DEFINE k == TheConfig
  <2> HIDE DEF k
  <2>1. k \in Config /\ Sane(k)
    BY <1>1 DEF k
  <2>2. /\ \A a \in Axes : /\ k.maxRate[a] \in Int /\ k.maxRate[a] > 0
                           /\ k.limitMin[a] \in Int /\ k.limitMax[a] \in Int
                           /\ k.limitMin[a] <= k.limitMax[a]
        /\ k.slew \in Int /\ k.slew > 0
        /\ k.commandTimeout \in Int /\ k.commandTimeout > 0
        /\ k.angleFresh \in Int /\ k.angleFresh > 0
    BY <2>1 DEF Sane, SaneLimits, SaneRates, SaneTimeouts
  <2>3. Sanitised(k) = k
    <3> DEFINE orDefault(x, d) == IF Positive(x) THEN x ELSE d
               bounded(a) == k.limitMin[a] # NaN /\ k.limitMax[a] # NaN
               lo(a) == IF bounded(a) THEN k.limitMin[a] ELSE Defaults.limitMin[a]
               hi(a) == IF bounded(a) THEN k.limitMax[a] ELSE Defaults.limitMax[a]
               rates == [a \in Axes |-> orDefault(k.maxRate[a], Defaults.maxRate[a])]
               low == [a \in Axes |-> IF lo(a) > hi(a) THEN hi(a) ELSE lo(a)]
               high == [a \in Axes |-> IF lo(a) > hi(a) THEN lo(a) ELSE hi(a)]
    <3>1. NaN \notin Int
      BY CoreAssumption
    <3>2. \A x \in Int : \A d : x > 0 => orDefault(x, d) = x
      BY <3>1 DEF Positive, Lt
    <3>3. \A a \in Axes : lo(a) = k.limitMin[a] /\ hi(a) = k.limitMax[a]
      BY <2>2, <3>1
    <3>4. /\ k.maxRate = [a \in Axes |-> k.maxRate[a]]
          /\ k.limitMin = [a \in Axes |-> k.limitMin[a]]
          /\ k.limitMax = [a \in Axes |-> k.limitMax[a]]
      BY <2>1 DEF Config
    <3> HIDE DEF orDefault
    <3>6. rates = k.maxRate
      BY <2>2, <3>2, <3>4
    <3>7. low = k.limitMin /\ high = k.limitMax
      <4>1. ASSUME NEW a \in Axes
            PROVE  low[a] = k.limitMin[a] /\ high[a] = k.limitMax[a]
        <5>1. lo(a) = k.limitMin[a] /\ hi(a) = k.limitMax[a]
          BY <3>3
        <5>2. ~(k.limitMin[a] > k.limitMax[a])
          BY <2>2
        <5> QED
          BY <5>1, <5>2
      <4> HIDE DEF lo, hi
      <4> QED
        BY <3>4, <4>1
    <3>8. /\ orDefault(k.slew, Defaults.slew) = k.slew
          /\ orDefault(k.commandTimeout, Defaults.commandTimeout) = k.commandTimeout
          /\ orDefault(k.angleFresh, Defaults.angleFresh) = k.angleFresh
      BY <2>2, <3>2
    <3> DEFINE e == [k EXCEPT
                       !.maxRate = rates, !.limitMin = low, !.limitMax = high,
                       !.slew = orDefault(k.slew, Defaults.slew),
                       !.commandTimeout =
                         orDefault(k.commandTimeout, Defaults.commandTimeout),
                       !.angleFresh = orDefault(k.angleFresh, Defaults.angleFresh)]
    <3>5. Sanitised(k) = e
      BY <2>1 DEF Sanitised, orDefault, Config
    <3> HIDE DEF rates, low, high
    <3>9. e = k
      BY <2>1, <3>6, <3>7, <3>8 DEF Config
    <3> QED
      BY <3>5, <3>9
  <2> QED
    BY <2>3 DEF k
<1> QED
  BY <1>1, <1>2, LoopAssumption DEF Loaded

(* By how much x lies beyond the limit of axis a on one side, and whether  *)
(* a rate leads that way.                                                  *)
Sides == {"below", "above"}
Beyond(side, a, x) ==
  IF side = "above" THEN x - TheConfig.limitMax[a] ELSE TheConfig.limitMin[a] - x
Outward(side, v) == IF side = "above" THEN v > 0 ELSE v < 0

(* What the constants say of one axis.                                     *)
LEMMA AxisFacts ==
  ASSUME NEW a \in Axes
  PROVE  /\ TheConfig.limitMin[a] \in Int /\ TheConfig.limitMax[a] \in Int
         /\ TheConfig.limitMin[a] <= 0 /\ 0 <= TheConfig.limitMax[a]
         /\ TheConfig.maxRate[a] \in Int /\ 0 < TheConfig.maxRate[a]
         /\ Pace \in Nat /\ Pace >= 1
<1>1. /\ TheConfig.limitMin[a] \in Int /\ TheConfig.limitMax[a] \in Int
      /\ TheConfig.maxRate[a] \in Int /\ 0 < TheConfig.maxRate[a]
  BY ConfigSane DEF Sane, SaneLimits, SaneRates
<1>2. /\ 0 \in TheConfig.limitMin[a] .. TheConfig.limitMax[a]
      /\ TheConfig.maxRate[a] <= Pace /\ Pace \in Nat
  BY LoopAssumption
<1> QED
  BY <1>1, <1>2

(* What they say of time.                                                  *)
LEMMA TimeFacts ==
  /\ TheConfig.commandTimeout \in Int /\ 0 < TheConfig.commandTimeout
  /\ TheConfig.angleFresh \in Int /\ 0 < TheConfig.angleFresh
  /\ QuietMax \in Nat /\ QuietMax > TheConfig.commandTimeout + JumpMax + 1
  /\ MaxAge \in Nat /\ JumpMax \in Nat
  /\ MaxAge - JumpMax > TheConfig.commandTimeout
  /\ MaxAge - JumpMax > TheConfig.angleFresh
<1>1. /\ TheConfig.commandTimeout \in Int /\ 0 < TheConfig.commandTimeout
      /\ TheConfig.angleFresh \in Int /\ 0 < TheConfig.angleFresh
  BY ConfigSane DEF Sane, SaneTimeouts
<1> QED
  BY <1>1, LoopAssumption, CoreAssumption

-----------------------------------------------------------------------------
(* The frame of a tick, as the camera takes it. *)

(* At the scale of one count a unit, an angle on the wire lies between     *)
(* zero and the angle it was made from.                                    *)
LEMMA AngleUnitsBetween ==
  ASSUME NEW y \in Int
  PROVE  /\ AngleUnits(y) \in Int
         /\ y >= 0 => 0 <= AngleUnits(y) /\ AngleUnits(y) <= y
         /\ y <= 0 => y <= AngleUnits(y) /\ AngleUnits(y) <= 0
<1>1. RoundAway(y, AngleScale) = y
  BY LoopAssumption DEF RoundAway
<1>2. AngleUnits(y) = Saturate(y)
  BY <1>1 DEF AngleUnits
<1> QED
  BY <1>2, CoreAssumption DEF Saturate

(* An axis is turned outward only on the evidence of a fresh angle inside  *)
(* that limit.                                                             *)
LEMMA TickOutward ==
  ASSUME NEW c \in Core, c.cfg = TheConfig, TheConfig.enforceLimits,
         NEW a \in Axes, NEW side \in Sides, Tick(c).mode[a] = "SPEED",
         Outward(side, BoardValue(a, Tick(c).speed[a]))
  PROVE  /\ c.angleValid /\ c.telemetryAge <= TheConfig.angleFresh
         /\ Beyond(side, a, c.continuous[a]) <= -1
<1> DEFINE turn == BoardValue(a, Tick(c).speed[a])
<1>0. /\ c.continuous[a] \in Int /\ c.telemetryAge \in Ages
      /\ SaneLimits(c.cfg) /\ c.cfg.enforceLimits
  BY ConfigSane DEF Core, Sane
<1>1. Tick(c) # HoldFrame
  <2>1. HoldFrame.speed[a] = 0
    BY DEF HoldFrame, Zero
  <2>2. ~Outward(side, BoardValue(a, 0))
    BY DEF Outward, BoardValue, Sides
  <2> QED
    BY <2>1, <2>2
<1>2. ~AngleStale(c)
  BY <1>0, <1>1, LimitingUnlessHold DEF Limiting
<1>3. c.angleValid /\ c.telemetryAge <= TheConfig.angleFresh
  <2>1. c.telemetryAge \in Int /\ TheConfig.angleFresh \in Int /\ NaN \notin Int
    BY <1>0, TimeFacts, CoreAssumption DEF Ages
  <2> QED
    BY <1>2, <2>1 DEF AngleStale, Lt
<1>4. /\ c.continuous[a] <= TheConfig.limitMin[a] => turn >= 0
      /\ c.continuous[a] >= TheConfig.limitMax[a] => turn <= 0
  BY <1>0, RateRespectsLimits
<1>5. turn \in Int
  <2>1. Tick(c) \in Frame
    BY TickType, ConfigSane DEF Sane, SaneRates
  <2> QED
    BY <2>1 DEF Frame, BoardValue
<1> HIDE DEF turn
<1>6. Outward(side, turn)
  BY DEF turn
<1>7. Beyond(side, a, c.continuous[a]) <= -1
  BY <1>0, <1>4, <1>5, <1>6, AxisFacts DEF Beyond, Outward, Sides
<1> QED
  BY <1>3, <1>7

(* An axis that is sent to an angle is sent to one inside its limits; a    *)
(* locked roll goes to zero.                                               *)
LEMMA TickAims ==
  ASSUME NEW c \in Core, c.cfg = TheConfig, TheConfig.enforceLimits,
         NEW a \in Axes, NEW side \in Sides, Tick(c).mode[a] # "SPEED"
  PROVE  Beyond(side, a, BoardValue(a, Tick(c).angle[a])) <= 0
<1>0. SaneLimits(c.cfg) /\ c.cfg.enforceLimits
  BY ConfigSane DEF Sane
<1>1. CASE RollHeld(c, a)
  <2>1. Tick(c) # HoldFrame
    BY DEF HoldFrame
  <2>2. Tick(c).angle[a] = 0
    BY <1>0, <1>1, <2>1, LimitingUnlessHold DEF MotionFrame
  <2> QED
    BY <2>2, AxisFacts DEF Beyond, BoardValue
<1>2. CASE ~RollHeld(c, a)
  <2>1. PICK x \in TheConfig.limitMin[a] .. TheConfig.limitMax[a] :
          Tick(c).angle[a] = AngleUnits(BoardValue(a, x))
    BY <1>0, <1>2, TargetInside
  <2>2. x \in Int /\ TheConfig.limitMin[a] <= x /\ x <= TheConfig.limitMax[a]
    BY <2>1, AxisFacts
  <2> DEFINE y == BoardValue(a, x)
             z == AngleUnits(y)
  <2>3. y \in Int /\ y = IF a = "pitch" THEN -x ELSE x
    BY <2>2 DEF BoardValue
  <2> HIDE DEF y
  <2>4. /\ z \in Int
        /\ y >= 0 => 0 <= z /\ z <= y
        /\ y <= 0 => y <= z /\ z <= 0
    BY <2>3, AngleUnitsBetween
  <2> HIDE DEF z
  <2>5. Beyond(side, a, BoardValue(a, z)) <= 0
    BY <2>2, <2>3, <2>4, AxisFacts DEF Beyond, BoardValue
  <2> QED
    BY <2>1, <2>5 DEF y, z
<1> QED
  BY <1>1, <1>2

(* A frame that moves is built while the command is younger than its time  *)
(* out; one that does not move turns no axis.                              *)
LEMMA TickMoving ==
  ASSUME NEW c \in Core, c.cfg = TheConfig
  PROVE  /\ Tick(c) \in Frame /\ Tick(c).moving \in BOOLEAN
         /\ Tick(c).moving => /\ c.mode # "Idle"
                              /\ c.commandAge <= TheConfig.commandTimeout
         /\ ~Tick(c).moving =>
              \A a \in Axes : Tick(c).mode[a] = "SPEED" /\ Tick(c).speed[a] = 0
<1>1. Tick(c) \in Frame
  BY TickType, ConfigSane DEF Sane, SaneRates
<1>2. Tick(c).moving => c.mode # "Idle" /\ CommandFresh(c)
  BY DEF Tick, HoldFrame, NothingToDo
<1>3. CommandFresh(c) => c.commandAge <= TheConfig.commandTimeout
  BY DEF CommandFresh, Le
<1>4. ~Tick(c).moving => Tick(c) = HoldFrame
  BY StillIsHold
<1> QED
  BY <1>1, <1>2, <1>3, <1>4 DEF Frame, HoldFrame, Zero

-----------------------------------------------------------------------------
(* What a callback leaves of the core, whose command may have been given   *)
(* by it (told), and of the delays a clock set back makes longer.          *)

(* A command that is pending was pending or has just been given.           *)
Pending(c, d, told) ==
  /\ d.mode # "Idle" => \/ told /\ d.commandAge = 0
                        \/ c.mode # "Idle" /\ d.commandAge = c.commandAge
  /\ d.commandAge \in {c.commandAge, 0, MaxAge}

(* The track is the one there was, or there is none.                       *)
Tracked(c, d) ==
  /\ d.telemetryAge \in {c.telemetryAge, MaxAge}
  /\ d.angleValid => /\ c.angleValid /\ d.telemetryAge = c.telemetryAge
                     /\ d.continuous = c.continuous
  /\ d.haveContinuous => c.haveContinuous /\ d.continuous = c.continuous

Onward(c, d, told) == Pending(c, d, told) /\ Tracked(c, d)

Delays(n, s) ==
  /\ s.retryIn <= n.retryIn \/ s.retryIn <= ReconnectDelay
  /\ s.traj.left <= n.traj.left \/ s.traj.left <= MaxTravel
  /\ n.calib.phase = "Idle" => s.calib.phase = "Idle"

Moves(n, s, told) == Onward(n.core, s.core, told) /\ Delays(n, s)

(* One such change after the other.                                        *)
LEMMA OnwardChains ==
  ASSUME NEW c, NEW d, NEW e, NEW told \in BOOLEAN
  PROVE  /\ Pending(c, d, told) /\ Pending(d, e, told) => Pending(c, e, told)
         /\ Tracked(c, d) /\ Tracked(d, e) => Tracked(c, e)
  BY DEF Pending, Tracked

(* A command counts only where one is left.                                *)
LEMMA PendingCounts ==
  ASSUME NEW c, NEW d, NEW told \in BOOLEAN, Pending(c, d, told)
  PROVE  Pending(c, d, told /\ d.mode # "Idle")
  BY DEF Pending

(* None at all.                                                            *)
LEMMA OnwardSame ==
  ASSUME NEW c, NEW told \in BOOLEAN PROVE Onward(c, c, told)
  BY DEF Onward, Pending, Tracked

(* A core that commands nothing and has no track: what a constructor       *)
(* leaves.  It may take the place of any core.                             *)
Blank(d) ==
  /\ d.mode = "Idle" /\ d.commandAge = MaxAge /\ d.telemetryAge = MaxAge
  /\ d.angleValid = FALSE /\ d.haveContinuous = FALSE

(* It has less than any other.                                             *)
LEMMA BlankOnward ==
  ASSUME NEW c, NEW d, Blank(d), NEW told \in BOOLEAN PROVE Onward(c, d, told)
  BY DEF Onward, Pending, Tracked, Blank

(* A constructed core is one, and stays one while its gates are set.       *)
LEMMA NewCoreBlank ==
  ASSUME NEW cfg \in Configs PROVE Blank(NewCore(cfg)) /\ NewCore(cfg) \in Core
<1>1. cfg \in Config
  BY NodeInputs
<1> QED
  BY <1>1, NewCoreType DEF Blank, NewCore

(* Its gates, however they are set, leave it one.                          *)
LEMMA GatesBlank ==
  ASSUME NEW c \in Core, Blank(c), NEW b \in BOOLEAN
  PROVE  Blank(SetControlAllowed(c, b)) /\ Blank(SetArmed(c, b)) /\ Blank(SetLinkUp(c, b))
<1>1. Blank(SetControlAllowed(c, b))
  BY DEF Blank, SetControlAllowed, ClearCommand, Core
<1>2. Blank(SetArmed(c, b))
  BY DEF Blank, SetArmed, ClearCommand, Core
<1>3. Blank(SetLinkUp(c, b))
  BY DEF Blank, SetLinkUp, ClearCommand, Core
<1> QED
  BY <1>1, <1>2, <1>3

(* The gates drop a command or leave it.                                   *)
LEMMA GatesOnward ==
  ASSUME NEW c \in Core, NEW b \in BOOLEAN, NEW told \in BOOLEAN
  PROVE  Onward(c, SetArmed(c, b), told) /\ Onward(c, SetLinkUp(c, b), told)
<1>1. Onward(c, SetArmed(c, b), told)
  <2> DEFINE d == SetArmed(c, b)
  <2>1. /\ d.mode \in {c.mode, "Idle"} /\ d.commandAge = c.commandAge
        /\ d.telemetryAge = c.telemetryAge /\ d.continuous = c.continuous
        /\ d.angleValid = c.angleValid /\ d.haveContinuous = c.haveContinuous
    BY DEF SetArmed, ClearCommand, Core
  <2> HIDE DEF d
  <2>2. Onward(c, d, told)
    BY <2>1 DEF Onward, Pending, Tracked
  <2> QED
    BY <2>2 DEF d
<1>2. Onward(c, SetLinkUp(c, b), told)
  <2> DEFINE d == SetLinkUp(c, b)
  <2>1. /\ d.mode \in {c.mode, "Idle"} /\ d.commandAge = c.commandAge
        /\ d.telemetryAge = c.telemetryAge /\ d.continuous = c.continuous
        /\ d.angleValid \in {c.angleValid, FALSE}
        /\ d.haveContinuous \in {c.haveContinuous, FALSE}
    BY DEF SetLinkUp, ClearCommand, Core
  <2> HIDE DEF d
  <2>2. Onward(c, d, told)
    BY <2>1 DEF Onward, Pending, Tracked
  <2> QED
    BY <2>2 DEF d
<1> QED
  BY <1>1, <1>2

(* A hold leaves no command.                                               *)
LEMMA HoldOnward ==
  ASSUME NEW c \in Core, NEW told \in BOOLEAN PROVE Onward(c, SubmitHold(c), told)
<1> DEFINE d == SubmitHold(c)
<1>1. /\ d.mode = "Idle" /\ d.commandAge = 0
      /\ d.telemetryAge = c.telemetryAge /\ d.continuous = c.continuous
      /\ d.angleValid = c.angleValid /\ d.haveContinuous = c.haveContinuous
  BY DEF SubmitHold, ClearCommand, Core
<1> HIDE DEF d
<1>2. Onward(c, d, told)
  BY <1>1 DEF Onward, Pending, Tracked
<1> QED
  BY <1>2 DEF d

(* A command that is taken has been given; one that is refused is a hold.  *)
LEMMA CommandOnward ==
  ASSUME NEW c \in Core, NEW v, NEW relative
  PROVE  Onward(c, SubmitRate(c, v), TRUE) /\ Onward(c, SubmitAngle(c, v, relative), TRUE)
<1>0. Onward(c, SubmitHold(c), TRUE)
  BY HoldOnward
<1>1. Onward(c, SubmitRate(c, v), TRUE)
  <2> DEFINE d == SubmitRate(c, v)
  <2>1. CASE Accepted(c, v)
    <3>1. /\ d.commandAge = 0
          /\ d.telemetryAge = c.telemetryAge /\ d.continuous = c.continuous
          /\ d.angleValid = c.angleValid /\ d.haveContinuous = c.haveContinuous
      BY <2>1 DEF SubmitRate, Core
    <3> HIDE DEF d
    <3>2. Onward(c, d, TRUE)
      BY <3>1 DEF Onward, Pending, Tracked
    <3> QED
      BY <3>2 DEF d
  <2> QED
    BY <1>0, <2>1 DEF SubmitRate
<1>2. Onward(c, SubmitAngle(c, v, relative), TRUE)
  <2> DEFINE d == SubmitAngle(c, v, relative)
  <2>1. CASE Accepted(c, v)
    <3>1. /\ d.commandAge = 0
          /\ d.telemetryAge = c.telemetryAge /\ d.continuous = c.continuous
          /\ d.angleValid = c.angleValid /\ d.haveContinuous = c.haveContinuous
      BY <2>1 DEF SubmitAngle, Core
    <3> HIDE DEF d
    <3>2. Onward(c, d, TRUE)
      BY <3>1 DEF Onward, Pending, Tracked
    <3> QED
      BY <3>2 DEF d
  <2> QED
    BY <1>0, <2>1 DEF SubmitAngle
<1> QED
  BY <1>1, <1>2

-----------------------------------------------------------------------------
(* The operators inside a callback. *)

(* A frame that was sent is the one the board obeys.                       *)
LEMMA SendTurns ==
  ASSUME NEW s \in Node, NEW f, f.moving \in BOOLEAN, NEW ok \in BOOLEAN
  PROVE  SendControl(s, f, ok).board.turning =
           IF s.open /\ ok THEN f.moving ELSE s.board.turning
<1> DEFINE b == Obeying(s.board, f.moving)
<1>1. s.board \in Board
  BY DEF Node
<1>2. b.turning = f.moving
  BY <1>1 DEF Obeying, Board
<1> HIDE DEF b
<1>3. [s EXCEPT !.board = b].board = b
  BY DEF Node
<1>4. SendControl(s, f, ok) = IF s.open /\ ok THEN [s EXCEPT !.board = b] ELSE s
  BY DEF SendControl, b
<1> QED
  BY <1>2, <1>3, <1>4

(* A goal that ends leaves no time to run.                                 *)
LEMMA TrajFinishLeft ==
  ASSUME NEW s \in Node, NEW code
  PROVE  TrajFinish(s, code).traj.left \in {s.traj.left, 0}
<1> DEFINE g == NoTraj(Terminated(s.traj.goal, code = "SUCCESSFUL"))
<1>1. g.left = 0
  BY DEF NoTraj
<1>2. TrajFinish(s, code) = IF ~s.traj.handle THEN s ELSE [s EXCEPT !.traj = g]
  BY DEF TrajFinish, Node
<1> HIDE DEF g
<1>3. [s EXCEPT !.traj = g].traj = g
  BY DEF Node
<1> QED
  BY <1>1, <1>2, <1>3

(* So does the abortion of both goals.                                     *)
LEMMA AbortLeft ==
  ASSUME NEW s, s \in Node, GatesAgree(s), CalibTracked(s), TrajHeld(s)
  PROVE  AbortActiveGoals(s).traj.left \in {s.traj.left, 0}
<1> DEFINE d == IF s.calib.handle THEN CalibFinish(s, "INTERRUPTED") ELSE s
           i == [d EXCEPT !.calib.phase = "Idle", !.calib.handle = FALSE]
           e == IF i.traj.handle THEN TrajFinish(i, "INVALID_GOAL") ELSE i
           r == [e EXCEPT !.traj.handle = FALSE]
<1>1. AbortActiveGoals(s) = r
  BY DEF AbortActiveGoals
<1>2. d \in Node /\ d.traj = s.traj
  BY CalibFinishHeld DEF CalibTracked
<1> HIDE DEF d
<1>3. i \in Node /\ i.traj = d.traj
  <2> DEFINE p == [d.calib EXCEPT !.phase = "Idle"]
             q == [p EXCEPT !.handle = FALSE]
  <2>0. d.calib \in Calib
    BY <1>2 DEF Node
  <2>1. p \in Calib
    BY <2>0, CalibUpdates
  <2>2. q \in Calib
    BY <2>1, CalibUpdates
  <2>3. i = [d EXCEPT !.calib = q]
    BY <1>2, <2>0 DEF Node
  <2> HIDE DEF q, i
  <2>4. [d EXCEPT !.calib = q] \in Node /\ [d EXCEPT !.calib = q].traj = d.traj
    BY <1>2, <2>2, NodeUpdates DEF Node
  <2> QED
    BY <2>3, <2>4
<1> HIDE DEF i
<1>4. e.traj.left \in {i.traj.left, 0} /\ e \in Node
  <2>1. TrajHeld(i)
    BY <1>2, <1>3 DEF TrajHeld
  <2> QED
    BY <1>3, <2>1, TrajFinishLeft, TrajFinishHeld
<1> HIDE DEF e
<1>5. r.traj.left = e.traj.left
  BY <1>4 DEF Node, Traj
<1> HIDE DEF r
<1> QED
  BY <1>1, <1>2, <1>3, <1>4, <1>5

(* stop and its like: the frame, and the goals it ends.                    *)
LEMMA HaltMoves ==
  ASSUME NEW s, Held(s), NEW ok \in BOOLEAN
  PROVE  LET r == AbortActiveGoals(SendControl(s, HoldFrame, ok))
         IN  /\ r.traj.left \in {s.traj.left, 0} /\ r.retryIn = s.retryIn
             /\ r.calib.phase = "Idle" /\ r.core = s.core
             /\ r.board.turning = IF s.open /\ ok THEN HoldFrame.moving
                                  ELSE s.board.turning
<1> DEFINE h == SendControl(s, HoldFrame, ok)
           r == AbortActiveGoals(h)
<1>1. s \in Node /\ HoldFrame.moving \in BOOLEAN
  BY DEF Held, HoldFrame
<1>2. /\ h \in Node /\ GatesAgree(h) /\ CalibTracked(h) /\ TrajHeld(h)
      /\ Port(h) = Port(s) /\ h.traj = s.traj /\ h.core = s.core
  BY HoldSent
<1>3. h.board.turning = IF s.open /\ ok THEN HoldFrame.moving ELSE s.board.turning
  BY <1>1, SendTurns
<1> HIDE DEF h
<1>4. /\ Held(r) /\ Port(r) = Port(h) /\ r.core = h.core /\ r.board = h.board
      /\ ~r.calib.handle
  BY <1>2, AbortHeld
<1>5. r.traj.left \in {h.traj.left, 0}
  BY <1>2, AbortLeft
<1> HIDE DEF r
<1>6. r.calib.phase = "Idle" /\ r.retryIn = s.retryIn
  BY <1>2, <1>4 DEF Held, CalibHeld, CalibTracked, Port
<1>7. /\ r.traj.left \in {s.traj.left, 0} /\ r.core = s.core
      /\ r.board.turning = IF s.open /\ ok THEN HoldFrame.moving ELSE s.board.turning
  BY <1>2, <1>3, <1>4, <1>5
<1> QED
  BY <1>6, <1>7 DEF r, h

(* trajTick gives the core its target or a hold, while there is a goal.    *)
LEMMA TrajTickMoves ==
  ASSUME NEW s, Held(s)
  PROVE  LET r == TrajTick(s)
         IN  /\ Onward(s.core, r.core, s.traj.active)
             /\ r.traj.left \in {s.traj.left, 0}
<1> DEFINE c == SubmitAngle(s.core, s.traj.target, s.relative)
           fed == [s EXCEPT !.core = c]
           stopped(q) == [q EXCEPT !.core = SubmitHold(@)]
           r == TrajTick(s)
<1>1. s \in Node /\ s.core \in Core /\ s.traj.target \in [Axes -> Num] /\ s.relative \in BOOLEAN
  BY DEF Held, Node, Traj
<1>2. s.traj.active \in BOOLEAN
  BY <1>1 DEF Node, Traj
<1>3. CASE ~s.traj.handle \/ ~s.traj.active
  <2>1. r = s
    BY <1>3 DEF TrajTick
  <2> HIDE DEF r
  <2>2. Onward(s.core, r.core, s.traj.active) /\ r.traj.left \in {s.traj.left, 0}
    BY <1>2, <2>1, OnwardSame
  <2> QED
    BY <2>2 DEF r
<1>4. CASE s.traj.handle /\ s.traj.active
  <2>1. c \in Core /\ Onward(s.core, c, TRUE)
    BY <1>1, CommandOnward, SubmitAngleType
  <2> HIDE DEF c
  <2>2. fed \in Node /\ fed.core = c /\ fed.traj = s.traj
    BY <1>1, <2>1, NodeUpdates DEF Node
  <2>3. ASSUME NEW q \in Node
        PROVE  /\ stopped(q) \in Node /\ stopped(q).core = SubmitHold(q.core)
               /\ stopped(q).traj = q.traj
    <3>1. q.core \in Core
      BY DEF Node
    <3>2. SubmitHold(q.core) \in Core
      BY <3>1, ClearType
    <3>3. stopped(q) = [q EXCEPT !.core = SubmitHold(q.core)]
      BY DEF Node
    <3> QED
      BY <3>2, <3>3, NodeUpdates DEF Node
  <2>4. /\ Onward(s.core, s.core, TRUE) /\ Onward(s.core, SubmitHold(s.core), TRUE)
        /\ Onward(s.core, SubmitHold(c), TRUE)
    <3>1. Onward(c, SubmitHold(c), TRUE)
      BY <2>1, HoldOnward
    <3> QED
      BY <1>1, <2>1, <3>1, HoldOnward, OnwardSame, OnwardChains DEF Onward
  <2> DEFINE P(q) == /\ q \in Node /\ Onward(s.core, q.core, TRUE)
                     /\ q.traj.left \in {s.traj.left, 0}
  <2>5. P(s) /\ P(fed) /\ P(stopped(s)) /\ P(stopped(fed))
    BY <1>1, <2>1, <2>2, <2>3, <2>4
  <2>6. ASSUME NEW q \in {s, fed, stopped(s), stopped(fed)}, NEW code
        PROVE  /\ Onward(s.core, TrajFinish(q, code).core, TRUE)
               /\ TrajFinish(q, code).traj.left \in {s.traj.left, 0}
    <3>1. P(q) /\ q.traj = s.traj
      BY <1>1, <2>2, <2>3, <2>5
    <3>2. TrajHeld(q)
      BY <3>1 DEF Held, TrajHeld
    <3>3. TrajFinish(q, code).core = q.core
      BY <3>1, <3>2, TrajFinishHeld
    <3>4. TrajFinish(q, code).traj.left \in {q.traj.left, 0}
      BY <3>1, TrajFinishLeft
    <3> QED
      BY <3>1, <3>3, <3>4
  <2>7. \/ r = fed
        \/ \E q \in {s, fed, stopped(s), stopped(fed)} :
             r = TrajFinish(q, "SUCCESSFUL") \/ r = TrajFinish(q, "INVALID_GOAL")
             \/ r = TrajFinish(q, "GOAL_TOLERANCE_VIOLATED")
    BY <1>1, <1>4 DEF TrajTick, c, Node
  <2> HIDE DEF r, fed, stopped
  <2>8. Onward(s.core, r.core, TRUE) /\ r.traj.left \in {s.traj.left, 0}
    BY <2>5, <2>6, <2>7
  <2> QED
    BY <1>4, <1>2, <2>8 DEF r
<1> QED
  BY <1>3, <1>4

-----------------------------------------------------------------------------
(* The inductive invariant, in parts.  A clock set back makes the node     *)
(* believe in ages that are too small, by no more than it was set back.    *)
Watch == TheConfig.commandTimeout
Fresh == TheConfig.angleFresh

(* The control period that is not over yet.                                *)
Period == IF ticked THEN 0 ELSE 1

(* What the node is: as DriverNode_proofs has it, with the configuration   *)
(* it started with and no calibration.                                     *)
NodeKept ==
  /\ Held(node) /\ Life(node)
  /\ node.core.cfg = TheConfig /\ node.calib.phase = "Idle"
  /\ node.core.commandAge \in -jumped .. MaxAge
  /\ node.core.telemetryAge \in -jumped .. MaxAge
  /\ node.retryIn <= ReconnectDelay + jumped
  /\ node.traj.left <= MaxTravel + jumped

(* What the plant is: a board left turning that could not be reached is    *)
(* what a camera strays by, and a reply is as old as its period.           *)
PlantTyped ==
  /\ camera \in [Axes -> Stops] /\ reply \in [Axes -> Stops] \cup {None}
  /\ order \in Frame
  /\ ticked \in BOOLEAN /\ quiet \in 0 .. QuietMax /\ jumped \in 0 .. JumpMax
  /\ adrift \in BOOLEAN /\ strayed \in BOOLEAN
PlantKept ==
  /\ PlantTyped
  /\ order.moving <=> node.board.turning
  /\ ~order.moving => \A a \in Axes : order.mode[a] = "SPEED" /\ order.speed[a] = 0
  /\ adrift => strayed
  /\ reply # None /\ ticked => reply = camera

(* Where a turning board is obeyed with the driver looking on, and for how *)
(* long: the watchdog counts from the same moment as the clients' silence. *)
Attended ==
  /\ order.moving => adrift \/ (node.open /\ node.life = "active")
  /\ node.core.mode # "Idle" =>
       quiet <= node.core.commandAge + jumped \/ node.core.commandAge >= MaxAge - jumped
  /\ order.moving /\ ~adrift => quiet <= Watch + jumped + Period

(* The track names a place the camera can be in.                           *)
TrackInside ==
  node.core.haveContinuous =>
    \E x \in [Axes -> Stops] : node.core.continuous = RosAngles(x)

(* An order to go to an angle names one inside the limits.                 *)
AimInside ==
  TheConfig.enforceLimits =>
    \A a \in Axes, side \in Sides :
      order.mode[a] # "SPEED" => Beyond(side, a, BoardValue(a, order.angle[a])) <= 0

(* How far an axis turns in n units of time, and how far out it is.        *)
Far(n) == Pace * n
Out(side, a) == Beyond(side, a, BoardValue(a, camera[a]))

(* The true age of the track.                                              *)
Age == node.core.telemetryAge + jumped

(* How far out the camera may be, as seen from the reply, from the track,  *)
(* from the order that turns it further out, and in any case.              *)
ReplyNear(side, a) ==
  reply # None => \/ Out(side, a) <= 0
                  \/ Out(side, a) <= Beyond(side, a, RosAngles(reply)[a]) + Pace
TrackNear(side, a) ==
  node.core.angleValid /\ Age < MaxAge =>
    \/ Out(side, a) <= Far(1 + Age) - 1
    \/ Out(side, a) <= Beyond(side, a, node.core.continuous[a]) + Far(1 + Age)
OrderNear(side, a) ==
  order.mode[a] = "SPEED" /\ Outward(side, BoardValue(a, order.speed[a])) =>
    Out(side, a) <= Far(1 + Fresh + jumped + Period) - 1
Within(side, a) == Out(side, a) <= Far(2 + Fresh + jumped) - 1

NearAt(side, a) ==
  ReplyNear(side, a) /\ TrackNear(side, a) /\ OrderNear(side, a) /\ Within(side, a)
Near == \A a \in Axes, side \in Sides : NearAt(side, a)

LInv ==
  /\ NodeKept /\ PlantKept /\ Attended /\ TrackInside /\ AimInside
  /\ TheConfig.enforceLimits /\ ~strayed => Near

(* Distances.                                                              *)
LEMMA FarFacts ==
  ASSUME NEW m \in Int, NEW n \in Int
  PROVE  /\ Far(m) \in Int /\ Far(n) \in Int
         /\ m <= n => Far(m) <= Far(n)
         /\ Far(m + 1) = Far(m) + Pace
         /\ m >= 1 => Far(m) >= 0
<1>1. Pace \in Nat
  BY LoopAssumption
<1>2. Far(m) \in Int /\ Far(n) \in Int /\ Far(m + 1) = Far(m) + Pace
  BY <1>1 DEF Far
<1>3. m <= n => Far(m) <= Far(n)
  <2>1. \A p \in Nat, x, d \in Int : p * (x + d) = p * x + p * d
    OBVIOUS
  <2>2. \A p, d \in Nat : p * d \in Int /\ p * d >= 0
    OBVIOUS
  <2> SUFFICES ASSUME m <= n PROVE Far(m) <= Far(n)
    OBVIOUS
  <2> DEFINE d == n - m
  <2>3. d \in Nat /\ n = m + d
    OBVIOUS
  <2> HIDE DEF d
  <2>4. Far(m + d) = Far(m) + Pace * d
    BY <1>1, <2>1, <2>3 DEF Far
  <2>5. Pace * d \in Int /\ Pace * d >= 0
    BY <1>1, <2>2, <2>3
  <2> DEFINE e == Pace * d
  <2> HIDE DEF e
  <2>6. Far(n) = Far(m) + e /\ e \in Int /\ e >= 0
    BY <2>3, <2>4, <2>5 DEF e
  <2> QED
    BY <1>2, <2>6
<1>4. m >= 1 => Far(m) >= 0
  BY <1>1 DEF Far
<1> QED
  BY <1>2, <1>3, <1>4

(* With the driver at hand an axis turns at all only in an axis model with *)
(* one: Pace is at least one.                                              *)
LEMMA FarPositive ==
  ASSUME NEW a \in Axes, NEW n \in Int, n >= 1
  PROVE  Far(n) \in Int /\ Far(n) - 1 >= 0
<1>1. Pace \in Nat /\ Pace >= 1
  BY AxisFacts
<1> QED
  BY <1>1 DEF Far

(* rosAnglesFrom turns the board's value of an axis into the driver's; a   *)
(* place inside the limits lies beyond neither.                            *)
LEMMA RosAnglesAt ==
  ASSUME NEW x \in [Axes -> Stops], NEW a \in Axes, NEW side \in Sides
  PROVE  /\ RosAngles(x)[a] = BoardValue(a, x[a]) /\ x[a] \in Int
         /\ RosAngles(x)[a] \in Int /\ RosAngles(x) \in [Axes -> Int]
         /\ Beyond(side, a, RosAngles(x)[a]) \in Int
         /\ Inside(RosAngles(x), TheConfig) => Beyond(side, a, BoardValue(a, x[a])) <= 0
<1>1. x \in [Axes -> Int]
  BY LoopAssumption
<1>2. RosAngles(x)[a] = BoardValue(a, x[a])
  BY DEF RosAngles, BoardValue
<1>3. RosAngles(x)[a] \in Int /\ RosAngles(x) \in [Axes -> Int]
  BY <1>1 DEF RosAngles
<1> DEFINE y == RosAngles(x)[a]
<1>4. Inside(RosAngles(x), TheConfig) =>
        y \in TheConfig.limitMin[a] .. TheConfig.limitMax[a]
  BY DEF Inside
<1> HIDE DEF y
<1>5. /\ Beyond(side, a, y) \in Int
      /\ y \in TheConfig.limitMin[a] .. TheConfig.limitMax[a] => Beyond(side, a, y) <= 0
  BY <1>3, AxisFacts DEF Beyond, y
<1> QED
  BY <1>1, <1>2, <1>3, <1>4, <1>5 DEF y

-----------------------------------------------------------------------------
(* A callback, as the plant sees it. *)

(* A frame the node may send in this state, a command being given by the   *)
(* same callback (told) or not: one that moves is backed by a command, and *)
(* none leads further out than the invariant allows.                       *)
Judged(frame, told) ==
  /\ frame \in Frame
  /\ ~frame.moving => \A a \in Axes : frame.mode[a] = "SPEED" /\ frame.speed[a] = 0
  /\ frame.moving => told \/ (node.core.mode # "Idle" /\ node.core.commandAge <= Watch)
  /\ TheConfig.enforceLimits =>
       \A a \in Axes, side \in Sides :
         /\ frame.mode[a] # "SPEED" =>
              Beyond(side, a, BoardValue(a, frame.angle[a])) <= 0
         /\ /\ ~strayed /\ frame.mode[a] = "SPEED"
            /\ Outward(side, BoardValue(a, frame.speed[a]))
            => Out(side, a) <= Far(1 + Fresh + jumped) - 1

(* The track is what the reply in the port shows.                          *)
Sampled(d) == reply # None /\ d.telemetryAge = 0 /\ d.continuous = RosAngles(reply)

(* The node becomes s; frame was sent, or none; told says whether a        *)
(* command was given; the control timer has run, or another callback.      *)
Acted(s, frame, sent, told) ==
  /\ node' = s /\ Lawful(node, s) /\ Delays(node, s)
  /\ Pending(node.core, s.core, told)
  /\ Tracked(node.core, s.core) \/ Sampled(s.core)
  /\ s.board.turning = IF sent THEN frame.moving ELSE node.board.turning
  /\ sent => Judged(frame, told)
  /\ Obeys(frame, sent, told)
  /\ \/ ticked' = ticked /\ reply' \in {reply, None}
     \/ reply' = None /\ ticked' = TRUE /\ (sent \/ ~order.moving \/ adrift')

(* It keeps what the node is ...                                           *)
LEMMA ActedNode ==
  ASSUME LInv, NEW s, NEW frame, NEW sent \in BOOLEAN, NEW told \in BOOLEAN,
         Acted(s, frame, sent, told)
  PROVE  NodeKept'
<1>1. /\ node' = s /\ Held(s) /\ Life(s) /\ jumped' = jumped
      /\ s.core.cfg \in {node.core.cfg} \cup Loaded
  BY DEF Acted, Lawful, Watches, Obeys
<1>2. s.core.cfg = TheConfig
  BY <1>1, ConfigSane DEF LInv, NodeKept
<1>3. jumped \in Nat /\ MaxAge \in Nat /\ jumped <= JumpMax /\ JumpMax \in Nat
  BY CoreAssumption DEF LInv, PlantKept, PlantTyped
<1>4. s.calib.phase = "Idle"
  BY DEF Acted, Delays, LInv, NodeKept
<1>5. s.core.commandAge \in -jumped .. MaxAge
  <2>1. s.core.commandAge \in {node.core.commandAge, 0, MaxAge}
    BY DEF Acted, Pending
  <2>2. node.core.commandAge \in -jumped .. MaxAge
    BY DEF LInv, NodeKept
  <2> QED
    BY <1>3, <2>1, <2>2
<1>6. s.core.telemetryAge \in -jumped .. MaxAge
  <2>1. s.core.telemetryAge \in {node.core.telemetryAge, 0, MaxAge}
    BY DEF Acted, Tracked, Sampled
  <2>2. node.core.telemetryAge \in -jumped .. MaxAge
    BY DEF LInv, NodeKept
  <2> QED
    BY <1>3, <2>1, <2>2
<1>7. s.retryIn <= ReconnectDelay + jumped
  <2>1. s.retryIn <= node.retryIn \/ s.retryIn <= ReconnectDelay
    BY DEF Acted, Delays
  <2>2. /\ s.retryIn \in Int /\ node.retryIn \in Int /\ ReconnectDelay \in Nat
        /\ node.retryIn <= ReconnectDelay + jumped
    BY <1>1, DriverAssumption DEF LInv, NodeKept, Held, Node
  <2> QED
    BY <1>3, <2>1, <2>2
<1>8. s.traj.left <= MaxTravel + jumped
  <2>1. s.traj.left <= node.traj.left \/ s.traj.left <= MaxTravel
    BY DEF Acted, Delays
  <2>2. /\ s.traj.left \in Int /\ node.traj.left \in Int /\ MaxTravel \in Nat
        /\ node.traj.left <= MaxTravel + jumped
    BY <1>1, DriverAssumption DEF LInv, NodeKept, Held, Node, Traj
  <2> QED
    BY <1>3, <2>1, <2>2
<1> QED
  BY <1>1, <1>2, <1>4, <1>5, <1>6, <1>7, <1>8 DEF NodeKept

(* ... and what the plant is ...                                           *)
LEMMA ActedPlant ==
  ASSUME LInv, NEW s, NEW frame, NEW sent \in BOOLEAN, NEW told \in BOOLEAN,
         Acted(s, frame, sent, told)
  PROVE  PlantKept'
<1>1. PlantKept /\ PlantTyped
  BY DEF LInv, PlantKept
<1>2. /\ node' = s /\ order' = IF sent THEN frame ELSE order
      /\ quiet' = IF told THEN 0 ELSE quiet
      /\ camera' = camera /\ jumped' = jumped
      /\ strayed' = (adrift' \/ (strayed /\ ~Inside(RosAngles(camera), TheConfig)))
  BY DEF Acted, Obeys
<1>3. adrift' = (order'.moving /\ (~node'.open \/ node'.life # "active"
                                   \/ (adrift /\ ~sent)))
  BY DEF Acted, Obeys
<1>4. sent => /\ frame \in Frame
              /\ ~frame.moving => \A a \in Axes : frame.mode[a] = "SPEED" /\ frame.speed[a] = 0
  BY DEF Acted, Judged
<1>5. PlantTyped'
  <2>1. order' \in Frame
    BY <1>1, <1>2, <1>4 DEF PlantTyped
  <2>2. s.open \in BOOLEAN /\ order'.moving \in BOOLEAN
    BY <2>1 DEF Acted, Lawful, Held, Node, Frame
  <2>3. adrift' \in BOOLEAN
    BY <1>1, <1>3 DEF PlantTyped
  <2>4. strayed' \in BOOLEAN
    BY <1>2, <2>3
  <2>5. quiet' \in 0 .. QuietMax
    BY <1>1, <1>2, LoopAssumption DEF PlantTyped
  <2>6. reply' \in [Axes -> Stops] \cup {None} /\ ticked' \in BOOLEAN
    BY <1>1 DEF Acted, PlantTyped
  <2> QED
    BY <1>1, <1>2, <2>1, <2>3, <2>4, <2>5, <2>6 DEF PlantTyped
<1>6. order'.moving <=> node'.board.turning
  BY <1>1, <1>2 DEF Acted, PlantKept
<1>7. ~order'.moving => \A a \in Axes : order'.mode[a] = "SPEED" /\ order'.speed[a] = 0
  BY <1>1, <1>2, <1>4 DEF PlantKept
<1>8. adrift' => strayed'
  BY <1>2
<1>9. reply' # None /\ ticked' => reply' = camera'
  BY <1>1, <1>2 DEF Acted, PlantKept
<1> QED
  BY <1>5, <1>6, <1>7, <1>8, <1>9 DEF PlantKept

(* ... who looks on ...                                                    *)
LEMMA ActedAttended ==
  ASSUME LInv, NEW s, NEW frame, NEW sent \in BOOLEAN, NEW told \in BOOLEAN,
         Acted(s, frame, sent, told)
  PROVE  Attended'
<1>1. Attended /\ PlantTyped /\ NodeKept
  BY DEF LInv, PlantKept
<1>2. /\ node' = s /\ order' = IF sent THEN frame ELSE order
      /\ quiet' = IF told THEN 0 ELSE quiet
      /\ jumped' = jumped
  BY DEF Acted, Obeys
<1>3. adrift' = (order'.moving /\ (~node'.open \/ node'.life # "active"
                                   \/ (adrift /\ ~sent)))
  BY DEF Acted, Obeys
<1>4. order'.moving => adrift' \/ (node'.open /\ node'.life = "active")
  BY <1>3
<1>5. /\ quiet \in Int /\ quiet >= 0 /\ jumped \in Int /\ jumped >= 0 /\ jumped <= JumpMax
      /\ node.core.commandAge \in Int /\ node.core.commandAge >= -jumped
      /\ Watch \in Int /\ Watch > 0 /\ JumpMax \in Nat
      /\ MaxAge \in Nat /\ MaxAge - JumpMax > Watch
  <2>1. /\ quiet \in 0 .. QuietMax /\ jumped \in 0 .. JumpMax
        /\ node.core.commandAge \in -jumped .. MaxAge
    BY <1>1 DEF PlantTyped, NodeKept
  <2> QED
    BY <2>1, TimeFacts DEF Watch
<1>6. s.core.mode # "Idle" =>
        quiet' <= s.core.commandAge + jumped \/ s.core.commandAge >= MaxAge - jumped
  <2> SUFFICES ASSUME s.core.mode # "Idle"
               PROVE  quiet' <= s.core.commandAge + jumped
                        \/ s.core.commandAge >= MaxAge - jumped
    OBVIOUS
  <2>1. \/ told /\ s.core.commandAge = 0
        \/ node.core.mode # "Idle" /\ s.core.commandAge = node.core.commandAge
    BY DEF Acted, Pending
  <2>2. CASE told /\ s.core.commandAge = 0
    BY <1>2, <1>5, <2>2
  <2>3. CASE node.core.mode # "Idle" /\ s.core.commandAge = node.core.commandAge
    <3>1. quiet <= node.core.commandAge + jumped \/ node.core.commandAge >= MaxAge - jumped
      BY <1>1, <2>3 DEF Attended
    <3>2. quiet' = quiet \/ quiet' = 0
      BY <1>2
    <3> QED
      BY <1>5, <2>3, <3>1, <3>2
  <2> QED
    BY <2>1, <2>2, <2>3
<1>7. order'.moving /\ ~adrift' => quiet' <= Watch + jumped + Period'
  <2> SUFFICES ASSUME order'.moving, ~adrift' PROVE quiet' <= Watch + jumped + Period'
    OBVIOUS
  <2>1. Period' \in {0, 1} /\ (ticked' = ticked => Period' = Period) /\ Period \in {0, 1}
    BY DEF Period
  <2> DEFINE p == Period'
  <2>p. p \in Int /\ p >= 0
    BY <2>1
  <2>2. CASE told
    <3>1. quiet' = 0
      BY <1>2, <2>2
    <3> HIDE DEF p
    <3>2. quiet' <= Watch + jumped + p
      BY <1>5, <2>p, <3>1
    <3> QED
      BY <3>2 DEF p
  <2>3. CASE ~told /\ sent
    <3>1. node.core.mode # "Idle" /\ node.core.commandAge <= Watch
      BY <1>2, <2>3 DEF Acted, Judged
    <3>2. quiet <= node.core.commandAge + jumped \/ node.core.commandAge >= MaxAge - jumped
      BY <1>1, <3>1 DEF Attended
    <3>3. quiet' = quiet
      BY <1>2, <2>3
    <3> HIDE DEF p
    <3>4. quiet' <= Watch + jumped + p
      BY <1>5, <2>p, <3>1, <3>2, <3>3
    <3> QED
      BY <3>4 DEF p
  <2>4. CASE ~told /\ ~sent
    <3>1. order.moving /\ ~adrift
      BY <1>2, <1>3, <2>4
    <3>2. ticked' = ticked
      BY <2>4, <3>1 DEF Acted
    <3>3. quiet <= Watch + jumped + Period
      BY <1>1, <3>1 DEF Attended
    <3> QED
      BY <1>2, <2>1, <2>4, <3>2, <3>3
  <2> QED
    BY <2>2, <2>3, <2>4
<1> QED
  BY <1>2, <1>4, <1>6, <1>7 DEF Attended, Watch

(* ... where the track and the order lead ...                              *)
LEMMA ActedAims ==
  ASSUME LInv, NEW s, NEW frame, NEW sent \in BOOLEAN, NEW told \in BOOLEAN,
         Acted(s, frame, sent, told)
  PROVE  TrackInside' /\ AimInside'
<1>1. TrackInside /\ AimInside /\ PlantTyped
  BY DEF LInv, PlantKept
<1>2. node' = s /\ order' = IF sent THEN frame ELSE order
  BY DEF Acted, Obeys
<1>3. TrackInside'
  <2>1. CASE Tracked(node.core, s.core)
    BY <1>1, <1>2, <2>1 DEF TrackInside, Tracked
  <2>2. CASE Sampled(s.core)
    <3>1. reply \in [Axes -> Stops] /\ s.core.continuous = RosAngles(reply)
      BY <1>1, <2>2 DEF Sampled, PlantTyped
    <3> QED
      BY <1>2, <3>1 DEF TrackInside
  <2> QED
    BY <2>1, <2>2 DEF Acted
<1>4. AimInside'
  <2>1. sent /\ TheConfig.enforceLimits =>
          \A a \in Axes, side \in Sides :
            frame.mode[a] # "SPEED" => Beyond(side, a, BoardValue(a, frame.angle[a])) <= 0
    BY DEF Acted, Judged
  <2> QED
    BY <1>1, <1>2, <2>1 DEF AimInside
<1> QED
  BY <1>3, <1>4

(* ... and how far out the camera may be.                                  *)
LEMMA ActedNear ==
  ASSUME LInv, NEW s, NEW frame, NEW sent \in BOOLEAN, NEW told \in BOOLEAN,
         Acted(s, frame, sent, told), NodeKept', PlantKept',
         TheConfig.enforceLimits, ~strayed'
  PROVE  Near'
<1> SUFFICES ASSUME NEW a \in Axes, NEW side \in Sides PROVE NearAt(side, a)'
  BY DEF Near
<1> DEFINE o == Out(side, a)
           oo == Out(side, a)'
<1>1. PlantKept /\ PlantTyped /\ PlantTyped'
  BY DEF LInv, PlantKept
<1>2. /\ node' = s /\ camera' = camera /\ jumped' = jumped
      /\ order' = IF sent THEN frame ELSE order
  BY DEF Acted, Obeys
<1>3. oo = o /\ o \in Int
  <2>1. oo = o
    BY <1>2 DEF Out
  <2>2. camera \in [Axes -> Stops]
    BY <1>1 DEF PlantTyped
  <2>3. o = Beyond(side, a, RosAngles(camera)[a])
    BY <2>2, RosAnglesAt DEF Out
  <2> QED
    BY <2>1, <2>2, <2>3, RosAnglesAt
<1>4. /\ jumped \in Int /\ jumped >= 0 /\ Fresh \in Int /\ Fresh > 0
      /\ Period \in {0, 1} /\ Period' \in {0, 1}
      /\ (ticked' = ticked => Period' = Period)
  BY <1>1, TimeFacts DEF Fresh, Period, PlantTyped
<1>5. s.core.telemetryAge \in Int /\ s.core.telemetryAge + jumped >= 0
  <2>1. s.core.telemetryAge \in -jumped .. MaxAge
    BY <1>2 DEF NodeKept
  <2> QED
    BY <1>4, <2>1, TimeFacts
<1>6. Age' = s.core.telemetryAge + jumped
  BY <1>2 DEF Age
<1> DEFINE f == Far(1 + Age')
           g == Far(1 + Fresh + jumped + Period')
           h == Far(2 + Fresh + jumped)
<1>7. f \in Int /\ f - 1 >= 0 /\ g \in Int /\ g - 1 >= 0 /\ h \in Int /\ h - 1 >= 0
  <2>1. /\ 1 + Age' \in Int /\ 1 + Age' >= 1
        /\ 1 + Fresh + jumped + Period' \in Int /\ 1 + Fresh + jumped + Period' >= 1
        /\ 2 + Fresh + jumped \in Int /\ 2 + Fresh + jumped >= 1
    BY <1>4, <1>5, <1>6
  <2> QED
    BY <2>1, FarPositive
<1>8. /\ (ReplyNear(side, a)' <=>
            (reply' # None => \/ oo <= 0
                              \/ oo <= Beyond(side, a, RosAngles(reply')[a]) + Pace))
      /\ (TrackNear(side, a)' <=>
            (s.core.angleValid /\ Age' < MaxAge =>
               oo <= f - 1 \/ oo <= Beyond(side, a, s.core.continuous[a]) + f))
      /\ (OrderNear(side, a)' <=>
            (order'.mode[a] = "SPEED" /\ Outward(side, BoardValue(a, order'.speed[a])) =>
               oo <= g - 1))
      /\ (Within(side, a)' <=> oo <= h - 1)
  BY <1>2 DEF ReplyNear, TrackNear, OrderNear, Within, Beyond, RosAngles, BoardValue,
              Outward, Far, Fresh
<1> HIDE DEF oo, o, f, g, h
<1>9. CASE strayed
  <2>1. Inside(RosAngles(camera), TheConfig)
    BY <1>9 DEF Acted, Obeys
  <2>2. o <= 0
    BY <1>1, <2>1, RosAnglesAt DEF PlantTyped, Out, o
  <2>3. oo <= 0 /\ oo <= f - 1 /\ oo <= g - 1 /\ oo <= h - 1
    BY <1>3, <1>7, <2>2
  <2> QED
    BY <1>8, <2>3 DEF NearAt
<1>10. CASE ~strayed
  <2>1. ReplyNear(side, a) /\ TrackNear(side, a) /\ OrderNear(side, a) /\ Within(side, a)
    BY <1>10 DEF LInv, Near, NearAt
  <2>2. reply' # None => \/ oo <= 0
                         \/ oo <= Beyond(side, a, RosAngles(reply')[a]) + Pace
    <3>1. reply' # None => reply' = reply
      BY DEF Acted
    <3> QED
      BY <1>3, <2>1, <3>1 DEF ReplyNear, o
  <2>3. s.core.angleValid /\ Age' < MaxAge =>
          oo <= f - 1 \/ oo <= Beyond(side, a, s.core.continuous[a]) + f
    <3> SUFFICES ASSUME s.core.angleValid, Age' < MaxAge
                 PROVE  oo <= f - 1 \/ oo <= Beyond(side, a, s.core.continuous[a]) + f
      OBVIOUS
    <3>1. CASE Tracked(node.core, s.core)
      <4>1. /\ node.core.angleValid /\ s.core.telemetryAge = node.core.telemetryAge
            /\ s.core.continuous = node.core.continuous
        BY <3>1 DEF Tracked
      <4>2. Age' = Age
        BY <1>6, <4>1 DEF Age
      <4> QED
        BY <1>3, <2>1, <4>1, <4>2 DEF TrackNear, o, f
    <3>2. CASE Sampled(s.core)
      <4>1. reply \in [Axes -> Stops] /\ reply # None
        BY <1>1, <3>2 DEF Sampled, PlantTyped
      <4> DEFINE y == Beyond(side, a, RosAngles(reply)[a])
      <4>2. y \in Int
        BY <4>1, RosAnglesAt
      <4>3. o <= 0 \/ o <= y + Pace
        BY <2>1, <4>1 DEF ReplyNear, o
      <4>4. Pace \in Nat /\ Pace <= f
        <5>1. Far(1) = Pace /\ Pace \in Nat
          BY LoopAssumption DEF Far
        <5>2. 1 \in Int /\ 1 + Age' \in Int /\ 1 <= 1 + Age'
          BY <1>5, <1>6
        <5> QED
          BY <5>1, <5>2, FarFacts DEF f
      <4>5. s.core.continuous = RosAngles(reply)
        BY <3>2 DEF Sampled
      <4> HIDE DEF y
      <4>6. oo <= f - 1 \/ oo <= y + f
        BY <1>3, <1>7, <4>2, <4>3, <4>4
      <4> QED
        BY <4>5, <4>6 DEF y
    <3> QED
      BY <3>1, <3>2 DEF Acted
  <2>4. order'.mode[a] = "SPEED" /\ Outward(side, BoardValue(a, order'.speed[a])) =>
          oo <= g - 1
    <3> SUFFICES ASSUME order'.mode[a] = "SPEED",
                        Outward(side, BoardValue(a, order'.speed[a]))
                 PROVE  oo <= g - 1
      OBVIOUS
    <3>1. CASE sent
      <4>1. o <= Far(1 + Fresh + jumped) - 1
        BY <1>2, <1>10, <3>1 DEF Acted, Judged, o
      <4>2. /\ 1 + Fresh + jumped \in Int /\ 1 + Fresh + jumped + Period' \in Int
            /\ 1 + Fresh + jumped <= 1 + Fresh + jumped + Period'
        BY <1>4
      <4>3. Far(1 + Fresh + jumped) <= g /\ Far(1 + Fresh + jumped) \in Int
        BY <4>2, FarFacts DEF g
      <4> QED
        BY <1>3, <1>7, <4>1, <4>3
    <3>2. CASE ~sent
      <4>1. order' = order /\ order.moving
        <5>1. order' = order
          BY <1>2, <3>2
        <5>2. ~order.moving => order.speed[a] = 0
          BY <1>1 DEF PlantKept
        <5>3. ~Outward(side, BoardValue(a, 0))
          BY DEF Outward, BoardValue, Sides
        <5> QED
          BY <5>1, <5>2, <5>3
      <4>2. ticked' = ticked
        <5>1. ~adrift'
          BY DEF PlantKept
        <5> QED
          BY <3>2, <4>1, <5>1 DEF Acted
      <4>3. Period' = Period
        BY <1>4, <4>2
      <4> QED
        BY <1>3, <2>1, <4>1, <4>3 DEF OrderNear, o, g
    <3> QED
      BY <3>1, <3>2
  <2>5. oo <= h - 1
    BY <1>3, <2>1 DEF Within, o, h
  <2> QED
    BY <1>8, <2>2, <2>3, <2>4, <2>5 DEF NearAt
<1> QED
  BY <1>9, <1>10

(* Together: such a callback keeps the invariant.                          *)
LEMMA ActedKeeps ==
  ASSUME LInv, NEW s, NEW frame, NEW sent \in BOOLEAN, NEW told \in BOOLEAN,
         Acted(s, frame, sent, told)
  PROVE  LInv'
<1>1. NodeKept' /\ PlantKept'
  BY ActedNode, ActedPlant
<1>2. Attended' /\ TrackInside' /\ AimInside'
  BY ActedAttended, ActedAims
<1>3. TheConfig.enforceLimits /\ ~strayed' => Near'
  BY <1>1, ActedNear
<1> QED
  BY <1>1, <1>2, <1>3 DEF LInv

-----------------------------------------------------------------------------
(* The callbacks that are not the control timer. *)

(* Delays that are as they were, or those of a goal that has ended ...     *)
LEMMA DelaysOf ==
  ASSUME NEW n \in Node, NEW s,
         s.retryIn \in {n.retryIn, ReconnectDelay},
         s.traj.left \in {n.traj.left, 0}, s.calib.phase \in {n.calib.phase, "Idle"}
  PROVE  Delays(n, s)
<1>1. n.retryIn \in Int /\ n.traj.left \in Int
  BY CoreAssumption, DriverAssumption DEF Node, Traj
<1>2. ReconnectDelay \in Int /\ MaxTravel \in Int /\ 0 <= MaxTravel
  BY DriverAssumption
<1>3. s.retryIn <= n.retryIn \/ s.retryIn <= ReconnectDelay
  BY <1>1, <1>2
<1>4. s.traj.left <= n.traj.left \/ s.traj.left <= MaxTravel
  BY <1>1, <1>2
<1> QED
  BY <1>3, <1>4 DEF Delays

(* ... in a callback that leaves of the core what it may.                  *)
LEMMA MovesOf ==
  ASSUME NEW n \in Node, NEW s, NEW told \in BOOLEAN, Onward(n.core, s.core, told),
         s.retryIn \in {n.retryIn, ReconnectDelay},
         s.traj.left \in {n.traj.left, 0}, s.calib.phase \in {n.calib.phase, "Idle"}
  PROVE  Moves(n, s, told)
  BY DelaysOf DEF Moves

(* A callback that writes no frame.                                        *)
LEMMA SilentKeeps ==
  ASSUME LInv, NEW s, node' = s, Lawful(node, s), NEW told \in BOOLEAN,
         Moves(node, s, told), s.board.turning = node.board.turning,
         SendsNothing(told)
  PROVE  LInv'
<1>1. Obeys(order, FALSE, told) /\ ticked' = ticked /\ reply' \in {reply, None}
  <2>1. (node.open /\ FALSE) = FALSE
    OBVIOUS
  <2> QED
    BY <2>1 DEF SendsNothing, Sends
<1>2. Acted(s, order, FALSE, told)
  BY <1>1 DEF Acted, Moves, Onward
<1> QED
  BY <1>2, ActedKeeps

(* The two frames that are not built by a tick: one that holds, and one    *)
(* that sends the camera to zero, inside every limit.                      *)
LEMMA FixedJudged ==
  /\ Judged(HoldFrame, FALSE) /\ Judged(HoldFrame, TRUE)
  /\ Judged(AutoTaskFrame, TRUE)
<1>1. Zero \in [Axes -> Int] /\ \A a \in Axes : Zero[a] = 0
  BY DEF Zero
<1>2. HoldFrame \in Frame /\ AutoTaskFrame \in Frame
  BY <1>1 DEF HoldFrame, AutoTaskFrame, Frame, WireModes
<1>3. /\ HoldFrame.moving = FALSE /\ AutoTaskFrame.moving = TRUE
      /\ \A a \in Axes : /\ HoldFrame.mode[a] = "SPEED" /\ HoldFrame.speed[a] = 0
                         /\ AutoTaskFrame.mode[a] = "ANGLE" /\ AutoTaskFrame.angle[a] = 0
  BY <1>1 DEF HoldFrame, AutoTaskFrame
<1>4. ASSUME NEW a \in Axes, NEW side \in Sides
      PROVE  ~Outward(side, BoardValue(a, 0)) /\ Beyond(side, a, BoardValue(a, 0)) <= 0
  BY AxisFacts DEF Outward, Beyond, BoardValue, Sides
<1> QED
  BY <1>2, <1>3, <1>4 DEF Judged

(* A callback that writes one of them.                                     *)
LEMMA SentKeeps ==
  ASSUME LInv, NEW s, node' = s, Lawful(node, s), NEW told \in BOOLEAN,
         Moves(node, s, told), NEW ok \in BOOLEAN,
         NEW frame, Judged(frame, told), Sends(frame, ok, told),
         s.board.turning = IF node.open /\ ok THEN frame.moving ELSE node.board.turning
  PROVE  LInv'
<1> DEFINE sent == node.open /\ ok
<1>1. sent \in BOOLEAN
  OBVIOUS
<1>2. Obeys(frame, sent, told) /\ ticked' = ticked /\ reply' \in {reply, None}
  BY DEF Sends
<1>3. Acted(s, frame, sent, told)
  BY <1>2 DEF Acted, Moves, Onward
<1> HIDE DEF sent
<1> QED
  BY <1>1, <1>3, ActedKeeps

(* One such callback's part after the other.                               *)
LEMMA MovesChain ==
  ASSUME NEW n \in Node, NEW m \in Node, NEW s \in Node, NEW told \in BOOLEAN,
         Moves(n, m, told), Moves(m, s, told)
  PROVE  Moves(n, s, told)
<1>1. Onward(n.core, s.core, told)
  BY OnwardChains DEF Moves, Onward
<1>2. /\ n.retryIn \in Int /\ m.retryIn \in Int /\ s.retryIn \in Int
      /\ n.traj.left \in Int /\ m.traj.left \in Int /\ s.traj.left \in Int
      /\ ReconnectDelay \in Int /\ MaxTravel \in Int
  BY CoreAssumption, DriverAssumption DEF Node, Traj
<1>3. s.retryIn <= n.retryIn \/ s.retryIn <= ReconnectDelay
  BY <1>2 DEF Moves, Delays
<1>4. s.traj.left <= n.traj.left \/ s.traj.left <= MaxTravel
  BY <1>2 DEF Moves, Delays
<1>5. n.calib.phase = "Idle" => s.calib.phase = "Idle"
  BY DEF Moves, Delays
<1> QED
  BY <1>1, <1>3, <1>4, <1>5 DEF Moves, Delays

(* Only the lifecycle state, or only the motors.                           *)
LEMMA AsideMoves ==
  ASSUME NEW s, Held(s), NEW told \in BOOLEAN
  PROVE  /\ \A x \in LifeStates : Moves(s, [s EXCEPT !.life = x], told)
         /\ \A on \in BOOLEAN, ok \in BOOLEAN : Moves(s, SendMotors(s, on, ok), told)
<1>1. s \in Node
  BY DEF Held
<1>2. ASSUME NEW r, Port(r) = Port(s), r.core = s.core, r.calib = s.calib, r.traj = s.traj
      PROVE  Moves(s, r, told)
  <2>1. Onward(s.core, r.core, told)
    BY <1>2, OnwardSame
  <2> QED
    BY <1>1, <1>2, <2>1, MovesOf DEF Port
<1>3. ASSUME NEW x \in LifeStates PROVE Moves(s, [s EXCEPT !.life = x], told)
  <2> DEFINE r == [s EXCEPT !.life = x]
  <2>1. Port(r) = Port(s) /\ r.core = s.core /\ r.calib = s.calib /\ r.traj = s.traj
    BY LifeUpdate
  <2> HIDE DEF r
  <2>2. Moves(s, r, told)
    BY <1>2, <2>1
  <2> QED
    BY <2>2 DEF r
<1>4. ASSUME NEW on \in BOOLEAN, NEW ok \in BOOLEAN PROVE Moves(s, SendMotors(s, on, ok), told)
  <2> DEFINE r == SendMotors(s, on, ok)
  <2>1. Port(r) = Port(s) /\ r.core = s.core /\ r.calib = s.calib /\ r.traj = s.traj
    BY MotorsHeld
  <2> HIDE DEF r
  <2>2. Moves(s, r, told)
    BY <1>2, <2>1
  <2> QED
    BY <2>2 DEF r
<1> QED
  BY <1>3, <1>4

(* Only the core.                                                          *)
LEMMA CoreMoves ==
  ASSUME NEW s, s \in Node, NEW c, NEW told \in BOOLEAN, Onward(s.core, c, told)
  PROVE  LET r == [s EXCEPT !.core = c]
         IN  Moves(s, r, told) /\ r.board = s.board /\ r.core = c
<1> DEFINE r == [s EXCEPT !.core = c]
<1>1. r.core = c /\ r.retryIn = s.retryIn /\ r.calib = s.calib /\ r.traj = s.traj /\ r.board = s.board
  BY DEF Node
<1> HIDE DEF r
<1>2. Moves(s, r, told)
  BY <1>1, MovesOf
<1> QED
  BY <1>1, <1>2 DEF r

(* The gate and the arm bit.                                               *)
LEMMA ArmingMoves ==
  ASSUME NEW s, Held(s), NEW b \in BOOLEAN, NEW told \in BOOLEAN
  PROVE  Moves(s, Rearmed(s, b), told)
<1> DEFINE r == Rearmed(s, b)
<1>1. s \in Node /\ s.core \in Core
  BY DEF Held, Node
<1>2. Port(r) = Port(s) /\ r.calib = s.calib /\ r.traj = s.traj
  BY ArmingHeld
<1>3. r.core = SetArmed(s.core, b)
  BY <1>1 DEF Rearmed, Node
<1> HIDE DEF r
<1>4. Onward(s.core, r.core, told)
  BY <1>1, <1>3, GatesOnward
<1>5. Moves(s, r, told)
  BY <1>1, <1>2, <1>4, MovesOf DEF Port
<1> QED
  BY <1>5 DEF r

(* stop and its like.                                                      *)
LEMMA HaltOnly ==
  ASSUME NEW s, Held(s), NEW ok \in BOOLEAN, NEW told \in BOOLEAN
  PROVE  Moves(s, AbortActiveGoals(SendControl(s, HoldFrame, ok)), told)
<1> DEFINE r == AbortActiveGoals(SendControl(s, HoldFrame, ok))
<1>1. /\ r.traj.left \in {s.traj.left, 0} /\ r.retryIn = s.retryIn
      /\ r.calib.phase = "Idle" /\ r.core = s.core
  BY HaltMoves
<1> HIDE DEF r
<1>2. Onward(s.core, r.core, told)
  BY <1>1, OnwardSame
<1>3. Moves(s, r, told)
  BY <1>1, <1>2, MovesOf DEF Held
<1> QED
  BY <1>3 DEF r

(* A core destroyed leaves less than any.                                  *)
LEMMA CleanedUpMoves ==
  ASSUME NEW s, s \in Node, GatesAgree(s), CalibTracked(s), TrajHeld(s),
         NEW x \in LifeStates
  PROVE  LET r == [CleanedUp(s) EXCEPT !.life = x]
         IN  Moves(s, r, FALSE) /\ r.board = s.board
<1> DEFINE a == AbortActiveGoals(s)
           b == [a EXCEPT !.open = FALSE, !.haveRealtime = FALSE]
           new == NewCore(AnyConfig)
           c == [b EXCEPT !.armed = FALSE, !.motorsOn = FALSE, !.core = new]
           r == [c EXCEPT !.life = x]
<1>1. Held(a) /\ Port(a) = Port(s) /\ a.board = s.board /\ ~a.calib.handle
  BY AbortHeld
<1>2. a.traj.left \in {s.traj.left, 0}
  BY AbortLeft
<1>3. AnyConfig \in Configs
  BY NodeInputs DEF AnyConfig
<1>4. Blank(new)
  BY <1>3, NewCoreBlank
<1>5. [CleanedUp(s) EXCEPT !.life = x] = r
  BY DEF CleanedUp, Closed
<1> HIDE DEF a, new
<1>6. /\ r.core = new /\ r.retryIn = a.retryIn /\ r.calib = a.calib
      /\ r.traj = a.traj /\ r.board = a.board
  BY <1>1 DEF Held, Node
<1> HIDE DEF r
<1>7. r.retryIn = s.retryIn /\ r.calib.phase = "Idle"
  BY <1>1, <1>6 DEF Held, CalibHeld, CalibTracked, Port
<1>8. Onward(s.core, r.core, FALSE)
  BY <1>4, <1>6, BlankOnward
<1>9. Moves(s, r, FALSE)
  BY <1>2, <1>6, <1>7, <1>8, MovesOf
<1> QED
  BY <1>1, <1>5, <1>6, <1>9

-----------------------------------------------------------------------------
(* Lifecycle transitions. *)

(* on_configure leaves a core that has had neither command nor telemetry.  *)
LEMMA ConfigureMoves ==
  ASSUME NEW n, Held(n), NEW cfg \in Configs, NEW ok \in BOOLEAN
  PROVE  LET built == SetArmed(SetControlAllowed(NewCore(cfg), n.allowControl), FALSE)
             s == TryConnect([n EXCEPT !.core = built], ok)
             r == [s EXCEPT !.life = IF ok THEN "inactive" ELSE "unconfigured"]
         IN  Moves(n, r, FALSE) /\ r.board.turning = n.board.turning
<1> DEFINE d == SetControlAllowed(NewCore(cfg), n.allowControl)
           b == SetArmed(d, FALSE)
           c == SetLinkUp(b, ok)
           x == IF ok THEN "inactive" ELSE "unconfigured"
           m == [n EXCEPT !.core = b]
           s == TryConnect(m, ok)
           r == [s EXCEPT !.life = x]
<1>1. n \in Node /\ n.allowControl \in BOOLEAN
  BY DEF Held, Node
<1>2. d \in Core /\ Blank(d)
  BY <1>1, NewCoreBlank, GatesBlank, GatesType
<1> HIDE DEF d
<1>3. b \in Core /\ Blank(b)
  BY <1>2, GatesBlank, GatesType
<1> HIDE DEF b
<1>4. Blank(c)
  BY <1>3, GatesBlank
<1>5. r.core = c /\ r.retryIn = n.retryIn /\ r.calib = n.calib /\ r.traj = n.traj
      /\ r.board = n.board
  <2>1. /\ m.core = b /\ m.retryIn = n.retryIn /\ m.calib = n.calib /\ m.traj = n.traj
        /\ m.board = n.board /\ m \in Node
    BY <1>1, <1>3, NodeUpdates DEF Node
  <2> HIDE DEF m
  <2>2. /\ s.core = SetLinkUp(m.core, ok) /\ s.retryIn = m.retryIn /\ s.calib = m.calib
        /\ s.traj = m.traj /\ s.board = m.board /\ DOMAIN s = DOMAIN m
    BY <2>1 DEF TryConnect, Opened, Closed, Node
  <2>3. DOMAIN m = DOMAIN n
    BY <2>1, <1>1 DEF Node
  <2> HIDE DEF s
  <2>4. /\ r.core = s.core /\ r.retryIn = s.retryIn /\ r.calib = s.calib
        /\ r.traj = s.traj /\ r.board = s.board
    BY <1>1, <2>2, <2>3 DEF Node
  <2> QED
    BY <2>1, <2>2, <2>4
<1> HIDE DEF c, r
<1>6. Onward(n.core, r.core, FALSE)
  BY <1>4, <1>5, BlankOnward
<1>7. Moves(n, r, FALSE)
  BY <1>1, <1>5, <1>6, MovesOf
<1> QED
  BY <1>5, <1>7 DEF r, s, m, b, d

(* on_activate.                                                            *)
LEMMA ActivateMoves ==
  ASSUME NEW n, Held(n), NEW arm \in BOOLEAN, NEW motors \in BOOLEAN, NEW ok \in BOOLEAN
  PROVE  LET s == [n EXCEPT !.life = "active", !.core = SetArmed(@, arm), !.armed = arm]
             r == IF motors THEN SendMotors(s, TRUE, ok) ELSE s
         IN  Moves(n, r, FALSE) /\ r.board.turning = n.board.turning
<1> DEFINE m == [n EXCEPT !.life = "active"]
           s == Rearmed(m, arm)
           r == IF motors THEN SendMotors(s, TRUE, ok) ELSE s
<1>0. "active" \in LifeStates /\ n \in Node
  BY DEF LifeStates, Held
<1>1. Held(m) /\ Moves(n, m, FALSE) /\ m.board = n.board
  BY <1>0, LifeUpdate, AsideMoves
<1>2. [n EXCEPT !.life = "active", !.core = SetArmed(@, arm), !.armed = arm] = s
  BY <1>0 DEF Node, Rearmed
<1> HIDE DEF m
<1>3. Held(s) /\ Moves(m, s, FALSE) /\ s.board = m.board
  BY <1>1, ArmingHeld, ArmingMoves
<1> HIDE DEF s
<1>4. Moves(n, s, FALSE)
  BY <1>0, <1>1, <1>3, MovesChain DEF Held
<1>5. CASE motors
  <2>1. Held(r) /\ Moves(s, r, FALSE) /\ r.board.turning = s.board.turning
    BY <1>3, <1>5, MotorsHeld, AsideMoves
  <2> HIDE DEF r
  <2>2. Moves(n, r, FALSE)
    BY <1>0, <1>3, <1>4, <2>1, MovesChain DEF Held
  <2> QED
    BY <1>1, <1>2, <1>3, <2>1, <2>2 DEF r
<1> QED
  BY <1>1, <1>2, <1>3, <1>4, <1>5

(* on_deactivate.                                                          *)
LEMMA DeactivateMoves ==
  ASSUME NEW n, Held(n), NEW ok \in BOOLEAN
  PROVE  LET d == [n EXCEPT !.core = SetArmed(@, FALSE), !.armed = FALSE]
             s == AbortActiveGoals(SendControl(d, HoldFrame, ok))
             r == [s EXCEPT !.life = "inactive"]
         IN  /\ Moves(n, r, FALSE)
             /\ r.board.turning = IF n.open /\ ok THEN HoldFrame.moving ELSE n.board.turning
<1> DEFINE d == Rearmed(n, FALSE)
           s == AbortActiveGoals(SendControl(d, HoldFrame, ok))
           r == [s EXCEPT !.life = "inactive"]
<1>0. "inactive" \in LifeStates /\ n \in Node
  BY DEF LifeStates, Held
<1>1. Held(d) /\ Port(d) = Port(n) /\ d.board = n.board /\ Moves(n, d, FALSE)
  BY ArmingHeld, ArmingMoves
<1> HIDE DEF d
<1>2. Held(s) /\ Moves(d, s, FALSE)
  BY <1>1, HaltHeld, HaltOnly
<1>3. s.board.turning = IF d.open /\ ok THEN HoldFrame.moving ELSE d.board.turning
  BY <1>1, HaltMoves
<1> HIDE DEF s
<1>4. Held(r) /\ Moves(s, r, FALSE) /\ r.board = s.board
  BY <1>0, <1>2, LifeUpdate, AsideMoves
<1> HIDE DEF r
<1>5. Moves(n, s, FALSE)
  BY <1>0, <1>1, <1>2, MovesChain DEF Held
<1>6. Moves(n, r, FALSE)
  BY <1>0, <1>2, <1>4, <1>5, MovesChain DEF Held
<1>7. r.board.turning = IF n.open /\ ok THEN HoldFrame.moving ELSE n.board.turning
  <2>1. d.open = n.open
    BY <1>1 DEF Port
  <2> QED
    BY <1>1, <1>3, <1>4, <2>1
<1> QED
  BY <1>6, <1>7 DEF r, s, d, Rearmed

(* on_shutdown.                                                            *)
LEMMA ShutdownMoves ==
  ASSUME NEW n, Held(n), NEW ok \in BOOLEAN
  PROVE  LET h == SendControl([n EXCEPT !.core = SetArmed(@, FALSE)], HoldFrame, ok)
             r == [CleanedUp(IF n.open THEN h ELSE n) EXCEPT !.life = "finalized"]
         IN  /\ Moves(n, r, FALSE)
             /\ r.board.turning = IF n.open /\ ok THEN HoldFrame.moving ELSE n.board.turning
<1> DEFINE c == SetArmed(n.core, FALSE)
           d == [n EXCEPT !.core = c]
           h == SendControl(d, HoldFrame, ok)
           k == IF n.open THEN h ELSE n
           r == [CleanedUp(k) EXCEPT !.life = "finalized"]
<1>0. n \in Node /\ n.core \in Core /\ "finalized" \in LifeStates /\ n.open \in BOOLEAN
  BY DEF Held, Node, LifeStates
<1>1. /\ c \in Core /\ c.mode = "Idle" /\ Onward(n.core, c, FALSE)
      /\ Gates(c) = <<n.core.controlAllowed, FALSE, n.core.linkUp>>
  BY <1>0, GatesType, ArmedEffect, GatesOnward
<1>2. [n EXCEPT !.core = SetArmed(@, FALSE)] = d
  OBVIOUS
<1> HIDE DEF c
<1>3. /\ Port(d) = Port(n) /\ d.core = c /\ d.allowControl = n.allowControl
      /\ d.calib = n.calib /\ d.traj = n.traj /\ d.board = n.board /\ d \in Node
  BY <1>0, <1>1, NodeUpdates DEF Node, Port
<1>4. Moves(n, d, FALSE)
  BY <1>0, <1>1, CoreMoves
<1> HIDE DEF d
<1>5. Held(d)
  BY <1>1, <1>3
     DEF Held, GatesAgree, CalibTracked, CalibHeld, TrajHeld, Port, Gates
<1>6. /\ h \in Node /\ GatesAgree(h) /\ CalibTracked(h) /\ TrajHeld(h)
      /\ Port(h) = Port(d) /\ h.core = d.core /\ h.calib = d.calib /\ h.traj = d.traj
  BY <1>5, HoldSent
<1>7. h.board.turning = IF d.open /\ ok THEN HoldFrame.moving ELSE d.board.turning
  <2>1. HoldFrame.moving \in BOOLEAN
    BY DEF HoldFrame
  <2> QED
    BY <1>3, <2>1, SendTurns
<1> HIDE DEF h
<1>8. Moves(d, h, FALSE)
  <2>1. Onward(d.core, h.core, FALSE)
    BY <1>6, OnwardSame
  <2> QED
    BY <1>3, <1>6, <2>1, MovesOf DEF Port
<1>9. Moves(n, n, FALSE)
  <2>1. Onward(n.core, n.core, FALSE)
    BY OnwardSame
  <2> QED
    BY <1>0, <2>1, MovesOf
<1>10. /\ k \in Node /\ GatesAgree(k) /\ CalibTracked(k) /\ TrajHeld(k)
       /\ Moves(n, k, FALSE)
       /\ k.board.turning = IF n.open /\ ok THEN HoldFrame.moving ELSE n.board.turning
  <2>1. CASE n.open
    <3>1. Moves(n, h, FALSE)
      BY <1>0, <1>3, <1>4, <1>6, <1>8, MovesChain
    <3>2. d.open = n.open
      BY <1>3 DEF Port
    <3> QED
      BY <1>3, <1>6, <1>7, <2>1, <3>1, <3>2
  <2>2. CASE ~n.open
    BY <1>0, <1>9, <2>2 DEF Held, CalibHeld
  <2> QED
    BY <1>0, <2>1, <2>2
<1> HIDE DEF k
<1>11. Moves(k, r, FALSE) /\ r.board = k.board
  BY <1>0, <1>10, CleanedUpMoves
<1>12. r \in Node
  BY <1>0, <1>10, CleanedUpHeld DEF Held
<1> HIDE DEF r
<1>13. Moves(n, r, FALSE)
  BY <1>0, <1>10, <1>11, <1>12, MovesChain
<1>14. r.board.turning = IF n.open /\ ok THEN HoldFrame.moving ELSE n.board.turning
  BY <1>10, <1>11
<1> QED
  BY <1>2, <1>13, <1>14 DEF r, k, h

(* Every transition of the lifecycle keeps the invariant.                  *)
LEMMA LifecycleKeeps ==
  ASSUME LInv, LoopLifecycle PROVE LInv'
<1>0. Held(node) /\ Life(node)
  BY DEF LInv, NodeKept
<1>1. ASSUME NEW cfg \in Configs, NEW ok \in BOOLEAN, OnConfigure(cfg, ok), SendsNothing(FALSE)
      PROVE  LInv'
  <2> DEFINE built == SetArmed(SetControlAllowed(NewCore(cfg), node.allowControl), FALSE)
             s == TryConnect([node EXCEPT !.core = built], ok)
             r == [s EXCEPT !.life = IF ok THEN "inactive" ELSE "unconfigured"]
  <2>1. node.life = "unconfigured" /\ node' = r
    BY <1>1 DEF OnConfigure, Keeps, Becomes
  <2>2. Lawful(node, r)
    BY <1>0, <2>1, ConfigureLawful
  <2>3. Moves(node, r, FALSE) /\ r.board.turning = node.board.turning
    BY <1>0, ConfigureMoves
  <2> HIDE DEF r
  <2> QED
    BY <1>1, <2>1, <2>2, <2>3, SilentKeeps
<1>2. ASSUME NEW arm \in StartArmed, NEW motors \in AutoMotorsOn, NEW ok \in BOOLEAN,
             OnActivate(arm, motors, ok), SendsNothing(FALSE)
      PROVE  LInv'
  <2> DEFINE s == [node EXCEPT !.life = "active", !.core = SetArmed(@, arm), !.armed = arm]
             r == IF motors THEN SendMotors(s, TRUE, ok) ELSE s
  <2>1. node.life = "inactive" /\ node' = r
    BY <1>2 DEF OnActivate, Keeps, Becomes
  <2>2. arm \in BOOLEAN /\ motors \in BOOLEAN
    BY NodeInputs
  <2>3. Lawful(node, r)
    BY <1>0, <2>1, <2>2, ActivateLawful
  <2>4. Moves(node, r, FALSE) /\ r.board.turning = node.board.turning
    BY <1>0, <2>2, ActivateMoves
  <2> HIDE DEF r
  <2> QED
    BY <1>2, <2>1, <2>3, <2>4, SilentKeeps
<1>3. ASSUME NEW ok \in BOOLEAN, OnDeactivate(ok), Sends(HoldFrame, ok, FALSE) PROVE LInv'
  <2> DEFINE d == [node EXCEPT !.core = SetArmed(@, FALSE), !.armed = FALSE]
             s == AbortActiveGoals(SendControl(d, HoldFrame, ok))
             r == [s EXCEPT !.life = "inactive"]
  <2>1. node.life = "active" /\ node' = r
    BY <1>3 DEF OnDeactivate, Silences, Becomes
  <2>2. Lawful(node, r)
    BY <1>0, <2>1, DeactivateLawful
  <2>3. /\ Moves(node, r, FALSE)
        /\ r.board.turning = IF node.open /\ ok THEN HoldFrame.moving ELSE node.board.turning
    BY <1>0, DeactivateMoves
  <2> HIDE DEF r
  <2> QED
    BY <1>3, <2>1, <2>2, <2>3, SentKeeps, FixedJudged
<1>4. ASSUME NEW ok \in BOOLEAN, OnShutdown(ok), Sends(HoldFrame, ok, FALSE) PROVE LInv'
  <2> DEFINE h == SendControl([node EXCEPT !.core = SetArmed(@, FALSE)], HoldFrame, ok)
             r == [CleanedUp(IF node.open THEN h ELSE node) EXCEPT !.life = "finalized"]
  <2>1. node' = r
    BY <1>4 DEF OnShutdown, Silences, Becomes
  <2>2. Lawful(node, r)
    BY <1>0, ShutdownLawful
  <2>3. /\ Moves(node, r, FALSE)
        /\ r.board.turning = IF node.open /\ ok THEN HoldFrame.moving ELSE node.board.turning
    BY <1>0, ShutdownMoves
  <2> HIDE DEF r
  <2> QED
    BY <1>4, <2>1, <2>2, <2>3, SentKeeps, FixedJudged
<1>5. ASSUME OnCleanup, SendsNothing(FALSE) PROVE LInv'
  <2> DEFINE r == [CleanedUp(node) EXCEPT !.life = "unconfigured"]
  <2>1. node.life = "inactive" /\ node' = r
    BY <1>5 DEF OnCleanup, Silences, Becomes
  <2>2. Lawful(node, r)
    BY <1>0, <2>1, CleanupLawful
  <2>3. Moves(node, r, FALSE) /\ r.board = node.board
    BY <1>0, CleanedUpMoves DEF Held, CalibHeld, LifeStates
  <2> HIDE DEF r
  <2> QED
    BY <1>5, <2>1, <2>2, <2>3, SilentKeeps
<1> QED
  BY <1>1, <1>2, <1>3, <1>4, <1>5 DEF LoopLifecycle

-----------------------------------------------------------------------------
(* Messages, services and goals. *)

(* stop and disarm: a hold, sent, and no goal left.                        *)
LEMMA StopMoves ==
  ASSUME NEW n, Held(n), Life(n), NEW ok \in BOOLEAN
  PROVE  LET s == AbortActiveGoals(
                    SendControl([n EXCEPT !.core = SubmitHold(@)], HoldFrame, ok))
             r == Rearmed(s, FALSE)
         IN  /\ Moves(n, s, FALSE) /\ Moves(n, r, FALSE)
             /\ s.board.turning = IF n.open /\ ok THEN HoldFrame.moving ELSE n.board.turning
             /\ r.board.turning = IF n.open /\ ok THEN HoldFrame.moving ELSE n.board.turning
<1> DEFINE c == SubmitHold(n.core)
           h == [n EXCEPT !.core = c]
           s == AbortActiveGoals(SendControl(h, HoldFrame, ok))
           r == Rearmed(s, FALSE)
<1>0. n \in Node /\ n.core \in Core
  BY DEF Held, Node
<1>1. Onward(n.core, c, FALSE)
  BY <1>0, HoldOnward
<1>2. [n EXCEPT !.core = SubmitHold(@)] = h
  OBVIOUS
<1>3. Held(h)
  BY <1>2, HoldLawful DEF Lawful
<1> HIDE DEF c
<1>4. Moves(n, h, FALSE) /\ h.board = n.board
  BY <1>0, <1>1, CoreMoves
<1>5. h.open = n.open
  BY <1>0 DEF Node
<1> HIDE DEF h
<1>6. Held(s) /\ Moves(h, s, FALSE)
  BY <1>3, HaltHeld, HaltOnly
<1>7. s.board.turning = IF n.open /\ ok THEN HoldFrame.moving ELSE n.board.turning
  BY <1>3, <1>4, <1>5, HaltMoves
<1> HIDE DEF s
<1>8. Moves(n, s, FALSE)
  BY <1>0, <1>3, <1>4, <1>6, MovesChain DEF Held
<1>9. Held(r) /\ Moves(s, r, FALSE) /\ r.board = s.board
  BY <1>6, ArmingHeld, ArmingMoves
<1> HIDE DEF r
<1>10. Moves(n, r, FALSE)
  BY <1>0, <1>6, <1>8, <1>9, MovesChain DEF Held
<1>11. r.board.turning = IF n.open /\ ok THEN HoldFrame.moving ELSE n.board.turning
  BY <1>7, <1>9
<1> QED
  BY <1>2, <1>7, <1>8, <1>10, <1>11 DEF r, s

(* home and level.                                                         *)
LEMMA AutoTaskMoves ==
  ASSUME NEW n, Held(n), NEW ok \in BOOLEAN
  PROVE  LET r == SendAutoTask(n, ok)
         IN  /\ Moves(n, r, TRUE)
             /\ r.board.turning = IF n.open /\ ok THEN AutoTaskFrame.moving
                                  ELSE n.board.turning
<1> DEFINE f == [moving |-> TRUE]
           r == SendControl(n, f, ok)
<1>0. /\ n \in Node /\ f.moving = TRUE /\ f.moving \in BOOLEAN
      /\ AutoTaskFrame.moving = TRUE
  BY DEF Held, AutoTaskFrame
<1>1. SendAutoTask(n, ok) = r
  BY AutoTaskIsFrame
<1> HIDE DEF f
<1>2. Port(r) = Port(n) /\ r.core = n.core /\ r.calib = n.calib /\ r.traj = n.traj
  BY <1>0, SendEffect
<1>3. r.board.turning = IF n.open /\ ok THEN f.moving ELSE n.board.turning
  BY <1>0, SendTurns
<1> HIDE DEF r
<1>4. Onward(n.core, r.core, TRUE)
  BY <1>2, OnwardSame
<1>5. Moves(n, r, TRUE)
  BY <1>0, <1>2, <1>4, MovesOf DEF Port
<1> QED
  BY <1>0, <1>1, <1>3, <1>5

(* A trajectory goal brings its own deadline.                              *)
LEMMA TrajAcceptedMoves ==
  ASSUME NEW n, Held(n), NEW target, NEW tolerance, NEW left \in 1 .. MaxTravel
  PROVE  LET g == [handle |-> TRUE, active |-> TRUE, goal |-> "executing",
                   target |-> target, tolerance |-> tolerance, left |-> left]
             r == [n EXCEPT !.traj = g, !.core = SubmitAngle(@, target, n.relative)]
         IN  Moves(n, r, TRUE) /\ r.board = n.board
<1> DEFINE g == [handle |-> TRUE, active |-> TRUE, goal |-> "executing",
                 target |-> target, tolerance |-> tolerance, left |-> left]
           c == SubmitAngle(n.core, target, n.relative)
           r == [n EXCEPT !.traj = g, !.core = SubmitAngle(@, target, n.relative)]
<1>1. n \in Node /\ n.core \in Core /\ n.retryIn \in Int
  BY CoreAssumption, DriverAssumption DEF Held, Node
<1>2. Onward(n.core, c, TRUE)
  BY <1>1, CommandOnward
<1>3. g.left = left /\ left <= MaxTravel
  BY DriverAssumption
<1> HIDE DEF g
<1>4. /\ r.core = c /\ r.traj = g /\ r.retryIn = n.retryIn /\ r.calib = n.calib
      /\ r.board = n.board
  BY <1>1 DEF Node
<1> HIDE DEF c, r
<1>5. Moves(n, r, TRUE)
  <2>1. r.retryIn <= n.retryIn /\ r.traj.left <= MaxTravel
    BY <1>1, <1>3, <1>4
  <2>2. Onward(n.core, r.core, TRUE) /\ (n.calib.phase = "Idle" => r.calib.phase = "Idle")
    BY <1>2, <1>4
  <2> QED
    BY <2>1, <2>2 DEF Moves, Delays
<1> QED
  BY <1>4, <1>5 DEF r, g

(* A callback that replaces the core and writes nothing.                   *)
LEMMA CoreKeeps ==
  ASSUME LInv, NEW c, NEW told \in BOOLEAN, Onward(node.core, c, told),
         node' = [node EXCEPT !.core = c], Lawful(node, [node EXCEPT !.core = c]),
         SendsNothing(told)
  PROVE  LInv'
<1> DEFINE r == [node EXCEPT !.core = c]
<1>1. node \in Node
  BY DEF LInv, NodeKept, Held
<1>2. Moves(node, r, told) /\ r.board = node.board
  BY <1>1, CoreMoves
<1>3. node' = r /\ Lawful(node, r)
  OBVIOUS
<1> HIDE DEF r
<1> QED
  BY <1>2, <1>3, SilentKeeps

(* Every message keeps the invariant ...                                   *)
LEMMA JogKeeps ==
  ASSUME LInv,
         \/ OnJointJogHold /\ SendsNothing(TRUE)
         \/ \E v \in JogRates : OnJointJogRate(v) /\ SendsNothing(TRUE)
         \/ \E v \in JogAngles : OnJointJogAngle(v) /\ SendsNothing(TRUE)
  PROVE  LInv'
<1>0. Held(node) /\ Life(node) /\ node.core \in Core
  BY DEF LInv, NodeKept, Held, Node
<1>1. ASSUME OnJointJogHold, SendsNothing(TRUE) PROVE LInv'
  <2> DEFINE c == SubmitHold(node.core)
  <2>1. node' = [node EXCEPT !.core = c] /\ Lawful(node, [node EXCEPT !.core = c])
    BY <1>0, <1>1, HoldLawful DEF OnJointJogHold, Keeps, Becomes
  <2>2. Onward(node.core, c, TRUE)
    BY <1>0, HoldOnward
  <2> HIDE DEF c
  <2> QED
    BY <1>1, <2>1, <2>2, CoreKeeps
<1>2. ASSUME NEW v \in JogRates, OnJointJogRate(v), SendsNothing(TRUE) PROVE LInv'
  <2> DEFINE c == SubmitRate(node.core, Filled(v))
  <2>1. node' = [node EXCEPT !.core = c]
    BY <1>2 DEF OnJointJogRate, Speaks, Becomes
  <2>2. Lawful(node, [node EXCEPT !.core = c])
    BY <1>0, FilledType, JogLawful
  <2>3. Onward(node.core, c, TRUE)
    BY <1>0, CommandOnward
  <2> HIDE DEF c
  <2> QED
    BY <1>2, <2>1, <2>2, <2>3, CoreKeeps
<1>3. ASSUME NEW v \in JogAngles, OnJointJogAngle(v), SendsNothing(TRUE) PROVE LInv'
  <2> DEFINE c == SubmitAngle(node.core, Filled(v), node.relative)
  <2>1. node' = [node EXCEPT !.core = c]
    BY <1>3 DEF OnJointJogAngle, Speaks, Becomes
  <2>2. Lawful(node, [node EXCEPT !.core = c])
    BY <1>0, FilledType, JogLawful
  <2>3. Onward(node.core, c, TRUE)
    BY <1>0, CommandOnward
  <2> HIDE DEF c
  <2> QED
    BY <1>3, <2>1, <2>2, <2>3, CoreKeeps
<1> QED
  BY <1>1, <1>2, <1>3

(* ... and so does every service ...                                       *)
LEMMA ServiceKeeps ==
  ASSUME LInv,
         \/ \E on \in MotorRequests, ok \in BOOLEAN : SrvSetMotors(on, ok) /\ SendsNothing(FALSE)
         \/ SrvArm /\ SendsNothing(FALSE)
         \/ \E ok \in BOOLEAN :
              \/ (SrvDisarm(ok) \/ SrvStop(ok)) /\ Sends(HoldFrame, ok, FALSE)
              \/ (SrvHome(ok) \/ SrvLevel(ok)) /\ Sends(AutoTaskFrame, ok, TRUE)
  PROVE  LInv'
<1>0. Held(node) /\ Life(node) /\ node \in Node
  BY DEF LInv, NodeKept, Held
<1>1. ASSUME NEW on \in MotorRequests, NEW ok \in BOOLEAN, SrvSetMotors(on, ok),
             SendsNothing(FALSE)
      PROVE  LInv'
  <2> DEFINE r == SendMotors(node, on, ok)
  <2>1. on \in BOOLEAN
    BY NodeInputs
  <2>2. node' = r
    BY <1>1 DEF SrvSetMotors, Keeps, Becomes
  <2>3. Lawful(node, r)
    BY <1>0, <2>1, MotorsLawful
  <2>4. Moves(node, r, FALSE) /\ r.board.turning = node.board.turning
    BY <1>0, <2>1, AsideMoves, MotorsHeld
  <2> HIDE DEF r
  <2> QED
    BY <1>1, <2>2, <2>3, <2>4, SilentKeeps
<1>2. ASSUME SrvArm, SendsNothing(FALSE) PROVE LInv'
  <2> DEFINE r == Rearmed(node, TRUE)
  <2>1. node.life = "active" /\ node' = r
    BY <1>2 DEF SrvArm, Active, Keeps, Becomes, Rearmed
  <2>2. Lawful(node, r)
    BY <1>0, <2>1, ArmLawful DEF Rearmed
  <2>3. Moves(node, r, FALSE) /\ r.board = node.board
    BY <1>0, ArmingMoves, ArmingHeld
  <2> HIDE DEF r
  <2> QED
    BY <1>2, <2>1, <2>2, <2>3, SilentKeeps
<1>3. ASSUME NEW ok \in BOOLEAN, SrvDisarm(ok), Sends(HoldFrame, ok, FALSE) PROVE LInv'
  <2> DEFINE s == AbortActiveGoals(
                    SendControl([node EXCEPT !.core = SubmitHold(@)], HoldFrame, ok))
             r == Rearmed(s, FALSE)
  <2>1. node' = r
    BY <1>3 DEF SrvDisarm, Silences, Becomes, Rearmed
  <2>2. Lawful(node, r)
    BY <1>0, DisarmLawful DEF Rearmed
  <2>3. /\ Moves(node, r, FALSE)
        /\ r.board.turning = IF node.open /\ ok THEN HoldFrame.moving ELSE node.board.turning
    BY <1>0, StopMoves
  <2> HIDE DEF r
  <2> QED
    BY <1>3, <2>1, <2>2, <2>3, SentKeeps, FixedJudged
<1>4. ASSUME NEW ok \in BOOLEAN, SrvStop(ok), Sends(HoldFrame, ok, FALSE) PROVE LInv'
  <2> DEFINE r == AbortActiveGoals(
                    SendControl([node EXCEPT !.core = SubmitHold(@)], HoldFrame, ok))
  <2>1. node' = r
    BY <1>4 DEF SrvStop, Silences, Becomes
  <2>2. Lawful(node, r)
    BY <1>0, StopLawful
  <2>3. /\ Moves(node, r, FALSE)
        /\ r.board.turning = IF node.open /\ ok THEN HoldFrame.moving ELSE node.board.turning
    BY <1>0, StopMoves
  <2> HIDE DEF r
  <2> QED
    BY <1>4, <2>1, <2>2, <2>3, SentKeeps, FixedJudged
<1>5. ASSUME NEW ok \in BOOLEAN, SrvHome(ok) \/ SrvLevel(ok), Sends(AutoTaskFrame, ok, TRUE)
      PROVE  LInv'
  <2> DEFINE r == SendAutoTask(node, ok)
  <2>1. MotionPermitted(node.core) /\ node.calib.phase = "Idle" /\ node' = r
    BY <1>5 DEF SrvHome, SrvLevel, Speaks, Becomes
  <2>2. Lawful(node, r)
    BY <1>0, <2>1, HomeLawful
  <2>3. /\ Moves(node, r, TRUE)
        /\ r.board.turning = IF node.open /\ ok THEN AutoTaskFrame.moving
                             ELSE node.board.turning
    BY <1>0, AutoTaskMoves
  <2> HIDE DEF r
  <2> QED
    BY <1>5, <2>1, <2>2, <2>3, SentKeeps, FixedJudged
<1> QED
  BY <1>1, <1>2, <1>3, <1>4, <1>5

(* ... and every goal of the trajectory server and its cancellation.       *)
LEMMA TrajKeeps ==
  ASSUME LInv,
         \/ \E g \in TrajGoals : TrajAccepted(g) /\ SendsNothing(TRUE)
         \/ TrajCancel /\ SendsNothing(FALSE)
  PROVE  LInv'
<1>0. Held(node) /\ Life(node) /\ node \in Node
  BY DEF LInv, NodeKept, Held
<1>1. ASSUME NEW g \in TrajGoals, TrajAccepted(g), SendsNothing(TRUE) PROVE LInv'
  <2> DEFINE target == [a \in Axes |-> IF a \in DOMAIN g.positions THEN g.positions[a]
                                       ELSE node.core.continuous[a]]
             new == [handle |-> TRUE, active |-> TRUE, goal |-> "executing",
                     target |-> target, tolerance |-> g.tolerance, left |-> g.deadline]
             r == [node EXCEPT !.traj = new,
                               !.core = SubmitAngle(@, target, node.relative)]
  <2>1. /\ node.life = "active" /\ ~node.traj.active /\ node.calib.phase = "Idle"
        /\ MotionPermitted(node.core) /\ node' = r
    BY <1>1 DEF TrajAccepted, TrajGoal, Active, Speaks, Becomes
  <2>2. target \in [Axes -> Num]
    <3>1. g.positions \in [DOMAIN g.positions -> Num]
      BY NodeInputs
    <3>2. node.core.continuous \in [Axes -> Int]
      BY <1>0 DEF Node, Core
    <3> QED
      BY <3>1, <3>2 DEF Num
  <2>3. g.tolerance \in Nat /\ g.deadline \in 1 .. MaxTravel
    BY NodeInputs
  <2> HIDE DEF target
  <2>4. Lawful(node, r)
    BY <1>0, <2>1, <2>2, <2>3, TrajAcceptedLawful
  <2>5. Moves(node, r, TRUE) /\ r.board = node.board
    BY <1>0, <2>3, TrajAcceptedMoves
  <2> HIDE DEF r
  <2> QED
    BY <1>1, <2>1, <2>4, <2>5, SilentKeeps
<1>2. ASSUME TrajCancel, SendsNothing(FALSE) PROVE LInv'
  <2> DEFINE r == [node EXCEPT !.traj.goal = "canceling"]
  <2>1. node.traj.goal = "executing" /\ node' = r
    BY <1>2 DEF TrajCancel, Keeps, Becomes
  <2>2. Lawful(node, r)
    BY <1>0, <2>1, TrajCancelLawful
  <2>3. /\ r.core = node.core /\ r.retryIn = node.retryIn /\ r.calib = node.calib
        /\ r.traj.left = node.traj.left /\ r.board = node.board
    BY <1>0 DEF Node, Traj
  <2> HIDE DEF r
  <2>4. Onward(node.core, r.core, FALSE)
    BY <2>3, OnwardSame
  <2>5. Moves(node, r, FALSE)
    BY <1>0, <2>3, <2>4, MovesOf
  <2> QED
    BY <1>2, <2>1, <2>2, <2>3, <2>5, SilentKeeps
<1> QED
  BY <1>1, <1>2

(* Together: whatever a client asks for.                                   *)
LEMMA ClientsKeep ==
  ASSUME LInv, LoopClients PROVE LInv'
  BY JogKeeps, ServiceKeeps, TrajKeeps DEF LoopClients

-----------------------------------------------------------------------------
(* The timers. *)

(* Between two angles less than half a turn apart unwrapOnto finds the one *)
(* that was measured.                                                      *)
LEMMA UnwrapNear ==
  ASSUME NEW u \in Int, NEW w \in Int, u - w < HalfTurn, w - u < HalfTurn
  PROVE  UnwrapOnto(u, w) = w
<1> DEFINE z == UnwrapOnto(u, w)
           d == z - w
           q == d \div Turn
<1>1. z \in Int /\ z - u \in -HalfTurn .. HalfTurn /\ d % Turn = 0
  BY UnwrapCloses
<1>2. HalfTurn \in Nat /\ Turn = 2 * HalfTurn /\ Turn \in Nat \ {0}
  BY CoreAssumption, TurnType DEF Turn
<1> HIDE DEF z
<1>3. d \in Int /\ -Turn < d /\ d < Turn
  BY <1>1, <1>2
<1> HIDE DEF d
<1>4. q \in Int /\ d = Turn * q + (d % Turn)
  BY <1>2, <1>3, Division
<1> HIDE DEF q
<1> DEFINE p == Turn * q
<1>5. (q >= 1 => p >= Turn) /\ (q <= -1 => p <= -Turn) /\ (q = 0 => p = 0)
  BY <1>2, <1>4
<1> HIDE DEF p
<1>6. d = p
  BY <1>1, <1>2, <1>3, <1>4 DEF p
<1>7. d = 0
  BY <1>2, <1>3, <1>4, <1>5, <1>6
<1> QED
  BY <1>1, <1>7 DEF d, z

(* A reply puts the track where the camera was when the board sent it.     *)
LEMMA ReceivedSamples ==
  ASSUME LInv, reply # None, NEW s, s \in Node, s.core = node.core
  PROVE  LET c == Received(s, RosAngles(reply)).core
         IN  c.telemetryAge = 0 /\ c.continuous = RosAngles(reply)
<1> DEFINE w == RosAngles(reply)
           t == [valid |-> TRUE, angle |-> w, age |-> 0]
           c == OnTelemetry(s.core, t)
<1>1. reply \in [Axes -> Stops] /\ Stops \subseteq Int
  BY LoopAssumption DEF LInv, PlantKept, PlantTyped
<1>2. w \in [Axes -> Int]
  <2>1. reply \in [Axes -> Int]
    BY <1>1
  <2> QED
    BY <2>1 DEF RosAngles
<1>3. s.core \in Core
  BY DEF Node
<1>4. Received(s, w).core = c
  BY DEF Received, Node
<1>5. Usable(t)
  BY <1>2, CoreAssumption DEF Usable, AllFinite
<1>6. c.telemetryAge = 0
  BY <1>3, <1>5 DEF OnTelemetry, Core
<1>7. c.continuous = [a \in Axes |-> IF s.core.haveContinuous
                                     THEN UnwrapOnto(s.core.continuous[a], w[a])
                                     ELSE w[a]]
  BY <1>3, <1>5 DEF OnTelemetry, Core
<1>8. ASSUME NEW a \in Axes, s.core.haveContinuous
      PROVE  UnwrapOnto(s.core.continuous[a], w[a]) = w[a]
  <2>1. PICK x \in [Axes -> Stops] : s.core.continuous = RosAngles(x)
    BY <1>8 DEF LInv, TrackInside
  <2>2. /\ x[a] \in Int /\ reply[a] \in Int
        /\ x[a] - reply[a] < HalfTurn /\ reply[a] - x[a] < HalfTurn
    BY <1>1, <2>1, LoopAssumption
  <2>3. w[a] = IF a = "pitch" THEN -reply[a] ELSE reply[a]
    BY DEF RosAngles
  <2>4. s.core.continuous[a] = IF a = "pitch" THEN -x[a] ELSE x[a]
    BY <2>1 DEF RosAngles
  <2> DEFINE u == s.core.continuous[a]
             v == w[a]
  <2>5. u \in Int /\ v \in Int /\ u - v < HalfTurn /\ v - u < HalfTurn
    <3>1. HalfTurn \in Int
      BY CoreAssumption
    <3> QED
      BY <2>2, <2>3, <2>4, <3>1
  <2> HIDE DEF u, v
  <2>6. UnwrapOnto(u, v) = v
    BY <2>5, UnwrapNear
  <2> QED
    BY <2>6 DEF u, v
<1>9. c.continuous = w
  BY <1>2, <1>7, <1>8
<1> QED
  BY <1>4, <1>6, <1>9

(* The frame of a tick is one the node may send.                           *)
LEMMA TickJudged ==
  ASSUME LInv, NEW told \in BOOLEAN PROVE Judged(Tick(node.core), told)
<1> DEFINE c == node.core
           f == Tick(c)
<1>1. /\ c \in Core /\ c.cfg = TheConfig /\ c.telemetryAge \in Int /\ jumped \in 0 .. JumpMax
      /\ JumpMax \in Nat /\ MaxAge \in Nat
  BY CoreAssumption DEF LInv, NodeKept, Held, Node, Core, Ages, PlantKept, PlantTyped
<1>2. /\ f \in Frame
      /\ f.moving => c.mode # "Idle" /\ c.commandAge <= Watch
      /\ ~f.moving => \A a \in Axes : f.mode[a] = "SPEED" /\ f.speed[a] = 0
  BY <1>1, TickMoving DEF Watch
<1>3. ASSUME TheConfig.enforceLimits, NEW a \in Axes, NEW side \in Sides, f.mode[a] # "SPEED"
      PROVE  Beyond(side, a, BoardValue(a, f.angle[a])) <= 0
  BY <1>1, <1>3, TickAims
<1>4. ASSUME TheConfig.enforceLimits, NEW a \in Axes, NEW side \in Sides,
             ~strayed, f.mode[a] = "SPEED", Outward(side, BoardValue(a, f.speed[a]))
      PROVE  Out(side, a) <= Far(1 + Fresh + jumped) - 1
  <2> DEFINE m == 1 + Age
             n == 1 + Fresh + jumped
             x == Out(side, a)
             y == Beyond(side, a, c.continuous[a])
  <2>1. c.angleValid /\ c.telemetryAge <= Fresh /\ y <= -1
    BY <1>1, <1>4, TickOutward DEF Fresh
  <2>2. /\ Fresh \in Int /\ MaxAge - JumpMax > Fresh /\ Age \in Int /\ Age = c.telemetryAge + jumped
        /\ y \in Int
    <3>1. c.continuous[a] \in Int
      BY <1>1 DEF Core
    <3> QED
      BY <1>1, <3>1, TimeFacts, AxisFacts DEF Fresh, Age, Beyond
  <2>3. Age < MaxAge /\ m <= n /\ m \in Int /\ n \in Int
    BY <1>1, <2>1, <2>2
  <2>4. x \in Int
    <3>1. camera \in [Axes -> Stops]
      BY DEF LInv, PlantKept, PlantTyped
    <3>2. RosAngles(camera)[a] = BoardValue(a, camera[a]) /\ Beyond(side, a, RosAngles(camera)[a]) \in Int
      BY <3>1, RosAnglesAt
    <3> QED
      BY <3>2 DEF Out
  <2>5. TrackNear(side, a)
    BY <1>4 DEF LInv, Near, NearAt
  <2>6. x <= Far(m) - 1 \/ x <= y + Far(m)
    BY <2>1, <2>3, <2>5 DEF TrackNear
  <2>7. Far(m) \in Int /\ Far(n) \in Int /\ Far(m) <= Far(n)
    BY <2>3, FarFacts
  <2> HIDE DEF m, n, x, y
  <2>8. x <= Far(n) - 1
    BY <2>1, <2>2, <2>4, <2>6, <2>7
  <2> QED
    BY <2>8 DEF x, n
<1> QED
  BY <1>2, <1>3, <1>4 DEF Judged

(* The loss of the link takes the command and the track with it.           *)
LEMMA LostMoves ==
  ASSUME NEW s, Held(s), NEW told \in BOOLEAN
  PROVE  LET r == NoteLinkLost(s)
         IN  /\ Moves(s, r, told) /\ r.retryIn = ReconnectDelay
             /\ ~r.open /\ r.board = s.board
<1> DEFINE r == NoteLinkLost(s)
<1>1. s \in Node /\ s.core \in Core
  BY DEF Held, Node
<1>2. /\ Held(r) /\ ~r.open /\ r.core = SetLinkUp(s.core, FALSE)
      /\ r.calib = s.calib /\ r.traj = s.traj /\ r.board = s.board
  BY LinkLostHeld
<1>3. r.retryIn = ReconnectDelay
  BY <1>1 DEF NoteLinkLost, Closed, Node
<1> HIDE DEF r
<1>4. Onward(s.core, r.core, told)
  BY <1>1, <1>2, GatesOnward
<1>5. Moves(s, r, told)
  BY <1>1, <1>2, <1>3, <1>4, MovesOf
<1> QED
  BY <1>2, <1>3, <1>5 DEF r

(* Both request timers keep the invariant.                                 *)
LEMMA RequestKeeps ==
  ASSUME LInv, NEW ok \in BOOLEAN, TelemetryTick(ok) \/ BoardInfoTick(ok), SendsNothing(FALSE)
  PROVE  LInv'
<1>0. Held(node) /\ Life(node) /\ node \in Node
  BY DEF LInv, NodeKept, Held
<1>1. node.life = "active" /\ (node' = node \/ node' = NoteLinkLost(node))
  BY DEF TelemetryTick, BoardInfoTick, Active, Keeps, Becomes
<1>2. CASE node' = node
  <2>1. Lawful(node, node)
    BY <1>0, <1>1, RequestLawful
  <2>2. Moves(node, node, FALSE)
    BY <1>0, OnwardSame, MovesOf
  <2> QED
    BY <1>2, <2>1, <2>2, SilentKeeps
<1>3. CASE node' = NoteLinkLost(node)
  <2> DEFINE r == NoteLinkLost(node)
  <2>1. Lawful(node, r)
    BY <1>0, <1>1, RequestLawful
  <2>2. Moves(node, r, FALSE) /\ r.board = node.board
    BY <1>0, LostMoves
  <2>3. node' = r
    BY <1>3
  <2> HIDE DEF r
  <2> QED
    BY <2>1, <2>2, <2>3, SilentKeeps
<1> QED
  BY <1>1, <1>2, <1>3

(* The goals' turn at the end of a tick, no calibration running: it adds   *)
(* the command of a trajectory to what the tick has made of the node.      *)
LEMMA GoalsTurn ==
  ASSUME NEW n \in Node, n.calib.phase = "Idle", NEW m, Held(m),
         m.traj = n.traj, m.calib.phase = "Idle",
         m.retryIn \in {n.retryIn, ReconnectDelay},
         Pending(n.core, m.core, n.traj.active)
  PROVE  LET r == Goals(m, TRUE, TRUE)
         IN  /\ Delays(n, r) /\ Pending(n.core, r.core, n.traj.active)
             /\ Tracked(m.core, r.core) /\ Track(r.core) = Track(m.core)
             /\ r.board = m.board
<1> DEFINE r == TrajTick(m)
<1>1. Goals(m, TRUE, TRUE) = r
  BY DEF Goals, CalibTick
<1>2. n.traj.active \in BOOLEAN
  BY DEF Node, Traj
<1>3. Onward(m.core, r.core, n.traj.active) /\ r.traj.left \in {n.traj.left, 0}
  BY TrajTickMoves
<1>4. /\ Port(r) = Port(m) /\ r.calib = m.calib /\ r.board = m.board
      /\ Track(r.core) = Track(m.core)
  BY TrajTickSteps DEF TrajStep
<1> HIDE DEF r
<1>5. Pending(n.core, r.core, n.traj.active)
  BY <1>2, <1>3, OnwardChains DEF Onward
<1>6. Delays(n, r)
  BY <1>3, <1>4, DelaysOf DEF Port
<1>7. Tracked(m.core, r.core)
  BY <1>3 DEF Onward
<1> QED
  BY <1>1, <1>4, <1>5, <1>6, <1>7

(* A tick that sends nothing finds a board at rest, or one that was left   *)
(* turning before, or has just lost the link to it.                        *)
LEMMA UnsentIsAdrift ==
  ASSUME LInv, NEW frame, NEW told, node.life = "active", ~node'.open \/ ~node.open,
         Obeys(frame, FALSE, told)
  PROVE  ~order.moving \/ adrift'
<1>1. order' = order
  BY DEF Obeys
<1>2. adrift' = (order.moving /\ (~node'.open \/ node'.life # "active" \/ adrift))
  BY <1>1 DEF Obeys
<1>3. order.moving => adrift \/ node.open
  BY DEF LInv, Attended
<1> QED
  BY <1>2, <1>3

(* What LoopControlTick counts as a command of the trajectory.             *)
Commanded == node.traj.active /\ node'.core.mode # "Idle"

(* The control timer with the port shut keeps the invariant ...            *)
LEMMA ClosedKeeps ==
  ASSUME LInv, NEW ok \in BOOLEAN, node.life = "active", ~node.open,
         node' = TickWhileClosed(node, ok, TRUE, TRUE),
         Obeys(Tick(node.core), FALSE, Commanded), reply' = None, ticked' = TRUE
  PROVE  LInv'
<1> DEFINE told == node.traj.active
           m == IF node.retryIn > 0 THEN node
                ELSE IF ok THEN TryConnect(node, TRUE)
                ELSE [TryConnect(node, FALSE) EXCEPT !.retryIn = ReconnectDelay]
           r == Goals(m, TRUE, TRUE)
<1>0. /\ Held(node) /\ Life(node) /\ node \in Node /\ node.core \in Core
      /\ node.calib.phase = "Idle"
  BY DEF LInv, NodeKept, Held, Node
<1>1. TickWhileClosed(node, ok, TRUE, TRUE) = r
  BY DEF TickWhileClosed
<1>2. told \in BOOLEAN
  BY <1>0 DEF Node, Traj
<1> HIDE DEF told
<1> DEFINE P(q) == /\ Held(q) /\ q.traj = node.traj /\ q.calib.phase = "Idle"
                   /\ q.retryIn \in {node.retryIn, ReconnectDelay}
                   /\ Onward(node.core, q.core, told) /\ q.board = node.board
<1>3. P(node)
  BY <1>0, <1>2, OnwardSame
<1>4. P(TryConnect(node, TRUE))
  <2> DEFINE q == TryConnect(node, TRUE)
  <2>1. /\ Held(q) /\ q.retryIn = node.retryIn /\ q.core = SetLinkUp(node.core, TRUE)
        /\ q.calib = node.calib /\ q.traj = node.traj /\ q.board = node.board
    BY <1>0, ConnectHeld
  <2>2. Onward(node.core, q.core, told)
    BY <1>0, <1>2, <2>1, GatesOnward
  <2> HIDE DEF q
  <2>3. P(q)
    BY <1>0, <2>1, <2>2
  <2> QED
    BY <2>3 DEF q
<1>5. P(NoteLinkLost(node))
  <2> DEFINE q == NoteLinkLost(node)
  <2>1. /\ Held(q) /\ q.calib = node.calib /\ q.traj = node.traj /\ q.board = node.board
    BY <1>0, LinkLostHeld
  <2>2. Moves(node, q, told) /\ q.retryIn = ReconnectDelay
    BY <1>0, <1>2, LostMoves
  <2> HIDE DEF q
  <2>3. P(q)
    BY <1>0, <2>1, <2>2 DEF Moves
  <2> QED
    BY <2>3 DEF q
<1>6. P(m)
  <2>1. [TryConnect(node, FALSE) EXCEPT !.retryIn = ReconnectDelay] = NoteLinkLost(node)
    BY DEF TryConnect, NoteLinkLost
  <2>2. m \in {node, TryConnect(node, TRUE), NoteLinkLost(node)}
    BY <2>1
  <2> HIDE DEF m, P
  <2> QED
    BY <1>3, <1>4, <1>5, <2>2
<1> HIDE DEF m
<1>7. /\ Delays(node, r) /\ Pending(node.core, r.core, told) /\ Tracked(m.core, r.core)
      /\ r.board = m.board
  <2>1. Pending(node.core, m.core, node.traj.active)
    BY <1>6 DEF Onward, told
  <2> QED
    BY <1>0, <1>6, <2>1, GoalsTurn DEF told
<1>8. Lawful(node, r)
  <2>1. Ticked(node, r)
    BY <1>0, <1>1, ClosedTicks
  <2> HIDE DEF r
  <2> QED
    BY <1>0, <2>1, ControlTickLawful
<1>9. node' = r
  BY <1>1
<1> HIDE DEF r
<1>10. Tracked(node.core, r.core)
  BY <1>2, <1>6, <1>7, OnwardChains DEF Onward
<1>11. r.board.turning = node.board.turning
  BY <1>6, <1>7
<1>12. ~order.moving \/ adrift'
  BY UnsentIsAdrift
<1>13. Pending(node.core, r.core, Commanded) /\ Commanded \in BOOLEAN
  BY <1>2, <1>7, <1>9, PendingCounts DEF Commanded, told
<1>14. Acted(r, Tick(node.core), FALSE, Commanded)
  BY <1>7, <1>8, <1>9, <1>10, <1>11, <1>12, <1>13 DEF Acted
<1> QED
  BY <1>13, <1>14, ActedKeeps

(* ... and so does one whose frame, or the read after it, fails ...        *)
LEMMA FailedKeeps ==
  ASSUME LInv, node.life = "active", node.open, NEW poll,
         node' = TickWhileOpen(node, FALSE, poll, TRUE, TRUE), poll.kind = "error",
         Obeys(Tick(node.core), FALSE, Commanded), reply' = None, ticked' = TRUE
  PROVE  LInv'
<1> DEFINE told == node.traj.active
           r == NoteLinkLost(node)
<1>0. /\ Held(node) /\ Life(node) /\ node \in Node /\ node.calib.phase = "Idle"
  BY DEF LInv, NodeKept, Held
<1>1. TickWhileOpen(node, FALSE, poll, TRUE, TRUE) = r
  <2>1. SendControl(node, Tick(node.core), FALSE) = node
    BY DEF SendControl
  <2> QED
    BY <1>0, <2>1 DEF TickWhileOpen
<1>2. told \in BOOLEAN
  BY <1>0 DEF Node, Traj
<1>3. Moves(node, r, told) /\ ~r.open /\ r.board = node.board
  BY <1>0, <1>2, LostMoves
<1>4. Lawful(node, r)
  <2>1. Ticked(node, r)
    BY <1>0, LostBegins, BeganTicked
  <2> HIDE DEF r
  <2> QED
    BY <1>0, <2>1, ControlTickLawful
<1>5. node' = r
  BY <1>1
<1> HIDE DEF r
<1>6. ~order.moving \/ adrift'
  BY <1>3, <1>5, UnsentIsAdrift
<1>7. Pending(node.core, r.core, Commanded) /\ Commanded \in BOOLEAN
  BY <1>2, <1>3, <1>5, PendingCounts DEF Commanded, Moves, Onward
<1>8. Acted(r, Tick(node.core), FALSE, Commanded)
  BY <1>3, <1>4, <1>5, <1>6, <1>7 DEF Acted, Moves, Onward
<1> QED
  BY <1>7, <1>8, ActedKeeps

(* ... and one whose frame arrives, with a reply or without.               *)
LEMMA SentTickKeeps ==
  ASSUME LInv, node.life = "active", node.open, NEW poll,
         poll = IF reply = None THEN [kind |-> "nothing"]
                ELSE [kind |-> "reply", angle |-> RosAngles(reply)],
         node' = TickWhileOpen(node, TRUE, poll, TRUE, TRUE),
         Obeys(Tick(node.core), TRUE, Commanded), reply' = None, ticked' = TRUE
  PROVE  LInv'
<1> DEFINE told == node.traj.active
           f == Tick(node.core)
           m == SendControl(node, f, TRUE)
           w == RosAngles(reply)
           k == IF reply = None THEN m ELSE Received(m, w)
           r == Goals(k, TRUE, TRUE)
<1>0. /\ Held(node) /\ Life(node) /\ node \in Node /\ node.core \in Core
      /\ node.calib.phase = "Idle"
  BY DEF LInv, NodeKept, Held, Node
<1>1. TickWhileOpen(node, TRUE, poll, TRUE, TRUE) = r
  <2>1. CASE reply = None
    <3>1. poll.kind = "nothing"
      BY <2>1
    <3> QED
      BY <1>0, <2>1, <3>1 DEF TickWhileOpen
  <2>2. CASE reply # None
    <3>1. poll.kind = "reply" /\ poll.angle = w
      BY <2>2
    <3> QED
      BY <1>0, <2>2, <3>1 DEF TickWhileOpen
  <2> QED
    BY <2>1, <2>2
<1>2. told \in BOOLEAN
  BY <1>0 DEF Node, Traj
<1>3. reply # None => w \in [Axes -> Int]
  <2>1. SUFFICES ASSUME reply # None PROVE w \in [Axes -> Int]
    OBVIOUS
  <2>2. reply \in [Axes -> Int]
    BY <2>1, LoopAssumption DEF LInv, PlantKept, PlantTyped
  <2> QED
    BY <2>2 DEF RosAngles
<1>4. Commanded \in BOOLEAN /\ Judged(f, Commanded)
  BY <1>2, TickJudged DEF Commanded, told
<1> HIDE DEF told, w
<1>5. Lawful(node, r)
  <2>1. poll.kind = "reply" => poll.angle \in [Axes -> Int]
    BY <1>3 DEF w
  <2>2. Ticked(node, TickWhileOpen(node, TRUE, poll, TRUE, TRUE))
    BY <1>0, <2>1, OpenTicks
  <2> HIDE DEF r
  <2>3. Ticked(node, r)
    BY <1>1, <2>2
  <2> QED
    BY <1>0, <2>3, ControlTickLawful
<1>6. /\ Held(m) /\ m.core = node.core /\ m.calib = node.calib /\ m.traj = node.traj
      /\ Port(m) = Port(node) /\ m.board.turning = f.moving
  <2>1. Held(m)
    BY <1>0, FrameBegins DEF Began
  <2>2. f.moving \in BOOLEAN
    BY MovingIsPermitted
  <2> HIDE DEF f
  <2>3. ASSUME NEW ok \in BOOLEAN
        PROVE  LET q == SendControl(node, f, ok)
               IN  /\ q.core = node.core /\ q.calib = node.calib /\ q.traj = node.traj
                   /\ Port(q) = Port(node)
                   /\ q.board.turning = IF node.open /\ ok THEN f.moving
                                        ELSE node.board.turning
    BY <1>0, <2>2, SendEffect, SendTurns
  <2> QED
    BY <2>1, <2>3
<1> HIDE DEF m, f
<1>7. /\ Held(k) /\ k.traj = node.traj /\ k.calib.phase = "Idle"
      /\ k.retryIn = node.retryIn /\ k.board = m.board
      /\ Pending(node.core, k.core, told)
      /\ IF reply = None THEN Tracked(node.core, k.core)
         ELSE k.core.telemetryAge = 0 /\ k.core.continuous = RosAngles(reply)
  <2>1. CASE reply = None
    <3>1. k = m /\ Onward(node.core, node.core, told)
      BY <1>2, <2>1, OnwardSame
    <3> HIDE DEF k
    <3> QED
      BY <1>0, <1>6, <2>1, <3>1 DEF Onward, Port
  <2>2. CASE reply # None
    <3> DEFINE q == Received(m, w)
    <3>1. /\ Held(q) /\ q.core.mode = m.core.mode /\ q.traj = m.traj
          /\ q.board = m.board /\ q.calib.phase = m.calib.phase
      BY <1>3, <1>6, <2>2, ReceivedHeld
    <3>2. q.retryIn = m.retryIn
      BY <1>6 DEF Received, Held, Node
    <3>3. q.core.commandAge = m.core.commandAge
      <4>1. m \in Node /\ m.core \in Core
        BY <1>6 DEF Held, Node
      <4>2. q.core = OnTelemetry(m.core, [valid |-> TRUE, angle |-> w, age |-> 0])
        BY <4>1 DEF Received, Node
      <4> QED
        BY <4>1, <4>2 DEF OnTelemetry, Core
    <3>4. q.core.telemetryAge = 0 /\ q.core.continuous = RosAngles(reply)
      BY <1>6, <2>2, ReceivedSamples DEF Held, w
    <3>5. k = q
      BY <2>2
    <3> HIDE DEF q, k
    <3>6. Pending(node.core, q.core, told)
      BY <1>6, <3>1, <3>3 DEF Pending
    <3> QED
      BY <1>0, <1>6, <2>2, <3>1, <3>2, <3>4, <3>5, <3>6 DEF Port
  <2> QED
    BY <2>1, <2>2
<1> HIDE DEF k
<1>8. /\ Delays(node, r) /\ Pending(node.core, r.core, told)
      /\ Tracked(k.core, r.core) /\ Track(r.core) = Track(k.core)
      /\ r.board = k.board
  <2>1. Pending(node.core, k.core, node.traj.active)
    BY <1>7 DEF told
  <2> QED
    BY <1>0, <1>7, <2>1, GoalsTurn DEF told
<1>9. node' = r
  BY <1>1
<1> HIDE DEF r
<1>10. Tracked(node.core, r.core) \/ Sampled(r.core)
  <2>1. CASE reply = None
    BY <1>2, <1>7, <1>8, <2>1, OnwardChains
  <2>2. CASE reply # None
    <3>1. r.core.telemetryAge = k.core.telemetryAge /\ r.core.continuous = k.core.continuous
      BY <1>8 DEF Track
    <3> QED
      BY <1>7, <2>2, <3>1 DEF Sampled
  <2> QED
    BY <2>1, <2>2
<1>11. r.board.turning = f.moving
  BY <1>6, <1>7, <1>8
<1>12. Obeys(f, TRUE, Commanded)
  BY DEF f
<1>13. Pending(node.core, r.core, Commanded)
  BY <1>2, <1>8, <1>9, PendingCounts DEF Commanded, told
<1>14. Acted(r, f, TRUE, Commanded)
  BY <1>4, <1>5, <1>8, <1>9, <1>10, <1>11, <1>12, <1>13 DEF Acted
<1> QED
  BY <1>4, <1>14, ActedKeeps

(* Every timer keeps the invariant.                                        *)
LEMMA TimersKeep ==
  ASSUME LInv, LoopTimers PROVE LInv'
<1>1. ASSUME NEW ok \in BOOLEAN, TelemetryTick(ok) \/ BoardInfoTick(ok), SendsNothing(FALSE)
      PROVE  LInv'
  BY <1>1, RequestKeeps
<1>2. ASSUME LoopControlTick PROVE LInv'
  <2> DEFINE poll == IF reply = None THEN [kind |-> "nothing"]
                     ELSE [kind |-> "reply", angle |-> RosAngles(reply)]
  <2>1. PICK ok \in BOOLEAN :
          /\ ControlTickOf(node, ok, IF ok THEN poll ELSE [kind |-> "error"], TRUE, TRUE)
          /\ Obeys(Tick(node.core), node.open /\ ok, Commanded)
          /\ reply' = None /\ ticked' = TRUE
    BY <1>2 DEF LoopControlTick, Commanded
  <2> DEFINE got == IF ok THEN poll ELSE [kind |-> "error"]
  <2>2. /\ node.life = "active"
        /\ node' = IF node.open THEN TickWhileOpen(node, ok, got, TRUE, TRUE)
                                ELSE TickWhileClosed(node, ok, TRUE, TRUE)
    BY <2>1 DEF ControlTickOf, Active, Keeps, Becomes
  <2>3. node.open \in BOOLEAN
    BY DEF LInv, NodeKept, Held, Node
  <2>4. CASE ~node.open
    <3>1. (node.open /\ ok) = FALSE
      BY <2>3, <2>4
    <3> QED
      BY <2>1, <2>2, <2>4, <3>1, ClosedKeeps
  <2>5. CASE node.open /\ ok = FALSE
    <3>1. (node.open /\ ok) = FALSE /\ got.kind = "error"
      BY <2>5
    <3>2. node' = TickWhileOpen(node, FALSE, got, TRUE, TRUE)
      BY <2>2, <2>5
    <3> HIDE DEF got
    <3> QED
      BY <2>1, <2>2, <2>5, <3>1, <3>2, FailedKeeps
  <2>6. CASE node.open /\ ok = TRUE
    <3>1. (node.open /\ ok) = TRUE /\ got = poll
      BY <2>6
    <3>2. node' = TickWhileOpen(node, TRUE, poll, TRUE, TRUE)
      BY <2>2, <2>6, <3>1
    <3>3. Obeys(Tick(node.core), TRUE, Commanded)
      BY <2>1, <3>1
    <3> QED
      BY <2>1, <2>2, <2>6, <3>2, <3>3, SentTickKeeps
  <2> QED
    BY <2>3, <2>4, <2>5, <2>6
<1> QED
  BY <1>1, <1>2 DEF LoopTimers

-----------------------------------------------------------------------------
(* Time. *)

(* How far out an axis gets in one unit of time: no further than its pace  *)
(* allows, and no further than it is where it is turned inward or not at   *)
(* all, or than the angle it is sent to.                                   *)
LEMMA ReachesBounds ==
  ASSUME PlantTyped, NEW a \in Axes, NEW side \in Sides, NEW y \in Reaches(a)
  PROVE  LET x == Beyond(side, a, BoardValue(a, y))
         IN  /\ y \in Stops /\ x \in Int /\ Out(side, a) \in Int
             /\ x <= Out(side, a) + Pace
             /\ order.mode[a] = "SPEED" /\ ~Outward(side, BoardValue(a, order.speed[a]))
                  => x <= Out(side, a)
             /\ order.mode[a] = "SPEED" /\ order.speed[a] = 0 => y = camera[a]
             /\ order.mode[a] # "SPEED" =>
                  \/ x <= Out(side, a)
                  \/ x <= Beyond(side, a, BoardValue(a, order.angle[a]))
<1> DEFINE at == camera[a]
           v == order.speed[a]
           g == order.angle[a]
           p == order.mode[a] = "SPEED"
           t == IF p THEN at + v ELSE g
<1>1. /\ at \in Int /\ v \in Int /\ g \in Int /\ t \in Int
      /\ TheConfig.limitMin[a] \in Int /\ TheConfig.limitMax[a] \in Int /\ Pace \in Int
  <2>1. v \in Int /\ g \in Int
    BY DEF PlantTyped, Frame
  <2>2. at \in Int
    BY LoopAssumption DEF PlantTyped
  <2> QED
    BY <2>1, <2>2, AxisFacts
<1>2. /\ y \in Stops /\ Magnitude(y - at) <= Pace
      /\ y \in (at .. t) \cup (t .. at)
  BY DEF Reaches
<1>3. y \in Int
  BY <1>2, LoopAssumption
<1>4. y - at <= Pace /\ at - y <= Pace
  BY <1>1, <1>2, <1>3, CoreAssumption DEF Magnitude, Lt, Neg
<1>5. (at <= y /\ y <= t) \/ (t <= y /\ y <= at)
  BY <1>1, <1>2, <1>3
<1>6. Out(side, a) = Beyond(side, a, BoardValue(a, at))
  BY DEF Out
<1> HIDE DEF at, v, g, t, p
<1> DEFINE x == Beyond(side, a, BoardValue(a, y))
           o == Beyond(side, a, BoardValue(a, at))
           e == Beyond(side, a, BoardValue(a, g))
<1>7. x \in Int /\ o \in Int /\ e \in Int /\ x <= o + Pace
  BY <1>1, <1>3, <1>4 DEF Beyond, BoardValue
<1>8. p /\ ~Outward(side, BoardValue(a, v)) => x <= o
  BY <1>1, <1>3, <1>5 DEF Beyond, BoardValue, Outward, Sides, t
<1>9. p /\ v = 0 => y = at
  BY <1>1, <1>3, <1>5 DEF t
<1>10. ~p => x <= o \/ x <= e
  BY <1>1, <1>3, <1>5 DEF Beyond, BoardValue, t
<1> HIDE DEF x, o, e
<1> QED
  BY <1>2, <1>6, <1>7, <1>8, <1>9, <1>10 DEF x, o, e, p, v, g, at

(* What a unit of time leaves of the node.                                 *)
LaterOnly(n, r) ==
  /\ r.core.mode = n.core.mode /\ r.core.cfg = n.core.cfg
  /\ r.core.angleValid = n.core.angleValid
  /\ r.core.haveContinuous = n.core.haveContinuous
  /\ r.core.continuous = n.core.continuous
  /\ r.core.commandAge = Older(n.core.commandAge)
  /\ r.core.telemetryAge = Older(n.core.telemetryAge)
  /\ r.retryIn <= n.retryIn \/ r.retryIn = 0
  /\ r.traj.left <= n.traj.left
  /\ r.calib.phase = n.calib.phase
  /\ r.open = n.open /\ r.life = n.life /\ r.board = n.board

(* Only ages and delays change.                                            *)
LEMMA LaterLeaves ==
  ASSUME NEW n, Held(n) PROVE LaterOnly(n, Later(n))
<1> DEFINE c == Aged(n.core)
           w == IF n.retryIn > 0 THEN n.retryIn - 1 ELSE 0
           g == LaterCalib(n.calib)
           h == LaterTraj(n.traj)
           r == Later(n)
<1>1. /\ n \in Node /\ n.core \in Core /\ n.calib \in Calib /\ n.traj \in Traj
      /\ n.retryIn \in 0 .. ReconnectDelay + JumpMax
  BY DEF Held, Node
<1>2. /\ c.mode = n.core.mode /\ c.cfg = n.core.cfg
      /\ c.angleValid = n.core.angleValid /\ c.haveContinuous = n.core.haveContinuous
      /\ c.continuous = n.core.continuous
      /\ c.commandAge = Older(n.core.commandAge)
      /\ c.telemetryAge = Older(n.core.telemetryAge)
  BY <1>1 DEF Aged, Core
<1>3. w <= n.retryIn \/ w = 0
  BY <1>1, CoreAssumption, DriverAssumption
<1>4. g.phase = n.calib.phase
  BY <1>1, LaterCalibType
<1>5. h.left <= n.traj.left
  <2>1. n.traj.left \in Int
    BY <1>1, CoreAssumption, DriverAssumption DEF Traj
  <2>2. h.left = IF n.traj.handle /\ n.traj.left >= 0 THEN n.traj.left - 1 ELSE n.traj.left
    BY <1>1 DEF LaterTraj, Traj
  <2> HIDE DEF h
  <2> QED
    BY <2>1, <2>2
<1> HIDE DEF c, w, g, h
<1>6. /\ r.core = c /\ r.retryIn = w /\ r.calib = g /\ r.traj = h
      /\ r.open = n.open /\ r.life = n.life /\ r.board = n.board
  BY <1>1 DEF Later, Node, c, w, g, h
<1> HIDE DEF r
<1>7. LaterOnly(n, r)
  BY <1>2, <1>3, <1>4, <1>5, <1>6 DEF LaterOnly
<1> QED
  BY <1>7 DEF r

(* Time keeps what the node is ...                                         *)
LEMMA AdvanceNode ==
  ASSUME LInv, LoopAdvance PROVE NodeKept' /\ LaterOnly(node, node')
<1>0. NodeKept /\ Held(node) /\ Life(node) /\ node \in Node /\ jumped \in Nat
  BY CoreAssumption DEF LInv, NodeKept, Held, PlantKept, PlantTyped
<1>1. node' = Later(node) /\ jumped' = jumped
  BY DEF LoopAdvance, Advance, Keeps, Becomes
<1>2. Held(node') /\ Life(node')
  BY <1>0, <1>1, LaterLawful DEF Lawful
<1>3. LaterOnly(node, node')
  BY <1>0, <1>1, LaterLeaves
<1>4. /\ node.core.commandAge \in -jumped .. MaxAge
      /\ node.core.telemetryAge \in -jumped .. MaxAge
  BY <1>0 DEF NodeKept
<1>5. /\ node'.core.commandAge \in -jumped .. MaxAge
      /\ node'.core.telemetryAge \in -jumped .. MaxAge
  BY <1>0, <1>3, <1>4, CoreAssumption DEF LaterOnly, Older
<1>6. /\ node.retryIn \in Int /\ node'.retryIn \in Int
      /\ node.traj.left \in Int /\ node'.traj.left \in Int
      /\ ReconnectDelay \in Nat /\ MaxTravel \in Int
  BY <1>0, <1>2, CoreAssumption, DriverAssumption DEF Held, Node, Traj
<1>7. node'.retryIn <= ReconnectDelay + jumped
  BY <1>0, <1>3, <1>6 DEF NodeKept, LaterOnly
<1>8. node'.traj.left <= MaxTravel + jumped
  BY <1>0, <1>3, <1>6 DEF NodeKept, LaterOnly
<1>9. node'.core.cfg = TheConfig /\ node'.calib.phase = "Idle"
  BY <1>0, <1>3 DEF NodeKept, LaterOnly
<1> QED
  BY <1>1, <1>2, <1>3, <1>5, <1>7, <1>8, <1>9 DEF NodeKept

(* ... and what the plant is, and who looks on.                            *)
LEMMA AdvancePlant ==
  ASSUME LInv, LoopAdvance, LaterOnly(node, node')
  PROVE  PlantKept' /\ Attended' /\ TrackInside' /\ AimInside'
<1>0. PlantKept /\ PlantTyped /\ Attended /\ NodeKept /\ AimInside /\ TrackInside
  BY DEF LInv, PlantKept
<1>1. /\ order' = order /\ reply' = reply /\ jumped' = jumped /\ adrift' = adrift
      /\ ticked' = FALSE /\ quiet' = Capped(quiet, QuietMax)
      /\ strayed' = (adrift \/ (strayed /\ ~Inside(RosAngles(camera'), TheConfig)))
      /\ camera' \in [Axes -> Stops] /\ (node.life = "active" => ticked)
  BY DEF LoopAdvance, Active
<1>2. quiet \in 0 .. QuietMax /\ QuietMax \in Nat /\ jumped \in Nat
  BY <1>0, TimeFacts, CoreAssumption DEF PlantTyped
<1>3. quiet' \in 0 .. QuietMax /\ quiet' <= quiet + 1
  BY <1>1, <1>2 DEF Capped
<1>4. PlantKept'
  <2>1. adrift' \in BOOLEAN /\ strayed' \in BOOLEAN
    BY <1>0, <1>1 DEF PlantTyped
  <2>2. PlantTyped'
    BY <1>0, <1>1, <1>3, <2>1 DEF PlantTyped
  <2>3. order'.moving <=> node'.board.turning
    BY <1>0, <1>1 DEF PlantKept, LaterOnly
  <2> QED
    BY <1>0, <1>1, <2>2, <2>3 DEF PlantKept
<1>5. Attended'
  <2>1. order'.moving => adrift' \/ (node'.open /\ node'.life = "active")
    BY <1>0, <1>1 DEF Attended, LaterOnly
  <2>2. node'.core.mode # "Idle" => \/ quiet' <= node'.core.commandAge + jumped'
                                    \/ node'.core.commandAge >= MaxAge - jumped'
    <3>1. /\ node.core.commandAge \in -jumped .. MaxAge
          /\ node'.core.commandAge = Older(node.core.commandAge)
      BY <1>0 DEF NodeKept, LaterOnly
    <3>2. node'.core.mode = node.core.mode
      BY DEF LaterOnly
    <3> DEFINE x == node.core.commandAge
               y == node'.core.commandAge
    <3>3. node.core.mode # "Idle" => quiet <= x + jumped \/ x >= MaxAge - jumped
      BY <1>0 DEF Attended
    <3>4. y = IF x < MaxAge THEN x + 1 ELSE x
      BY <3>1 DEF Older
    <3>5. x \in Int /\ x <= MaxAge /\ MaxAge \in Int
      BY <1>2, <3>1, CoreAssumption
    <3> HIDE DEF x, y
    <3>6. quiet <= x + jumped \/ x >= MaxAge - jumped
            => quiet' <= y + jumped \/ y >= MaxAge - jumped
      BY <1>2, <1>3, <3>4, <3>5
    <3> QED
      BY <1>1, <3>2, <3>3, <3>6 DEF y
  <2>3. order'.moving /\ ~adrift' => quiet' <= Watch + jumped' + Period'
    <3>1. SUFFICES ASSUME order.moving, ~adrift PROVE quiet' <= Watch + jumped + 1
      BY <1>1 DEF Period
    <3>2. ticked
      BY <1>0, <1>1, <3>1 DEF Attended
    <3>3. quiet <= Watch + jumped + 0
      BY <1>0, <3>1, <3>2 DEF Attended, Period
    <3> QED
      BY <1>2, <1>3, <3>3, TimeFacts DEF Watch
  <2> QED
    BY <2>1, <2>2, <2>3 DEF Attended
<1>6. TrackInside'
  BY <1>0 DEF TrackInside, LaterOnly
<1>7. AimInside'
  BY <1>0, <1>1 DEF AimInside
<1> QED
  BY <1>4, <1>5, <1>6, <1>7

(* ... and how far out the camera may be: it has come no further than its  *)
(* pace allows, and the bounds have grown by as much.                      *)
LEMMA AdvanceNear ==
  ASSUME LInv, LoopAdvance, LaterOnly(node, node'), NodeKept', PlantKept',
         TheConfig.enforceLimits, ~strayed'
  PROVE  Near'
<1>0. PlantKept /\ PlantTyped /\ Attended /\ NodeKept /\ AimInside
  BY DEF LInv, PlantKept
<1>1. /\ order' = order /\ reply' = reply /\ jumped' = jumped
      /\ ticked' = FALSE /\ (node.life = "active" => ticked)
      /\ strayed' = (adrift \/ (strayed /\ ~Inside(RosAngles(camera'), TheConfig)))
      /\ camera' \in [Axes -> Stops] /\ \A a \in Axes : camera'[a] \in Reaches(a)
  BY DEF LoopAdvance, Active
<1>2. ~adrift /\ (~strayed \/ Inside(RosAngles(camera'), TheConfig))
  BY <1>1
<1>3. /\ jumped \in Nat /\ Fresh \in Nat /\ MaxAge \in Int /\ Pace \in Nat
      /\ node.core.telemetryAge \in Int /\ -jumped <= node.core.telemetryAge
      /\ node'.core.telemetryAge \in Int /\ -jumped <= node'.core.telemetryAge
  BY <1>0, <1>1, TimeFacts, CoreAssumption, LoopAssumption
     DEF PlantTyped, NodeKept, Fresh
<1>4. SUFFICES ASSUME NEW a \in Axes, NEW side \in Sides PROVE NearAt(side, a)'
  BY DEF Near
<1> DEFINE x == Out(side, a)
           z == Beyond(side, a, BoardValue(a, camera'[a]))
           n == 2 + Fresh + jumped
<1>5. Out(side, a)' = z
  BY DEF Out
<1>6. /\ z \in Int /\ x \in Int /\ z <= x + Pace
      /\ order.mode[a] = "SPEED" /\ ~Outward(side, BoardValue(a, order.speed[a])) => z <= x
      /\ order.mode[a] = "SPEED" /\ order.speed[a] = 0 => camera'[a] = camera[a]
      /\ order.mode[a] # "SPEED" =>
           z <= x \/ z <= Beyond(side, a, BoardValue(a, order.angle[a]))
  BY <1>0, <1>1, ReachesBounds
<1>7. n \in Int /\ n >= 1 /\ Far(n) \in Int /\ Far(n) - 1 >= 0
  BY <1>3, FarPositive
<1>8. CASE Inside(RosAngles(camera'), TheConfig)
  <2>1. z <= 0
    BY <1>1, <1>8, RosAnglesAt
  <2>2. ReplyNear(side, a)'
    BY <1>5, <2>1 DEF ReplyNear
  <2>3. TrackNear(side, a)'
    <3>1. Age' \in Int /\ Age' >= 0
      BY <1>1, <1>3 DEF Age
    <3>2. Far(1 + Age') \in Int /\ Far(1 + Age') - 1 >= 0
      BY <3>1, FarPositive
    <3>3. z <= Far(1 + Age') - 1
      BY <1>6, <2>1, <3>2
    <3> QED
      BY <1>5, <3>3 DEF TrackNear, Far
  <2>4. z <= Far(n) - 1
    BY <1>6, <1>7, <2>1
  <2>5. OrderNear(side, a)' /\ Within(side, a)'
    <3>1. 1 + Fresh + jumped + 1 = n
      BY <1>3
    <3> QED
      BY <1>1, <1>5, <2>4, <3>1 DEF OrderNear, Within, Period, Far, Fresh
  <2> QED
    BY <2>2, <2>3, <2>5 DEF NearAt
<1>9. CASE ~strayed
  <2>0. NearAt(side, a)
    BY <1>9 DEF LInv, Near
  <2>1. ~ticked => order.mode[a] = "SPEED" /\ order.speed[a] = 0
    BY <1>0, <1>1, <1>2 DEF Attended, PlantKept
  <2>2. ReplyNear(side, a)'
    <3>1. SUFFICES ASSUME reply # None
                   PROVE  z <= 0 \/ z <= Beyond(side, a, RosAngles(reply)[a]) + Pace
      BY <1>1, <1>5 DEF ReplyNear
    <3>2. CASE ticked
      <4>1. reply = camera
        BY <1>0, <3>1, <3>2 DEF PlantKept
      <4>2. RosAngles(camera)[a] = BoardValue(a, camera[a])
        BY <1>0, RosAnglesAt DEF PlantTyped
      <4> QED
        BY <1>6, <4>1, <4>2 DEF Out
    <3>3. CASE ~ticked
      <4>1. z = x
        BY <1>6, <2>1, <3>3 DEF Out
      <4> QED
        BY <2>0, <3>1, <4>1 DEF NearAt, ReplyNear
    <3> QED
      BY <3>2, <3>3
  <2>3. TrackNear(side, a)'
    <3>1. SUFFICES ASSUME node.core.angleValid, Age' < MaxAge
                   PROVE  \/ z <= Far(1 + Age') - 1
                          \/ z <= Beyond(side, a, node.core.continuous[a]) + Far(1 + Age')
      BY <1>5 DEF TrackNear, LaterOnly, Far
    <3> DEFINE m == 1 + Age
               y == Beyond(side, a, node.core.continuous[a])
    <3>2. Age' = Age + 1 /\ Age < MaxAge /\ Age \in Int
      <4>1. node'.core.telemetryAge = IF node.core.telemetryAge < MaxAge
                                      THEN node.core.telemetryAge + 1
                                      ELSE node.core.telemetryAge
        BY DEF LaterOnly, Older
      <4> QED
        BY <1>1, <1>3, <3>1, <4>1 DEF Age
    <3>3. x <= Far(m) - 1 \/ x <= y + Far(m)
      BY <2>0, <3>1, <3>2 DEF NearAt, TrackNear
    <3>4. m \in Int /\ Age' = m /\ 1 + Age' = m + 1
      BY <3>2
    <3>5. y \in Int
      <4>1. node.core.continuous[a] \in Int
        BY <1>0 DEF NodeKept, Held, Node, Core
      <4> QED
        BY <4>1, AxisFacts DEF Beyond
    <3> HIDE DEF m, x, y, z
    <3>6. Far(m) \in Int /\ Far(m + 1) = Far(m) + Pace
      BY <3>4, FarFacts
    <3>7. z <= Far(m + 1) - 1 \/ z <= y + Far(m + 1)
      BY <1>3, <1>6, <3>3, <3>5, <3>6
    <3> QED
      BY <3>4, <3>7 DEF y
  <2>4. OrderNear(side, a)'
    <3>1. SUFFICES ASSUME order.mode[a] = "SPEED",
                          Outward(side, BoardValue(a, order.speed[a]))
                   PROVE  z <= Far(1 + Fresh + jumped + 1) - 1
      BY <1>1, <1>5 DEF OrderNear, Period, Far, Fresh
    <3>2. ticked
      <4>1. ~Outward(side, BoardValue(a, 0))
        BY DEF Outward, BoardValue, Sides
      <4> QED
        BY <2>1, <3>1, <4>1
    <3> DEFINE m == 1 + Fresh + jumped
    <3>3. 1 + Fresh + jumped + 0 = m /\ m \in Int
      BY <1>3
    <3>4. x <= Far(m) - 1
      BY <2>0, <3>1, <3>2, <3>3 DEF NearAt, OrderNear, Period
    <3> HIDE DEF m, x, z
    <3>5. Far(m) \in Int /\ Far(m + 1) = Far(m) + Pace
      BY <3>3, FarFacts
    <3>6. z <= Far(m + 1) - 1
      BY <1>3, <1>6, <3>4, <3>5
    <3> QED
      BY <3>6 DEF m
  <2>5. Within(side, a)'
    <3>1. x <= Far(n) - 1
      BY <2>0 DEF NearAt, Within
    <3>2. z <= Far(n) - 1
      <4>1. CASE order.mode[a] # "SPEED"
        <5>1. Beyond(side, a, BoardValue(a, order.angle[a])) <= 0
          BY <1>0, <4>1 DEF AimInside
        <5>2. Beyond(side, a, BoardValue(a, order.angle[a])) \in Int
          <6>1. order.angle[a] \in Int
            BY <1>0 DEF PlantTyped, Frame
          <6>2. BoardValue(a, order.angle[a]) \in Int
            BY <6>1 DEF BoardValue
          <6> QED
            BY <6>2, AxisFacts DEF Beyond
        <5> DEFINE e == Beyond(side, a, BoardValue(a, order.angle[a]))
        <5>3. z <= x \/ z <= e
          BY <1>6, <4>1
        <5> HIDE DEF e, x, z, n
        <5> QED
          BY <1>6, <1>7, <3>1, <5>1, <5>2, <5>3 DEF e
      <4>2. CASE order.mode[a] = "SPEED" /\ ~Outward(side, BoardValue(a, order.speed[a]))
        <5>1. z <= x
          BY <1>6, <4>2
        <5> HIDE DEF x, z, n
        <5> QED
          BY <1>6, <1>7, <3>1, <5>1
      <4>3. CASE order.mode[a] = "SPEED" /\ Outward(side, BoardValue(a, order.speed[a]))
        <5>1. OrderNear(side, a)' => z <= Far(1 + Fresh + jumped + 1) - 1
          BY <1>1, <1>5, <4>3 DEF OrderNear, Period, Far, Fresh
        <5>2. 1 + Fresh + jumped + 1 = n
          BY <1>3
        <5> QED
          BY <2>4, <5>1, <5>2
      <4> QED
        BY <4>1, <4>2, <4>3
    <3> QED
      BY <1>1, <1>5, <3>2 DEF Within, Far, Fresh
  <2> QED
    BY <2>2, <2>3, <2>4, <2>5 DEF NearAt
<1> QED
  BY <1>2, <1>8, <1>9

(* Together.                                                               *)
LEMMA AdvanceKeeps ==
  ASSUME LInv, LoopAdvance PROVE LInv'
<1>1. NodeKept' /\ LaterOnly(node, node')
  BY AdvanceNode
<1>2. PlantKept' /\ Attended' /\ TrackInside' /\ AimInside'
  BY <1>1, AdvancePlant
<1>3. TheConfig.enforceLimits /\ ~strayed' => Near'
  BY <1>1, <1>2, AdvanceNear
<1> QED
  BY <1>1, <1>2, <1>3 DEF LInv

-----------------------------------------------------------------------------
(* The board, and the clock. *)

(* A reply shows the camera where it is.                                   *)
LEMMA AnswersKeep ==
  ASSUME LInv, BoardAnswers PROVE LInv'
<1>1. /\ node' = node /\ camera' = camera /\ order' = order /\ ticked' = ticked
      /\ quiet' = quiet /\ jumped' = jumped /\ adrift' = adrift /\ strayed' = strayed
      /\ reply' = camera
  BY DEF BoardAnswers, vars
<1>2. NodeKept' /\ Attended' /\ TrackInside' /\ AimInside'
  BY <1>1 DEF LInv, NodeKept, Attended, Period, TrackInside, AimInside
<1>3. PlantKept'
  BY <1>1 DEF LInv, PlantKept, PlantTyped
<1>4. TheConfig.enforceLimits /\ ~strayed' => Near'
  <2>1. SUFFICES ASSUME Near, NEW a \in Axes, NEW side \in Sides PROVE NearAt(side, a)'
    BY <1>1 DEF LInv, Near
  <2>2. NearAt(side, a)
    BY <2>1 DEF Near
  <2>3. ReplyNear(side, a)'
    <3>1. camera \in [Axes -> Stops]
      BY DEF LInv, PlantKept, PlantTyped
    <3> DEFINE x == Beyond(side, a, RosAngles(camera)[a])
    <3>2. x \in Int /\ Out(side, a) = x
      BY <3>1, RosAnglesAt DEF Out
    <3>3. Pace \in Nat
      BY LoopAssumption
    <3> HIDE DEF x
    <3>4. Out(side, a) <= x + Pace
      BY <3>2, <3>3
    <3> QED
      BY <1>1, <3>4 DEF ReplyNear, Out, x
  <2>4. TrackNear(side, a)' /\ OrderNear(side, a)' /\ Within(side, a)'
    BY <1>1, <2>2 DEF NearAt, TrackNear, OrderNear, Within, Out, Age, Far, Period
  <2> QED
    BY <2>3, <2>4 DEF NearAt
<1> QED
  BY <1>2, <1>3, <1>4 DEF LInv

(* The node, for whom the clock is set back.                               *)
SetBack(n) ==
  [n EXCEPT !.core.commandAge = @ - 1, !.core.telemetryAge = @ - 1,
            !.retryIn = @ + 1,
            !.traj.left = IF n.traj.handle THEN @ + 1 ELSE @]

(* Two ages and two delays change, and no type is left by it while the     *)
(* clock has been set back by less than is provided for.                   *)
LEMMA SetBackLeaves ==
  ASSUME NodeKept, jumped \in Nat, jumped < JumpMax
  PROVE  LET r == SetBack(node)
         IN  /\ Held(r) /\ Life(r)
             /\ r.core.mode = node.core.mode /\ r.core.cfg = node.core.cfg
             /\ r.core.angleValid = node.core.angleValid
             /\ r.core.haveContinuous = node.core.haveContinuous
             /\ r.core.continuous = node.core.continuous
             /\ r.core.commandAge = node.core.commandAge - 1
             /\ r.core.telemetryAge = node.core.telemetryAge - 1
             /\ r.retryIn = node.retryIn + 1
             /\ r.traj.left \in {node.traj.left, node.traj.left + 1}
             /\ r.calib = node.calib
             /\ r.open = node.open /\ r.life = node.life /\ r.board = node.board
<1> DEFINE n == node
           e == [n.core EXCEPT !.commandAge = @ - 1]
           c == [e EXCEPT !.telemetryAge = @ - 1]
           w == n.retryIn + 1
           l == IF n.traj.handle THEN n.traj.left + 1 ELSE n.traj.left
           h == [n.traj EXCEPT !.left = l]
           a == [n EXCEPT !.core = c]
           b == [a EXCEPT !.retryIn = w]
           r == [b EXCEPT !.traj = h]
<1>1. /\ Held(n) /\ Life(n) /\ n \in Node /\ n.core \in Core /\ n.traj \in Traj
      /\ n.retryIn \in 0 .. ReconnectDelay + JumpMax
      /\ n.core.commandAge \in -jumped .. MaxAge
      /\ n.core.telemetryAge \in -jumped .. MaxAge
      /\ n.retryIn <= ReconnectDelay + jumped /\ n.traj.left <= MaxTravel + jumped
  BY DEF NodeKept, Held, Node
<1>2. /\ JumpMax \in Nat /\ MaxAge \in Nat /\ ReconnectDelay \in Nat /\ MaxTravel \in Nat
  BY CoreAssumption, DriverAssumption
<1>3. n.core.commandAge - 1 \in Ages /\ n.core.telemetryAge - 1 \in Ages
  BY <1>1, <1>2 DEF Ages
<1>4. /\ c \in Core /\ c.mode = n.core.mode /\ c.cfg = n.core.cfg
      /\ Gates(c) = Gates(n.core)
      /\ c.angleValid = n.core.angleValid /\ c.haveContinuous = n.core.haveContinuous
      /\ c.continuous = n.core.continuous
      /\ c.commandAge = n.core.commandAge - 1
      /\ c.telemetryAge = n.core.telemetryAge - 1
  BY <1>1, <1>3 DEF Core, Gates
<1>5. w \in 0 .. ReconnectDelay + JumpMax
  BY <1>1, <1>2
<1>6. /\ h \in Traj /\ h.handle = n.traj.handle /\ h.active = n.traj.active
      /\ h.goal = n.traj.goal /\ h.left \in {n.traj.left, n.traj.left + 1}
  <2>1. n.traj.left \in -1 .. MaxTravel + JumpMax
    BY <1>1 DEF Traj
  <2>2. l \in -1 .. MaxTravel + JumpMax /\ l \in {n.traj.left, n.traj.left + 1}
    BY <1>1, <1>2, <2>1
  <2> HIDE DEF l
  <2> QED
    BY <1>1, <2>2 DEF Traj
<1>7. SetBack(node) = r
  BY <1>1 DEF SetBack, Node, Core, Traj
<1> HIDE DEF c, e, w, l, h, n
<1>8. a \in Node
  BY <1>1, <1>4, NodeUpdates
<1>9. b \in Node
  BY <1>5, <1>8, NodeUpdates
<1>10. r \in Node
  BY <1>6, <1>9, NodeUpdates
<1>11. /\ Rest(r) = Rest(n) /\ r.open = n.open /\ r.core = c /\ r.calib = n.calib
       /\ r.traj = h /\ r.board = n.board /\ r.retryIn = w /\ r.life = n.life
  BY <1>1 DEF Node, Rest
<1> HIDE DEF a, b, r
<1>12. GatesAgree(r)
  BY <1>1, <1>4, <1>11 DEF Held, GatesAgree, MotionPermitted, Rest, Gates
<1>13. Held(r)
  BY <1>1, <1>6, <1>10, <1>11, <1>12 DEF Held, CalibTracked, CalibHeld, TrajHeld
<1>14. Life(r)
  BY <1>1, <1>4, <1>6, <1>11 DEF Life, Rest, Gates
<1>15. r.traj.left \in {n.traj.left, n.traj.left + 1} /\ r.retryIn = n.retryIn + 1
  BY <1>6, <1>11 DEF w
<1> QED
  BY <1>4, <1>7, <1>11, <1>13, <1>14, <1>15 DEF n

(* Setting the clock back makes what is stamped younger by as much as it   *)
(* loosens the bounds.                                                     *)
LEMMA SetBackKeeps ==
  ASSUME LInv, ClockSetBack PROVE LInv'
<1>1. /\ node' = SetBack(node) /\ jumped < JumpMax /\ jumped' = jumped + 1
      /\ camera' = camera /\ order' = order /\ reply' = reply /\ ticked' = ticked
      /\ quiet' = quiet /\ adrift' = adrift /\ strayed' = strayed
  BY DEF ClockSetBack, Keeps, Becomes, SetBack
<1>2. NodeKept /\ PlantKept /\ PlantTyped /\ Attended /\ TrackInside /\ AimInside
  BY DEF LInv, PlantKept
<1>3. /\ jumped \in Nat /\ JumpMax \in Nat /\ MaxAge \in Nat /\ Pace \in Nat
      /\ Watch \in Int /\ Fresh \in Int
  BY <1>2, TimeFacts, LoopAssumption DEF PlantTyped, Watch, Fresh
<1>4. /\ Held(node') /\ Life(node')
      /\ node'.core.mode = node.core.mode /\ node'.core.cfg = node.core.cfg
      /\ node'.core.angleValid = node.core.angleValid
      /\ node'.core.haveContinuous = node.core.haveContinuous
      /\ node'.core.continuous = node.core.continuous
      /\ node'.core.commandAge = node.core.commandAge - 1
      /\ node'.core.telemetryAge = node.core.telemetryAge - 1
      /\ node'.retryIn = node.retryIn + 1
      /\ node'.traj.left \in {node.traj.left, node.traj.left + 1}
      /\ node'.calib = node.calib
      /\ node'.open = node.open /\ node'.life = node.life /\ node'.board = node.board
  BY <1>1, <1>2, <1>3, SetBackLeaves
<1>5. /\ node.core.commandAge \in -jumped .. MaxAge
      /\ node.core.telemetryAge \in -jumped .. MaxAge
      /\ node.retryIn <= ReconnectDelay + jumped /\ node.traj.left <= MaxTravel + jumped
      /\ node.retryIn \in Int /\ node.traj.left \in Int
      /\ ReconnectDelay \in Nat /\ MaxTravel \in Nat
  BY <1>2, CoreAssumption, DriverAssumption DEF NodeKept, Held, Node, Traj
<1>6. NodeKept'
  <2>1. /\ node'.core.commandAge \in -jumped' .. MaxAge
        /\ node'.core.telemetryAge \in -jumped' .. MaxAge
    BY <1>1, <1>3, <1>4, <1>5
  <2>2. node'.retryIn <= ReconnectDelay + jumped'
    BY <1>1, <1>3, <1>4, <1>5
  <2>3. node'.traj.left <= MaxTravel + jumped'
    BY <1>1, <1>3, <1>4, <1>5
  <2>4. node'.core.cfg = TheConfig /\ node'.calib.phase = "Idle"
    BY <1>2, <1>4 DEF NodeKept
  <2> QED
    BY <1>4, <2>1, <2>2, <2>3, <2>4 DEF NodeKept
<1>7. PlantKept'
  <2>1. jumped' \in 0 .. JumpMax
    BY <1>1, <1>3
  <2> QED
    BY <1>1, <1>2, <1>4, <2>1 DEF PlantKept, PlantTyped
<1>8. Attended'
  <2>1. quiet \in Nat /\ Period \in Nat /\ Period' = Period
    BY <1>1, <1>2, TimeFacts DEF PlantTyped, Period
  <2>2. order'.moving => adrift' \/ (node'.open /\ node'.life = "active")
    BY <1>1, <1>2, <1>4 DEF Attended
  <2>3. node'.core.mode # "Idle" => \/ quiet' <= node'.core.commandAge + jumped'
                                    \/ node'.core.commandAge >= MaxAge - jumped'
    <3> DEFINE x == node.core.commandAge
               y == node'.core.commandAge
    <3>1. y = x - 1 /\ x \in Int
      BY <1>3, <1>4, <1>5
    <3>2. node.core.mode # "Idle" => quiet <= x + jumped \/ x >= MaxAge - jumped
      BY <1>2 DEF Attended
    <3> HIDE DEF x, y
    <3>3. quiet <= x + jumped \/ x >= MaxAge - jumped =>
            quiet' <= y + jumped' \/ y >= MaxAge - jumped'
      BY <1>1, <1>3, <2>1, <3>1
    <3> QED
      BY <1>4, <3>2, <3>3 DEF y
  <2>4. order'.moving /\ ~adrift' => quiet' <= Watch + jumped' + Period'
    <3>1. order.moving /\ ~adrift => quiet <= Watch + jumped + Period
      BY <1>2 DEF Attended
    <3> HIDE DEF Watch, Period
    <3> QED
      BY <1>1, <1>3, <2>1, <3>1
  <2> QED
    BY <2>2, <2>3, <2>4 DEF Attended
<1>9. TrackInside' /\ AimInside'
  BY <1>1, <1>2, <1>4 DEF TrackInside, AimInside
<1>10. TheConfig.enforceLimits /\ ~strayed' => Near'
  <2>1. SUFFICES ASSUME Near, NEW a \in Axes, NEW side \in Sides PROVE NearAt(side, a)'
    BY <1>1 DEF LInv, Near
  <2>2. NearAt(side, a)
    BY <2>1 DEF Near
  <2>3. Out(side, a)' = Out(side, a) /\ Out(side, a) \in Int
    <3>1. camera \in [Axes -> Stops]
      BY <1>2 DEF PlantTyped
    <3> QED
      BY <1>1, <3>1, RosAnglesAt DEF Out
  <2> DEFINE x == Out(side, a)
             p == 1 + Fresh + jumped + Period
             q == 2 + Fresh + jumped
  <2>4. p \in Int /\ q \in Int /\ Period' = Period
    BY <1>1, <1>3 DEF Period
  <2>5. /\ Far(p) \in Int /\ Far(p + 1) \in Int /\ Far(p) <= Far(p + 1)
        /\ Far(q) \in Int /\ Far(q + 1) \in Int /\ Far(q) <= Far(q + 1)
    BY <2>4, FarFacts
  <2>6. 1 + Fresh + jumped' + Period' = p + 1 /\ 2 + Fresh + jumped' = q + 1
    BY <1>1, <1>3, <2>4 DEF Period
  <2>7. Age' = Age
    BY <1>1, <1>3, <1>4, <1>5 DEF Age
  <2>8. ReplyNear(side, a)' /\ TrackNear(side, a)'
    BY <1>1, <1>4, <2>2, <2>3, <2>7 DEF NearAt, ReplyNear, TrackNear, Far
  <2>9. OrderNear(side, a)'
    <3>1. SUFFICES ASSUME order.mode[a] = "SPEED",
                          Outward(side, BoardValue(a, order.speed[a]))
                   PROVE  x <= Far(p + 1) - 1
      BY <1>1, <2>3, <2>6 DEF OrderNear, Far, Fresh
    <3>2. x <= Far(p) - 1
      BY <2>2, <3>1 DEF NearAt, OrderNear
    <3> HIDE DEF x, p
    <3> QED
      BY <2>3, <2>5, <3>2 DEF x
  <2>10. Within(side, a)'
    <3>1. x <= Far(q) - 1
      BY <2>2 DEF NearAt, Within
    <3> HIDE DEF q
    <3>2. x <= Far(q + 1) - 1
      BY <2>3, <2>5, <3>1
    <3> QED
      BY <2>3, <2>6, <3>2 DEF Within, Far, Fresh, q
  <2> QED
    BY <2>8, <2>9, <2>10 DEF NearAt
<1> QED
  BY <1>6, <1>7, <1>8, <1>9, <1>10 DEF LInv

-----------------------------------------------------------------------------
(* The inductive invariant, from the first state on. *)

(* The camera starts at zero, inside every limit, and at rest.             *)
LEMMA InitLInv == LoopInit => LInv
<1> SUFFICES ASSUME LoopInit PROVE LInv
  OBVIOUS
<1>1. /\ Init /\ camera = Zero /\ order = HoldFrame /\ reply = None
      /\ ticked = FALSE /\ quiet = 0 /\ jumped = 0 /\ adrift = FALSE /\ strayed = FALSE
  BY DEF LoopInit
<1>2. Held(node) /\ Life(node)
  BY <1>1, InitIInv DEF IInv
<1>3. /\ node.core = NewCore(TheConfig) /\ node.calib = NoCalib("none")
      /\ node.traj = NoTraj("none") /\ node.retryIn = 0 /\ node.board = BoardAtRest
  BY <1>1 DEF Init, TheConfig
<1>4. Blank(node.core)
  BY <1>3, ConfigSane, NewCoreBlank
<1>5. /\ HoldFrame \in Frame /\ HoldFrame.moving = FALSE
      /\ \A a \in Axes : HoldFrame.mode[a] = "SPEED" /\ HoldFrame.speed[a] = 0
  BY FixedJudged DEF Judged, HoldFrame
<1>6. MaxAge \in Nat /\ JumpMax \in Nat /\ QuietMax \in Nat /\ Watch \in Int /\ 0 < Watch
  BY TimeFacts, CoreAssumption DEF Watch
<1>7. NodeKept
  <2>1. node.core.commandAge = MaxAge /\ node.core.telemetryAge = MaxAge
    BY <1>4 DEF Blank
  <2>2. node.core.commandAge \in -jumped .. MaxAge /\ node.core.telemetryAge \in -jumped .. MaxAge
    BY <1>1, <1>6, <2>1
  <2>3. node.core.cfg = TheConfig /\ node.calib.phase = "Idle"
    BY <1>3 DEF NewCore, NoCalib
  <2>4. node.retryIn <= ReconnectDelay + jumped /\ node.traj.left <= MaxTravel + jumped
    <3>1. node.traj.left = 0
      BY <1>3 DEF NoTraj
    <3> QED
      BY <1>1, <1>3, <3>1, DriverAssumption
  <2> QED
    BY <1>2, <2>2, <2>3, <2>4 DEF NodeKept
<1>8. camera \in [Axes -> Stops] /\ camera = Zero
  BY <1>1, LoopAssumption DEF Zero
<1>9. PlantKept
  <2>1. jumped \in 0 .. JumpMax /\ quiet \in 0 .. QuietMax
    BY <1>1, <1>6
  <2>2. PlantTyped
    BY <1>1, <1>5, <1>8, <2>1 DEF PlantTyped
  <2>3. ~order.moving /\ ~node.board.turning
    BY <1>1, <1>3, <1>5 DEF BoardAtRest
  <2> QED
    BY <1>1, <1>5, <2>2, <2>3 DEF PlantKept
<1>10. Attended
  BY <1>1, <1>4, <1>5 DEF Attended, Blank
<1>11. TrackInside
  BY <1>4 DEF TrackInside, Blank
<1>12. AimInside
  BY <1>1, <1>5 DEF AimInside
<1>13. Near
  <2>1. SUFFICES ASSUME NEW a \in Axes, NEW side \in Sides PROVE NearAt(side, a)
    BY DEF Near
  <2>2. Out(side, a) <= 0 /\ Out(side, a) \in Int
    <3>1. camera[a] = 0
      BY <1>8 DEF Zero
    <3>2. Beyond(side, a, BoardValue(a, 0)) <= 0
      BY AxisFacts DEF Beyond, BoardValue, Sides
    <3>3. Out(side, a) \in Int
      BY <1>8, RosAnglesAt DEF Out
    <3> QED
      BY <3>1, <3>2, <3>3 DEF Out
  <2>3. ReplyNear(side, a)
    BY <2>2 DEF ReplyNear
  <2>4. TrackNear(side, a)
    BY <1>4 DEF TrackNear, Blank
  <2>5. OrderNear(side, a)
    BY <1>1, <1>5 DEF OrderNear, Outward, BoardValue, Sides
  <2>6. Within(side, a)
    <3> DEFINE n == 2 + Fresh + jumped
    <3>1. n \in Int /\ n >= 1
      BY <1>1, TimeFacts DEF Fresh
    <3>2. Far(n) \in Int /\ Far(n) - 1 >= 0
      BY <3>1, FarPositive
    <3> QED
      BY <2>2, <3>2 DEF Within, Far
  <2> QED
    BY <2>3, <2>4, <2>5, <2>6 DEF NearAt
<1> QED
  BY <1>7, <1>9, <1>10, <1>11, <1>12, <1>13 DEF LInv

(* Where nothing happens nothing is lost.                                  *)
LEMMA StandsStill ==
  ASSUME LInv, UNCHANGED loopVars PROVE LInv'
<1>1. /\ node' = node /\ camera' = camera /\ order' = order /\ reply' = reply
      /\ ticked' = ticked /\ quiet' = quiet /\ jumped' = jumped
      /\ adrift' = adrift /\ strayed' = strayed
  BY DEF loopVars, vars, plant
<1>2. NodeKept' /\ PlantKept' /\ Attended' /\ TrackInside' /\ AimInside'
  BY <1>1 DEF LInv, NodeKept, PlantKept, PlantTyped, Attended, Period, TrackInside, AimInside
<1>3. TheConfig.enforceLimits /\ ~strayed' => Near'
  BY <1>1 DEF LInv, Near, NearAt, ReplyNear, TrackNear, OrderNear, Within,
              Out, Age, Far, Period
<1> QED
  BY <1>2, <1>3 DEF LInv

(* Every step keeps it.                                                    *)
LEMMA StepLInv == LInv /\ [LoopNext]_loopVars => LInv'
<1> SUFFICES ASSUME LInv, [LoopNext]_loopVars PROVE LInv'
  OBVIOUS
<1>1. CASE LoopTimers
  BY <1>1, TimersKeep
<1>2. CASE LoopLifecycle
  BY <1>2, LifecycleKeeps
<1>3. CASE LoopClients
  BY <1>3, ClientsKeep
<1>4. CASE BoardAnswers
  BY <1>4, AnswersKeep
<1>5. CASE LoopAdvance
  BY <1>5, AdvanceKeeps
<1>6. CASE ClockSetBack
  BY <1>6, SetBackKeeps
<1>7. CASE UNCHANGED loopVars
  BY <1>7, StandsStill
<1> QED
  BY <1>1, <1>2, <1>3, <1>4, <1>5, <1>6, <1>7 DEF LoopNext

(* The node, the camera, the frame the board obeys, the reply in the port  *)
(* and what each of them knows of the time agree after every step.         *)
THEOREM LoopInductive == LoopSpec => []LInv
  BY InitLInv, StepLInv, PTL DEF LoopSpec

-----------------------------------------------------------------------------
(* What holds of the closed loop. *)

(* The frame the board obeys is the one the node believes it obeys, and an *)
(* age is too small by no more than the clock was set back.                *)
THEOREM LoopTypeCorrect == LoopSpec => []LoopTypeOK
<1>1. LInv => LoopTypeOK
  BY DEF LInv, NodeKept, Held, PlantKept, PlantTyped, LoopTypeOK
<1> QED
  BY <1>1, LoopInductive, PTL

(* The watchdog stops the camera itself, for every command_timeout and     *)
(* however far the clock is set back: a board that still turns after that  *)
(* long a silence is one the driver could not reach.                       *)
THEOREM WatchdogStopsCamera == LoopSpec => []WatchdogStops
<1>1. LInv => WatchdogStops
  <2>1. SUFFICES ASSUME LInv, quiet > TheConfig.commandTimeout + jumped + 1,
                        order.moving, ~adrift
                 PROVE  FALSE
    BY DEF WatchdogStops
  <2>2. quiet <= Watch + jumped + Period
    BY <2>1 DEF LInv, Attended
  <2>3. quiet \in Int /\ jumped \in Int /\ Watch \in Int /\ Period \in 0 .. 1
    BY <2>1, TimeFacts, CoreAssumption DEF LInv, PlantKept, PlantTyped, Watch, Period
  <2> QED
    BY <2>1, <2>2, <2>3 DEF Watch
<1> QED
  BY <1>1, LoopInductive, PTL

(* The camera itself keeps to the travel limits up to the overshoot, for   *)
(* every limit, rate and pace, whatever the clients ask for and whichever  *)
(* writes and reads fail: the track may be wrong, by no more than that.    *)
THEOREM TravelIsKept == LoopSpec => []TravelKept
<1>1. LInv => TravelKept
  <2>1. SUFFICES ASSUME LInv, TheConfig.enforceLimits, ~strayed, NEW a \in Axes
                 PROVE  /\ RosAngles(camera)[a] > TheConfig.limitMin[a] - Overshoot
                        /\ RosAngles(camera)[a] < TheConfig.limitMax[a] + Overshoot
    BY DEF TravelKept
  <2>2. \A side \in Sides : Within(side, a)
    BY <2>1 DEF LInv, Near, NearAt
  <2>3. camera \in [Axes -> Stops] /\ jumped \in Int /\ Fresh \in Int /\ Pace \in Int
    BY <2>1, TimeFacts, CoreAssumption, LoopAssumption DEF LInv, PlantKept, PlantTyped, Fresh
  <2> DEFINE y == RosAngles(camera)[a]
             n == 2 + Fresh + jumped
             far == Far(n)
  <2>4. "above" \in Sides /\ "below" \in Sides
    BY DEF Sides
  <2>5. y \in Int /\ y = BoardValue(a, camera[a])
    BY <2>3, <2>4, RosAnglesAt
  <2>6. far = Overshoot /\ far \in Int
    <3>1. 1 + TheConfig.angleFresh + jumped + 1 = n /\ n \in Int
      BY <2>3 DEF Fresh
    <3> QED
      BY <2>3, <3>1, FarFacts DEF Overshoot, Far
  <2>7. Beyond("above", a, y) <= far - 1 /\ Beyond("below", a, y) <= far - 1
    BY <2>2, <2>4, <2>5 DEF Within, Out
  <2>8. TheConfig.limitMin[a] \in Int /\ TheConfig.limitMax[a] \in Int
    BY AxisFacts
  <2> HIDE DEF y, far
  <2>9. y > TheConfig.limitMin[a] - far /\ y < TheConfig.limitMax[a] + far
    BY <2>5, <2>6, <2>7, <2>8 DEF Beyond
  <2> QED
    BY <2>6, <2>9 DEF y
<1> QED
  BY <1>1, LoopInductive, PTL

(* An axis a trajectory can be seen to arrive on: one whose target reaches *)
(* the board as it was given and whose angle comes back as it was sent.    *)
(* An inverted axis is none (README, the run Inverted_goal), nor is a      *)
(* locked roll; an angle off the wire's scale is sent as another.          *)
Plainly(a) ==
  /\ ~TheConfig.invert[a]
  /\ a = "roll" => ~TheConfig.rollLocked
  /\ -WireMax <= TheConfig.limitMin[a] /\ TheConfig.limitMax[a] <= WireMax

(* The frame of a core that was given target sends such an axis to it,     *)
(* with limits in force or without, if it moves the board at all.          *)
LEMMA FedAims ==
  ASSUME NEW c \in Core, c.cfg = TheConfig, NEW t, NEW relative,
         Tick(SubmitAngle(c, t, relative)).moving,
         NEW a \in Axes, Plainly(a),
         t[a] \in TheConfig.limitMin[a] .. TheConfig.limitMax[a]
  PROVE  Tick(SubmitAngle(c, t, relative)).angle[a] = BoardValue(a, t[a])
<1> DEFINE f == SubmitAngle(c, t, relative)
<1>1. Tick(f) = MotionFrame(f) /\ ~NothingToDo(f)
  BY DEF Tick, HoldFrame
<1>2. f.mode # "Idle"
  BY <1>1 DEF NothingToDo
<1>3. SubmitHold(c).mode = "Idle"
  BY DEF SubmitHold, ClearCommand, Core
<1>4. f = [c EXCEPT !.target = Oriented(c, t), !.mode = "Position",
                    !.relative = relative, !.commandAge = 0, !.haveCommand = TRUE]
  BY <1>2, <1>3 DEF SubmitAngle
<1>5. f.mode = "Position" /\ f.cfg = TheConfig /\ f.target = Oriented(c, t)
  BY <1>4 DEF Core
<1>6. f.target[a] = t[a]
  BY <1>5 DEF Oriented, Plainly
<1> HIDE DEF f
<1> DEFINE lo == TheConfig.limitMin[a]
           hi == TheConfig.limitMax[a]
           x == t[a]
<1>7. lo \in Int /\ hi \in Int /\ x \in Int /\ lo <= x /\ x <= hi
  BY AxisFacts
<1>8. Clamp(x, lo, hi) = x
  <2> HIDE DEF lo, hi, x
  <2> QED
    BY <1>7, CoreAssumption DEF Clamp, Lt
<1>9. Limited(f, a) = x
  BY <1>5, <1>6, <1>8 DEF Limited
<1>10. ~RollHeld(f, a)
  BY <1>5 DEF RollHeld, Plainly
<1>11. Tick(f).angle[a] = AngleUnits(BoardValue(a, x))
  BY <1>1, <1>5, <1>9, <1>10 DEF MotionFrame
<1>12. AngleUnits(BoardValue(a, x)) = BoardValue(a, x)
  <2> DEFINE y == BoardValue(a, x)
  <2>1. WireMax \in Nat /\ -WireMax <= lo /\ hi <= WireMax
    BY CoreAssumption DEF Plainly
  <2>2. y \in Int /\ -WireMax <= y /\ y <= WireMax
    <3> HIDE DEF lo, hi, x
    <3> QED
      BY <1>7, <2>1 DEF BoardValue
  <2> HIDE DEF y
  <2>3. RoundAway(y, AngleScale) = y
    BY <2>2, LoopAssumption DEF RoundAway
  <2>4. AngleUnits(y) = y
    BY <2>1, <2>2, <2>3 DEF AngleUnits, Saturate
  <2> QED
    BY <2>4 DEF y
<1> QED
  BY <1>11, <1>12 DEF f

(* Where every axis is such a one, a trajectory that has arrived is never  *)
(* found to be away from its target, for every target inside the limits,   *)
(* every tolerance and every convention of the axes' signs.                *)
THEOREM ArrivalSeenPlainly ==
  ASSUME \A a \in Axes : Plainly(a)
  PROVE  LoopSpec => []ArrivalIsSeen
<1>1. LInv => ArrivalIsSeen
  <2>1. SUFFICES ASSUME LInv, Arrived, NEW a \in Axes
                 PROVE  LET x == node.traj.target[a] - node.core.continuous[a]
                        IN  ~(Magnitude(x) > node.traj.tolerance)
    BY DEF ArrivalIsSeen, Away
  <2> DEFINE x == node.traj.target[a]
  <2>2. node.core \in Core /\ node.core.cfg = TheConfig /\ node.traj.tolerance \in Nat
    BY <2>1 DEF LInv, NodeKept, Held, Node, Traj
  <2>3. x \in TheConfig.limitMin[a] .. TheConfig.limitMax[a]
    BY <2>1 DEF Arrived, Inside
  <2>4. x \in Int
    BY <2>3, AxisFacts
  <2>5. camera[a] = BoardValue(a, x)
    BY <2>1, <2>2, <2>3, FedAims DEF Arrived, Fed
  <2>6. node.core.continuous[a] = x
    <3>1. node.core.continuous[a] = BoardValue(a, camera[a])
      BY <2>1 DEF Arrived, RosAngles, BoardValue
    <3> QED
      BY <2>4, <2>5, <3>1 DEF BoardValue
  <2>7. Magnitude(x - x) = 0
    BY <2>4, CoreAssumption DEF Magnitude, Lt
  <2> QED
    BY <2>2, <2>6, <2>7
<1> QED
  BY <1>1, LoopInductive, PTL
=============================================================================
