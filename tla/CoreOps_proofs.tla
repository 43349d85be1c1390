--------------------------- MODULE CoreOps_proofs ---------------------------
(***************************************************************************)
(* Lemmas about the operators of CoreOps, for every value of its           *)
(* constants: the arithmetic, the type of what each call leaves, and the   *)
(* effect of each call on the fields the invariants of GimbalCore and of   *)
(* DriverNode speak of.                                                    *)
(***************************************************************************)
EXTENDS CoreOps, TLAPS

-----------------------------------------------------------------------------
(* Arithmetic. *)

(* What the provers know of quotient and remainder, for any modulus. *)
LEMMA Division ==
  ASSUME NEW x \in Int, NEW m \in Nat \ {0}
  PROVE  /\ x % m \in Int /\ 0 <= x % m /\ x % m < m
         /\ x \div m \in Int /\ x = m * (x \div m) + (x % m)
         /\ x >= 0 => x \div m >= 0
  OBVIOUS

(* A multiple leaves no remainder. *)
LEMMA NoRemainder ==
  ASSUME NEW k \in Int, NEW m \in Nat \ {0}
  PROVE  (k * m) % m = 0
  OBVIOUS

(* A turn is a positive number of angle units. *)
LEMMA TurnType == Turn \in Nat \ {0}
  BY CoreAssumption DEF Turn

(* std::clamp on a number gives a number, even between bounds that are     *)
(* not; between ordered bounds it gives one inside them.                   *)
LEMMA ClampType ==
  ASSUME NEW v \in Int, NEW lo \in Num, NEW hi \in Num
  PROVE  /\ Clamp(v, lo, hi) \in Int
         /\ lo \in Int /\ hi \in Int /\ lo <= hi => Clamp(v, lo, hi) \in lo .. hi
  BY CoreAssumption DEF Clamp, Lt, Num

(* The two loops of unwrapOnto leave a step in (-pi, pi] ...               *)
LEMMA ShortestStepRange ==
  ASSUME NEW d \in Int
  PROVE  /\ ShortestStep(d) \in Int
         /\ -HalfTurn < ShortestStep(d) /\ ShortestStep(d) <= HalfTurn
<1> DEFINE r == (HalfTurn - d) % Turn
<1>1. HalfTurn - d \in Int
  BY CoreAssumption
<1>2. r \in Int /\ 0 <= r /\ r < 2 * HalfTurn
  BY <1>1, TurnType, Division DEF Turn
<1>3. ShortestStep(d) = HalfTurn - r
  BY DEF ShortestStep
<1> HIDE DEF r
<1> QED
  BY <1>2, <1>3, CoreAssumption

(* ... that differs from what they were given by whole turns.              *)
LEMMA ShortestStepTurns ==
  ASSUME NEW d \in Int
  PROVE  \E k \in Int : ShortestStep(d) = d + k * Turn
<1> DEFINE r == (HalfTurn - d) % Turn
           k == (HalfTurn - d) \div Turn
<1>1. HalfTurn - d \in Int
  BY CoreAssumption
<1>2. k \in Int /\ r \in Int /\ HalfTurn - d = Turn * k + r
  BY <1>1, TurnType, Division
<1>3. ShortestStep(d) = HalfTurn - r
  BY DEF ShortestStep
<1> HIDE DEF r, k
<1>4. ShortestStep(d) = d + k * Turn
  BY <1>2, <1>3, TurnType, CoreAssumption
<1> QED
  BY <1>2, <1>4

(* The remainder of std::fmod differs from its dividend by whole turns.    *)
LEMMA FmodTurns ==
  ASSUME NEW x \in Int
  PROVE  Fmod(x, Turn) \in Int /\ \E k \in Int : Fmod(x, Turn) = x + k * Turn
<1>1. CASE x >= 0
  <2> DEFINE r == x % Turn
             q == x \div Turn
  <2>1. q \in Int /\ r \in Int /\ x = Turn * q + r
    BY TurnType, Division
  <2>2. Fmod(x, Turn) = r
    BY <1>1 DEF Fmod
  <2> HIDE DEF r, q
  <2>3. -q \in Int /\ Fmod(x, Turn) = x + (-q) * Turn
    BY <2>1, <2>2, TurnType
  <2> QED
    BY <2>1, <2>2, <2>3
<1>2. CASE ~(x >= 0)
  <2> DEFINE r == (-x) % Turn
             q == (-x) \div Turn
  <2>1. -x \in Int
    OBVIOUS
  <2>2. q \in Int /\ r \in Int /\ -x = Turn * q + r
    BY <2>1, TurnType, Division
  <2>3. Fmod(x, Turn) = -r
    BY <1>2 DEF Fmod
  <2> HIDE DEF r, q
  <2>4. Fmod(x, Turn) = x + q * Turn
    BY <2>2, <2>3, TurnType
  <2> QED
    BY <2>2, <2>3, <2>4
<1> QED
  BY <1>1, <1>2

(* unwrapOnto moves the track by at most half a turn, onto a value that    *)
(* agrees with the sample modulo a turn.                                   *)
LEMMA UnwrapCloses ==
  ASSUME NEW x \in Int, NEW w \in Int
  PROVE  /\ UnwrapOnto(x, w) \in Int
         /\ UnwrapOnto(x, w) - x \in -HalfTurn .. HalfTurn
         /\ (UnwrapOnto(x, w) - w) % Turn = 0
<1> DEFINE f == Fmod(x, Turn)
           s == ShortestStep(w - f)
<1>1. f \in Int
  BY FmodTurns
<1>2. PICK j \in Int : f = x + j * Turn
  BY FmodTurns
<1>3. w - f \in Int
  BY <1>1
<1>4. s \in Int /\ -HalfTurn < s /\ s <= HalfTurn
  BY <1>3, ShortestStepRange
<1>5. PICK k \in Int : s = (w - f) + k * Turn
  BY <1>3, ShortestStepTurns
<1>6. UnwrapOnto(x, w) = x + s
  BY DEF UnwrapOnto
<1> HIDE DEF f, s
<1>7. UnwrapOnto(x, w) - w = (k - j) * Turn
  BY <1>1, <1>2, <1>4, <1>5, <1>6, TurnType
<1>8. k - j \in Int
  OBVIOUS
<1>9. (UnwrapOnto(x, w) - w) % Turn = 0
  BY <1>7, <1>8, TurnType, NoRemainder
<1> QED
  BY <1>4, <1>6, <1>9, CoreAssumption

(* The conversions to wire units keep the sign of what they convert.       *)
LEMMA RoundSign ==
  ASSUME NEW x \in Int, NEW scale \in Nat \ {0}
  PROVE  /\ RoundAway(x, scale) \in Int
         /\ x >= 0 => RoundAway(x, scale) >= 0
         /\ x <= 0 => RoundAway(x, scale) <= 0
<1>0. 2 * scale \in Nat \ {0}
  OBVIOUS
<1>1. CASE x < 0
  <2> DEFINE q == (-2 * x + scale) \div (2 * scale)
  <2>1. -2 * x + scale \in Int /\ -2 * x + scale >= 0
    BY <1>1
  <2>2. q \in Int /\ q >= 0
    BY <1>0, <2>1, Division
  <2>3. RoundAway(x, scale) = -q
    BY <1>1 DEF RoundAway
  <2> HIDE DEF q
  <2> QED
    BY <2>2, <2>3, <1>1
<1>2. CASE x >= 0
  <2> DEFINE q == (2 * x + scale) \div (2 * scale)
  <2>1. 2 * x + scale \in Int /\ 2 * x + scale >= 0
    BY <1>2
  <2>2. q \in Int /\ q >= 0
    BY <1>0, <2>1, Division
  <2>3. RoundAway(x, scale) = q
    BY <1>2 DEF RoundAway
  <2>4. ASSUME x = 0 PROVE q = 0
    BY <1>0, <2>4
  <2> HIDE DEF q
  <2> QED
    BY <2>2, <2>3, <2>4, <1>2
<1> QED
  BY <1>1, <1>2

(* sbgc_degs_to_units: a rate in counts has the sense of the rate.        *)
LEMMA RateUnitsSign ==
  ASSUME NEW x \in Int
  PROVE  /\ RateUnits(x) \in Int
         /\ x >= 0 => RateUnits(x) >= 0
         /\ x <= 0 => RateUnits(x) <= 0
<1> DEFINE n == RoundAway(x, RateScale)
<1>1. n \in Int /\ (x >= 0 => n >= 0) /\ (x <= 0 => n <= 0)
  BY RoundSign, CoreAssumption
<1>2. RateUnits(x) = Saturate(n)
  BY DEF RateUnits
<1> HIDE DEF n
<1> QED
  BY <1>1, <1>2, CoreAssumption DEF Saturate

(* sbgc_deg_to_units gives a count.                                        *)
LEMMA AngleUnitsType ==
  ASSUME NEW x \in Int PROVE AngleUnits(x) \in Int
<1> DEFINE n == RoundAway(x, AngleScale)
<1>1. n \in Int
  BY RoundSign, CoreAssumption
<1>2. AngleUnits(x) = Saturate(n)
  BY DEF AngleUnits
<1> HIDE DEF n
<1> QED
  BY <1>1, <1>2, CoreAssumption DEF Saturate

-----------------------------------------------------------------------------
(* Types. *)

(* One field of the object at a time. *)
LEMMA CoreUpdates ==
  ASSUME NEW c \in Core
  PROVE  /\ \A x \in Config : [c EXCEPT !.cfg = x] \in Core
         /\ \A x \in BOOLEAN : /\ [c EXCEPT !.controlAllowed = x] \in Core
                               /\ [c EXCEPT !.armed = x] \in Core
                               /\ [c EXCEPT !.linkUp = x] \in Core
                               /\ [c EXCEPT !.relative = x] \in Core
                               /\ [c EXCEPT !.haveCommand = x] \in Core
                               /\ [c EXCEPT !.angleValid = x] \in Core
                               /\ [c EXCEPT !.haveContinuous = x] \in Core
         /\ \A x \in Modes : [c EXCEPT !.mode = x] \in Core
         /\ \A x \in [Axes -> Int] : /\ [c EXCEPT !.target = x] \in Core
                                     /\ [c EXCEPT !.continuous = x] \in Core
         /\ \A x \in Ages : /\ [c EXCEPT !.commandAge = x] \in Core
                            /\ [c EXCEPT !.telemetryAge = x] \in Core
  BY DEF Core

(* The values the code assigns outright. *)
LEMMA Literals ==
  /\ Zero \in [Axes -> Int]
  /\ "Idle" \in Modes /\ "Position" \in Modes /\ "Velocity" \in Modes
  /\ 0 \in Ages /\ MaxAge \in Ages
  BY CoreAssumption DEF Zero, Modes, Ages

(* setConfig leaves a configuration, and a sane one whatever it was given: *)
(* ordered finite limits, positive rates and time outs.                    *)
LEMMA SanitisedSane ==
  ASSUME NEW cfg \in Config
  PROVE  Sanitised(cfg) \in Config /\ Sane(Sanitised(cfg))
<1>1. Sanitised(cfg) \in Config
  BY CoreAssumption
     DEF Sanitised, Config, Sane, SaneLimits, SaneRates, SaneTimeouts, Num,
         Positive, Lt
<1>2. Sane(Sanitised(cfg))
  BY CoreAssumption
     DEF Sanitised, Config, Sane, SaneLimits, SaneRates, SaneTimeouts, Num,
         Positive, Lt
<1> QED
  BY <1>1, <1>2

(* A constructed core is a core.                                           *)
LEMMA NewCoreType ==
  ASSUME NEW cfg \in Config PROVE NewCore(cfg) \in Core
  BY Literals DEF NewCore, Core

(* clearCommand and submitHold leave a core.                               *)
LEMMA ClearType ==
  ASSUME NEW c \in Core
  PROVE  ClearCommand(c) \in Core /\ SubmitHold(c) \in Core
<1>1. ClearCommand(c) \in Core
  BY CoreUpdates, Literals DEF ClearCommand
<1> QED
  BY <1>1, CoreUpdates, Literals DEF SubmitHold

(* So do the gates.                                                        *)
LEMMA GatesType ==
  ASSUME NEW c \in Core, NEW b \in BOOLEAN
  PROVE  /\ SetControlAllowed(c, b) \in Core
         /\ SetArmed(c, b) \in Core
         /\ SetLinkUp(c, b) \in Core
<1>1. SetControlAllowed(c, b) \in Core
  BY CoreUpdates, ClearType DEF SetControlAllowed
<1>2. SetArmed(c, b) \in Core
  BY CoreUpdates, ClearType DEF SetArmed
<1>3. SetLinkUp(c, b) \in Core
  <2> DEFINE d == [c EXCEPT !.linkUp = b]
             e == [[d EXCEPT !.haveContinuous = FALSE] EXCEPT !.angleValid = FALSE]
  <2>1. d \in Core
    BY CoreUpdates
  <2>2. e \in Core
    BY <2>1, CoreUpdates
  <2>3. ClearCommand(e) \in Core
    BY <2>2, ClearType
  <2> QED
    BY <2>1, <2>3 DEF SetLinkUp
<1> QED
  BY <1>1, <1>2, <1>3

(* A finite command, turned the way the mount is, is still finite.         *)
LEMMA OrientedType ==
  ASSUME NEW c \in Core, NEW v \in [Axes -> Num], AllFinite(v)
  PROVE  Oriented(c, v) \in [Axes -> Int]
  BY CoreAssumption DEF Oriented, AllFinite, Neg, Num, Core, Config

(* Commands leave a core, whatever numbers or non-numbers they carry.      *)
LEMMA SubmitRateType ==
  ASSUME NEW c \in Core, NEW v \in [Axes -> Num]
  PROVE  SubmitRate(c, v) \in Core
<1> DEFINE lim(a) == Magnitude(c.cfg.maxRate[a])
           held == [a \in Axes |-> Clamp(Oriented(c, v)[a], Neg(lim(a)), lim(a))]
<1>1. CASE ~Accepted(c, v)
  BY <1>1, ClearType DEF SubmitRate
<1>2. CASE Accepted(c, v)
  <2>1. \A a \in Axes : lim(a) \in Num /\ Neg(lim(a)) \in Num
    BY CoreAssumption DEF Magnitude, Neg, Lt, Num, Core, Config
  <2>2. Oriented(c, v) \in [Axes -> Int]
    BY <1>2, OrientedType DEF Accepted
  <2> HIDE DEF lim
  <2>3. held \in [Axes -> Int]
    BY <2>1, <2>2, ClampType
  <2> DEFINE d == [c EXCEPT !.target = held]
             e == [d EXCEPT !.mode = "Velocity"]
             f == [e EXCEPT !.commandAge = 0]
  <2>4. SubmitRate(c, v) = [f EXCEPT !.haveCommand = TRUE]
    BY <1>2 DEF SubmitRate, lim
  <2> HIDE DEF held
  <2>5. d \in Core
    BY <2>3, CoreUpdates
  <2> HIDE DEF d
  <2>6. e \in Core
    BY <2>5, CoreUpdates, Literals
  <2> HIDE DEF e
  <2>7. f \in Core
    BY <2>6, CoreUpdates, Literals
  <2> HIDE DEF f
  <2> QED
    BY <2>4, <2>7, CoreUpdates
<1> QED
  BY <1>1, <1>2

(* ... and so does an angle command.                                       *)
LEMMA SubmitAngleType ==
  ASSUME NEW c \in Core, NEW v \in [Axes -> Num], NEW relative \in BOOLEAN
  PROVE  SubmitAngle(c, v, relative) \in Core
<1>1. CASE ~Accepted(c, v)
  BY <1>1, ClearType DEF SubmitAngle
<1>2. CASE Accepted(c, v)
  <2> DEFINE u == Oriented(c, v)
             d == [c EXCEPT !.target = u]
             e == [d EXCEPT !.mode = "Position"]
             f == [e EXCEPT !.relative = relative]
             g == [f EXCEPT !.commandAge = 0]
  <2>1. u \in [Axes -> Int]
    BY <1>2, OrientedType DEF Accepted
  <2>2. SubmitAngle(c, v, relative) = [g EXCEPT !.haveCommand = TRUE]
    BY <1>2 DEF SubmitAngle
  <2> HIDE DEF u
  <2>3. e \in Core
    BY <2>1, CoreUpdates, Literals
  <2> HIDE DEF e
  <2>4. g \in Core
    BY <2>3, CoreUpdates, Literals
  <2> HIDE DEF g
  <2> QED
    BY <2>2, <2>4, CoreUpdates
<1> QED
  BY <1>1, <1>2

(* Telemetry, usable or not, leaves a core.                                *)
LEMMA OnTelemetryType ==
  ASSUME NEW c \in Core, NEW t \in Sample
  PROVE  OnTelemetry(c, t) \in Core
<1>0. t.angle \in [Axes -> Num] /\ t.age \in Ages \cup {NaN}
  BY DEF Sample
<1>1. CASE ~Usable(t)
  BY <1>1, CoreUpdates DEF OnTelemetry
<1>2. CASE Usable(t)
  <2> DEFINE track == [a \in Axes |-> IF c.haveContinuous
                                      THEN UnwrapOnto(c.continuous[a], t.angle[a])
                                      ELSE t.angle[a]]
             d == [c EXCEPT !.telemetryAge = t.age]
             e == [d EXCEPT !.continuous = track]
             f == [e EXCEPT !.haveContinuous = TRUE]
  <2>1. \A a \in Axes : t.angle[a] \in Int /\ c.continuous[a] \in Int
    BY <1>0, <1>2 DEF Usable, AllFinite, Num, Core
  <2>2. track \in [Axes -> Int]
    BY <2>1, UnwrapCloses
  <2>3. OnTelemetry(c, t) = [f EXCEPT !.angleValid = TRUE]
    BY <1>2 DEF OnTelemetry
  <2> HIDE DEF track
  <2>4. d \in Core
    BY <1>0, <1>2, CoreUpdates DEF Usable
  <2> HIDE DEF d
  <2>5. f \in Core
    BY <2>2, <2>4, CoreUpdates
  <2> HIDE DEF f
  <2> QED
    BY <2>3, <2>5, CoreUpdates
<1> QED
  BY <1>1, <1>2

(* The passing of time leaves a core.                                      *)
LEMMA AgedType ==
  ASSUME NEW c \in Core PROVE Aged(c) \in Core
<1>1. \A age \in Ages : Older(age) \in Ages
  BY CoreAssumption DEF Older, Ages
<1> DEFINE x == Older(c.commandAge)
           y == Older(c.telemetryAge)
           d == [c EXCEPT !.commandAge = x]
           e == [d EXCEPT !.telemetryAge = y]
<1>2. c.commandAge \in Ages /\ c.telemetryAge \in Ages
  BY DEF Core
<1>3. x \in Ages /\ y \in Ages
  BY <1>1, <1>2
<1>4. Aged(c) = e
  BY DEF Aged, Core
<1> HIDE DEF x, y
<1>5. d \in Core
  BY <1>3, CoreUpdates
<1> HIDE DEF d
<1>6. e \in Core
  BY <1>3, <1>5, CoreUpdates
<1> QED
  BY <1>4, <1>6

(* What an axis is driven to, once the limits have had their say.          *)
LEMMA LimitedType ==
  ASSUME NEW c \in Core, NEW a \in Axes
  PROVE  Limited(c, a) \in Int /\ BoardValue(a, Limited(c, a)) \in Int
<1>1. c.target[a] \in Int /\ c.cfg.limitMin[a] \in Num /\ c.cfg.limitMax[a] \in Num
  BY DEF Core, Config
<1>2. Limited(c, a) \in Int
  BY <1>1, ClampType DEF Limited
<1> QED
  BY <1>2 DEF BoardValue

(* Every frame the core builds is one, if the slew is a number.            *)
LEMMA TickType ==
  ASSUME NEW c \in Core, c.cfg.slew \in Int
  PROVE  Tick(c) \in Frame
<1>1. HoldFrame \in Frame
  BY Literals DEF HoldFrame, Frame, WireModes
<1>2. MotionFrame(c) \in Frame
  <2> DEFINE byAngle(a) == c.mode = "Position" \/ RollHeld(c, a)
             mode == [a \in Axes |->
                        IF ~byAngle(a) THEN "SPEED"
                        ELSE IF c.relative /\ ~RollHeld(c, a) THEN "ANGLE_REL_FRAME"
                        ELSE "ANGLE"]
             speed == [a \in Axes |->
                        RateUnits(IF byAngle(a) THEN c.cfg.slew
                                  ELSE BoardValue(a, Limited(c, a)))]
             angle == [a \in Axes |->
                        IF byAngle(a) /\ ~RollHeld(c, a)
                        THEN AngleUnits(BoardValue(a, Limited(c, a))) ELSE 0]
             moving == \E a \in Axes : mode[a] # "SPEED" \/ speed[a] # 0
  <2>1. mode \in [Axes -> WireModes]
    BY DEF WireModes
  <2>2. speed \in [Axes -> Int]
    BY LimitedType, RateUnitsSign
  <2>3. angle \in [Axes -> Int]
    BY LimitedType, AngleUnitsType
  <2>4. moving \in BOOLEAN
    OBVIOUS
  <2>5. MotionFrame(c) = [mode |-> mode, speed |-> speed, angle |-> angle,
                          moving |-> moving]
    BY Zenon DEF MotionFrame
  <2> HIDE DEF mode, speed, angle, moving
  <2> QED
    BY <2>1, <2>2, <2>3, <2>4, <2>5 DEF Frame
<1> QED
  BY <1>1, <1>2 DEF Tick

-----------------------------------------------------------------------------
(* Effects. *)

(* Only setConfig touches the configuration.                               *)
LEMMA ConfigKept ==
  ASSUME NEW c \in Core
  PROVE  /\ ClearCommand(c).cfg = c.cfg /\ SubmitHold(c).cfg = c.cfg
         /\ \A b : /\ SetControlAllowed(c, b).cfg = c.cfg
                   /\ SetArmed(c, b).cfg = c.cfg
                   /\ SetLinkUp(c, b).cfg = c.cfg
         /\ \A v : /\ SubmitRate(c, v).cfg = c.cfg
                   /\ \A b : SubmitAngle(c, v, b).cfg = c.cfg
         /\ \A t : OnTelemetry(c, t).cfg = c.cfg
         /\ Aged(c).cfg = c.cfg
<1>1. ClearCommand(c).cfg = c.cfg
  BY DEF ClearCommand, Core
<1>2. SubmitHold(c).cfg = c.cfg
  BY <1>1 DEF SubmitHold, ClearCommand, Core
<1>3. \A b : /\ SetControlAllowed(c, b).cfg = c.cfg
             /\ SetArmed(c, b).cfg = c.cfg
             /\ SetLinkUp(c, b).cfg = c.cfg
  BY DEF SetControlAllowed, SetArmed, SetLinkUp, ClearCommand, Core
<1>4. \A v : SubmitRate(c, v).cfg = c.cfg
  BY <1>2 DEF SubmitRate, Core
<1>5. \A v, b : SubmitAngle(c, v, b).cfg = c.cfg
  BY <1>2 DEF SubmitAngle, Core
<1>6. \A t : OnTelemetry(c, t).cfg = c.cfg
  BY DEF OnTelemetry, Core
<1>7. Aged(c).cfg = c.cfg
  BY DEF Aged, Core
<1> QED
  BY <1>1, <1>2, <1>3, <1>4, <1>5, <1>6, <1>7

(* What no call but one changes: the three gates, and what telemetry left. *)
Gates(c) == <<c.controlAllowed, c.armed, c.linkUp>>
Track(c) == <<c.angleValid, c.continuous, c.telemetryAge>>

(* A hold leaves no motion pending.                                        *)
LEMMA HoldEffect ==
  ASSUME NEW c \in Core
  PROVE  /\ SubmitHold(c).mode = "Idle"
         /\ Gates(SubmitHold(c)) = Gates(c) /\ Track(SubmitHold(c)) = Track(c)
         /\ SubmitHold(c).cfg = c.cfg
  BY DEF SubmitHold, ClearCommand, Gates, Track, Core

(* A command leaves the gates and the track alone, and motion pending only *)
(* where motion is permitted.                                              *)
LEMMA RateEffect ==
  ASSUME NEW c \in Core, NEW v
  PROVE  /\ SubmitRate(c, v).mode # "Idle" => MotionPermitted(c)
         /\ Gates(SubmitRate(c, v)) = Gates(c) /\ Track(SubmitRate(c, v)) = Track(c)
         /\ SubmitRate(c, v).cfg = c.cfg
<1>1. CASE ~Accepted(c, v)
  BY <1>1, HoldEffect DEF SubmitRate
<1>2. CASE Accepted(c, v)
  BY <1>2 DEF SubmitRate, Accepted, Gates, Track, Core
<1> QED
  BY <1>1, <1>2

(* ... whether it carries rates or angles.                                 *)
LEMMA AngleEffect ==
  ASSUME NEW c \in Core, NEW v, NEW relative
  PROVE  LET d == SubmitAngle(c, v, relative)
         IN  /\ d.mode # "Idle" => MotionPermitted(c)
             /\ Gates(d) = Gates(c) /\ Track(d) = Track(c) /\ d.cfg = c.cfg
<1>1. CASE ~Accepted(c, v)
  BY <1>1, HoldEffect DEF SubmitAngle
<1>2. CASE Accepted(c, v)
  BY <1>2 DEF SubmitAngle, Accepted, Gates, Track, Core
<1> QED
  BY <1>1, <1>2

(* A gate that is shut drops the command; an open one keeps it.            *)
LEMMA ArmedEffect ==
  ASSUME NEW c \in Core, NEW b \in BOOLEAN
  PROVE  /\ SetArmed(c, b).mode = IF b THEN c.mode ELSE "Idle"
         /\ Gates(SetArmed(c, b)) = <<c.controlAllowed, b, c.linkUp>>
         /\ Track(SetArmed(c, b)) = Track(c) /\ SetArmed(c, b).cfg = c.cfg
<1>1. CASE b
  BY <1>1 DEF SetArmed, Gates, Track, Core
<1>2. CASE ~b
  BY <1>2 DEF SetArmed, ClearCommand, Gates, Track, Core
<1> QED
  BY <1>1, <1>2

(* The same of the link, whose loss also ends the track.                   *)
LEMMA LinkEffect ==
  ASSUME NEW c \in Core, NEW b \in BOOLEAN
  PROVE  /\ SetLinkUp(c, b).mode = IF b THEN c.mode ELSE "Idle"
         /\ Gates(SetLinkUp(c, b)) = <<c.controlAllowed, c.armed, b>>
         /\ SetLinkUp(c, b).angleValid = (b /\ c.angleValid)
         /\ SetLinkUp(c, b).telemetryAge = c.telemetryAge
         /\ SetLinkUp(c, b).continuous = c.continuous
         /\ SetLinkUp(c, b).cfg = c.cfg
<1>1. CASE b
  BY <1>1 DEF SetLinkUp, Gates, Core
<1>2. CASE ~b
  BY <1>2 DEF SetLinkUp, ClearCommand, Gates, Core
<1> QED
  BY <1>1, <1>2

(* Telemetry commands nothing ...                                          *)
LEMMA TelemetryEffect ==
  ASSUME NEW c \in Core, NEW t
  PROVE  /\ OnTelemetry(c, t).mode = c.mode
         /\ Gates(OnTelemetry(c, t)) = Gates(c) /\ OnTelemetry(c, t).cfg = c.cfg
         /\ Usable(t) => OnTelemetry(c, t).telemetryAge = t.age
  BY DEF OnTelemetry, Gates, Core

(* ... nor does the passing of time ...                                    *)
LEMMA AgedEffect ==
  ASSUME NEW c \in Core
  PROVE  /\ Aged(c).mode = c.mode /\ Gates(Aged(c)) = Gates(c) /\ Aged(c).cfg = c.cfg
         /\ Aged(c).telemetryAge = Older(c.telemetryAge)
  BY DEF Aged, Gates, Core

(* ... nor a new configuration.                                            *)
LEMMA ConfigEffect ==
  ASSUME NEW c \in Core, NEW cfg
  PROVE  /\ SetConfig(c, cfg).mode = c.mode
         /\ Gates(SetConfig(c, cfg)) = Gates(c)
         /\ Track(SetConfig(c, cfg)) = Track(c)
  BY DEF SetConfig, Gates, Track, Core

(* Only a pending command behind open gates makes a frame that moves.      *)
LEMMA MovingIsPermitted ==
  ASSUME NEW c
  PROVE  /\ Tick(c).moving \in BOOLEAN
         /\ Tick(c).moving => MotionPermitted(c) /\ c.mode # "Idle"
<1>1. HoldFrame.moving = FALSE /\ MotionFrame(c).moving \in BOOLEAN
  BY DEF HoldFrame, MotionFrame
<1> QED
  BY <1>1 DEF Tick, NothingToDo

-----------------------------------------------------------------------------
(* What every frame satisfies. *)

(* A frame with `moving' false is the hold frame.                          *)
LEMMA StillIsHold ==
  ASSUME NEW c, ~Tick(c).moving PROVE Tick(c) = HoldFrame
<1>1. CASE NothingToDo(c) \/ LimitsStale(c)
  BY <1>1 DEF Tick
<1>2. CASE ~(NothingToDo(c) \/ LimitsStale(c))
  <2> DEFINE m == MotionFrame(c)
  <2>1. Tick(c) = m /\ ~m.moving
    BY <1>2 DEF Tick
  <2>2. \A a \in Axes : m.mode[a] = "SPEED" /\ m.speed[a] = 0
    BY <2>1 DEF MotionFrame
  <2>3. m.mode = [a \in Axes |-> "SPEED"] /\ m.speed = Zero
    BY <2>2 DEF MotionFrame, Zero
  <2>4. \A a \in Axes : ~(c.mode = "Position" \/ RollHeld(c, a))
    BY <2>2 DEF MotionFrame
  <2>5. m.angle = Zero
    BY <2>4 DEF MotionFrame, Zero
  <2>6. m = [mode |-> m.mode, speed |-> m.speed, angle |-> m.angle, moving |-> m.moving]
    BY DEF MotionFrame
  <2>7. m.moving = FALSE
    BY <2>1 DEF MotionFrame
  <2> HIDE DEF m
  <2> QED
    BY <2>1, <2>3, <2>5, <2>6, <2>7, Zenon DEF HoldFrame
<1> QED
  BY <1>1, <1>2

(* A frame that can move the camera is built from a fresh angle, where the *)
(* limits apply.                                                           *)
LEMMA MovingIsFresh ==
  ASSUME NEW c, c.cfg.enforceLimits, Tick(c).moving PROVE ~AngleStale(c)
  BY DEF Tick, HoldFrame, LimitsStale

(* The limits are applied to every frame that is not the hold frame.       *)
LEMMA LimitingUnlessHold ==
  ASSUME NEW c, c.cfg.enforceLimits
  PROVE  Tick(c) = HoldFrame \/ (Tick(c) = MotionFrame(c) /\ Limiting(c))
  BY DEF Tick, LimitsStale, Limiting

(* A rate frame turns no axis outward at or beyond its limit.              *)
LEMMA RateRespectsLimits ==
  ASSUME NEW c \in Core, c.cfg.enforceLimits, SaneLimits(c.cfg),
         NEW a \in Axes, Tick(c).mode[a] = "SPEED"
  PROVE  LET turn == BoardValue(a, Tick(c).speed[a])
         IN  /\ c.continuous[a] <= c.cfg.limitMin[a] => turn >= 0
             /\ c.continuous[a] >= c.cfg.limitMax[a] => turn <= 0
<1> DEFINE turn == BoardValue(a, Tick(c).speed[a])
<1>0. /\ c.cfg.limitMin[a] \in Int /\ c.cfg.limitMax[a] \in Int
      /\ c.continuous[a] \in Int /\ c.target[a] \in Int
  BY DEF SaneLimits, Core
<1>1. CASE Tick(c) = HoldFrame
  BY <1>1 DEF HoldFrame, Zero, BoardValue
<1>2. CASE Tick(c) = MotionFrame(c) /\ Limiting(c)
  <2> DEFINE x == Limited(c, a)
             y == BoardValue(a, x)
  <2>1. c.mode # "Position" /\ ~RollHeld(c, a)
    BY <1>2 DEF MotionFrame
  <2>2. Tick(c).speed[a] = RateUnits(y)
    BY <1>2, <2>1 DEF MotionFrame
  <2>3. x \in Int /\ y \in Int
    BY LimitedType
  <2>4. /\ BlockedAtMin(c, a) => x >= 0
        /\ BlockedAtMax(c, a) => x <= 0
    BY <1>0, <1>2, <2>1 DEF Limited
  <2>5. /\ c.continuous[a] <= c.cfg.limitMin[a] => BlockedAtMin(c, a)
        /\ c.continuous[a] >= c.cfg.limitMax[a] => BlockedAtMax(c, a)
    BY <1>0, <1>2, CoreAssumption DEF BlockedAtMin, BlockedAtMax, Le
  <2>6. y = IF a = "pitch" THEN -x ELSE x
    BY DEF BoardValue
  <2>7. turn = IF a = "pitch" THEN -RateUnits(y) ELSE RateUnits(y)
    BY <2>2 DEF BoardValue
  <2> HIDE DEF x, y, turn
  <2>8. /\ RateUnits(y) \in Int
        /\ y >= 0 => RateUnits(y) >= 0
        /\ y <= 0 => RateUnits(y) <= 0
    BY <2>3, RateUnitsSign
  <2>9. /\ x >= 0 => turn >= 0
        /\ x <= 0 => turn <= 0
    BY <2>3, <2>6, <2>7, <2>8
  <2> QED
    BY <2>4, <2>5, <2>9 DEF turn
<1> QED
  BY <1>1, <1>2, LimitingUnlessHold

(* An angle frame asks for a target inside the limits.                     *)
LEMMA TargetInside ==
  ASSUME NEW c \in Core, c.cfg.enforceLimits, SaneLimits(c.cfg),
         NEW a \in Axes, Tick(c).mode[a] # "SPEED", ~RollHeld(c, a)
  PROVE  \E x \in c.cfg.limitMin[a] .. c.cfg.limitMax[a] :
           Tick(c).angle[a] = AngleUnits(BoardValue(a, x))
<1>1. CASE Tick(c) = HoldFrame
  BY <1>1 DEF HoldFrame
<1>2. CASE Tick(c) = MotionFrame(c) /\ Limiting(c)
  <2>1. c.mode = "Position"
    BY <1>2 DEF MotionFrame
  <2>2. Tick(c).angle[a] = AngleUnits(BoardValue(a, Limited(c, a)))
    BY <1>2, <2>1 DEF MotionFrame
  <2>3. Limited(c, a) = Clamp(c.target[a], c.cfg.limitMin[a], c.cfg.limitMax[a])
    BY <1>2, <2>1 DEF Limited
  <2>4. Limited(c, a) \in c.cfg.limitMin[a] .. c.cfg.limitMax[a]
    <3>1. /\ c.target[a] \in Int
          /\ c.cfg.limitMin[a] \in Int /\ c.cfg.limitMax[a] \in Int
          /\ c.cfg.limitMin[a] <= c.cfg.limitMax[a]
      BY DEF Core, SaneLimits
    <3> QED
      BY <2>3, <3>1, ClampType DEF Num
  <2> QED
    BY <2>2, <2>4 DEF BoardValue
<1> QED
  BY <1>1, <1>2, LimitingUnlessHold
=============================================================================
