------------------------------- MODULE CoreOps -------------------------------
(***************************************************************************)
(* The decisions of sbgc_driver::GimbalCore as operators on a record: the  *)
(* motion gates, the pending command and its watchdog, the travel limits   *)
(* and the frame sent each control cycle.  Module GimbalCore makes a state *)
(* machine of them, module DriverNode calls them from its callbacks.       *)
(*                                                                         *)
(* Doubles become integers of one angle unit, with NaN standing for every  *)
(* value std::isfinite refuses.  Time stamps become ages: `x stamped at s' *)
(* is `x is now() - s old', saturating at MaxAge, which lies beyond every  *)
(* time out an age is compared with.  Where the clock may be set back      *)
(* (GimbalLoop) an age may be negative; elsewhere JumpMax is 0.            *)
(***************************************************************************)
EXTENDS Integers

CONSTANTS
  Axes,        \* the axes modelled: a subset of {"roll", "pitch", "yaw"}
  NaN,         \* any non-finite double
  HalfTurn,    \* pi, in angle units
  RateScale,   \* angle units per second in one count of the wire's speed field
  AngleScale,  \* angle units in one count of the wire's angle field
  WireMax,     \* the largest count of a signed wire field
  MaxAge,      \* where ages saturate
  JumpMax,     \* how far the clock may be set back, all jumps together
  Defaults     \* the values a default-constructed Config holds

Num  == Int \cup {NaN}
Turn == 2 * HalfTurn
Ages == -JumpMax .. MaxAge

(* struct Config.  limits_source is reported and never read: left out. *)
Config ==
  [maxRate : [Axes -> Num], limitMin : [Axes -> Num], limitMax : [Axes -> Num],
   invert : [Axes -> BOOLEAN], enforceLimits : BOOLEAN, rollLocked : BOOLEAN,
   commandTimeout : Num, angleFresh : Num, slew : Num]

Modes == {"Idle", "Position", "Velocity"}

(* What setConfig leaves in force: ordered finite limits, positive finite  *)
(* rates, and time outs that an age can outgrow.                           *)
SaneLimits(cfg) ==
  \A a \in Axes : /\ cfg.limitMin[a] \in Int /\ cfg.limitMax[a] \in Int
                  /\ cfg.limitMin[a] <= cfg.limitMax[a]
SaneRates(cfg) ==
  /\ \A a \in Axes : cfg.maxRate[a] \in Int /\ cfg.maxRate[a] > 0
  /\ cfg.slew \in Int /\ cfg.slew > 0
SaneTimeouts(cfg) ==
  /\ cfg.commandTimeout \in Int /\ cfg.commandTimeout > 0
  /\ cfg.angleFresh \in Int /\ cfg.angleFresh > 0
Sane(cfg) == SaneLimits(cfg) /\ SaneRates(cfg) /\ SaneTimeouts(cfg)

ASSUME CoreAssumption ==
  /\ Axes \subseteq {"roll", "pitch", "yaw"}
  /\ NaN \notin Int
  /\ HalfTurn \in Nat \ {0}
  /\ RateScale \in Nat \ {0} /\ AngleScale \in Nat \ {0}
  /\ WireMax \in Nat \ {0} /\ MaxAge \in Nat /\ JumpMax \in Nat
  /\ Defaults \in Config /\ Sane(Defaults)

(***************************************************************************)
(* Double comparisons: false whenever an operand is NaN.                   *)
(***************************************************************************)
Le(x, y) == x # NaN /\ y # NaN /\ x <= y
Lt(x, y) == x # NaN /\ y # NaN /\ x < y
Neg(x)   == IF x = NaN THEN NaN ELSE -x
AllFinite(v) == \A a \in Axes : v[a] # NaN
Positive(x)  == Lt(0, x)
Magnitude(x) == IF Lt(x, 0) THEN Neg(x) ELSE x

(* std::clamp as libstdc++ compiles it; lo > hi is not checked there. *)
Clamp(v, lo, hi) == IF Lt(v, lo) THEN lo ELSE IF Lt(hi, v) THEN hi ELSE v

(***************************************************************************)
(* Configuration.                                                          *)
(***************************************************************************)

SanitisedUnordered(cfg) ==   \* mutant: a reversed range is left as it is
  LET orDefault(x, d) == IF Positive(x) THEN x ELSE d
  IN  [cfg EXCEPT
        !.maxRate = [a \in Axes |-> orDefault(cfg.maxRate[a], Defaults.maxRate[a])],
        !.slew           = orDefault(@, Defaults.slew),
        !.commandTimeout = orDefault(@, Defaults.commandTimeout),
        !.angleFresh     = orDefault(@, Defaults.angleFresh)]

(* setConfig's repair of a configuration: a value that is not usable falls *)
(* back to its default, a reversed range is put in order.                  *)
Sanitised(cfg) ==
  LET orDefault(x, d) == IF Positive(x) THEN x ELSE d
      bounded(a) == cfg.limitMin[a] # NaN /\ cfg.limitMax[a] # NaN
      lo(a) == IF bounded(a) THEN cfg.limitMin[a] ELSE Defaults.limitMin[a]
      hi(a) == IF bounded(a) THEN cfg.limitMax[a] ELSE Defaults.limitMax[a]
  IN  [cfg EXCEPT
        !.maxRate  = [a \in Axes |-> orDefault(cfg.maxRate[a], Defaults.maxRate[a])],
        !.limitMin = [a \in Axes |-> IF lo(a) > hi(a) THEN hi(a) ELSE lo(a)],
        !.limitMax = [a \in Axes |-> IF lo(a) > hi(a) THEN lo(a) ELSE hi(a)],
        !.slew           = orDefault(@, Defaults.slew),
        !.commandTimeout = orDefault(@, Defaults.commandTimeout),
        !.angleFresh     = orDefault(@, Defaults.angleFresh)]

(***************************************************************************)
(* The core's state and the gates.                                         *)
(***************************************************************************)
Core ==
  [cfg : Config,
   controlAllowed : BOOLEAN, armed : BOOLEAN, linkUp : BOOLEAN,
   mode : Modes, relative : BOOLEAN, target : [Axes -> Int],
   haveCommand : BOOLEAN, commandAge : Ages,
   angleValid : BOOLEAN, haveContinuous : BOOLEAN,
   continuous : [Axes -> Int], telemetryAge : Ages]

Zero == [a \in Axes |-> 0]

(* The constructor takes its configuration as it comes; stamps start at    *)
(* the clock's zero, long ago.                                             *)
NewCore(cfg) ==
  [cfg |-> cfg,
   controlAllowed |-> FALSE, armed |-> FALSE, linkUp |-> FALSE,
   mode |-> "Idle", relative |-> FALSE, target |-> Zero,
   haveCommand |-> FALSE, commandAge |-> MaxAge,
   angleValid |-> FALSE, haveContinuous |-> FALSE,
   continuous |-> Zero, telemetryAge |-> MaxAge]

PermittedByArming(c) == c.armed /\ c.linkUp   \* mutant: allow_control forgotten
MotionPermitted(c) == c.controlAllowed /\ c.armed /\ c.linkUp

ClearCommand(c) ==
  [c EXCEPT !.haveCommand = FALSE, !.mode = "Idle", !.target = Zero]

SetConfig(c, cfg) == [c EXCEPT !.cfg = Sanitised(cfg)]

SetControlAllowed(c, allowed) ==
  LET d == [c EXCEPT !.controlAllowed = allowed]
  IN  IF allowed THEN d ELSE ClearCommand(d)

SetArmedKeeping(c, on) == [c EXCEPT !.armed = on]   \* mutant: nothing is dropped
SetArmed(c, on) ==
  LET d == [c EXCEPT !.armed = on] IN IF on THEN d ELSE ClearCommand(d)

SetLinkUpCommandKept(c, up) ==   \* mutant: the command survives the link
  IF up THEN [c EXCEPT !.linkUp = up]
  ELSE [c EXCEPT !.linkUp = up, !.haveContinuous = FALSE, !.angleValid = FALSE]

SetLinkUp(c, up) ==
  LET d == [c EXCEPT !.linkUp = up]
  IN  IF up THEN d
      ELSE ClearCommand([d EXCEPT !.haveContinuous = FALSE, !.angleValid = FALSE])

(***************************************************************************)
(* Commands.                                                               *)
(***************************************************************************)
SubmitHold(c) == [ClearCommand(c) EXCEPT !.commandAge = 0, !.haveCommand = TRUE]

AcceptedUngated(c, v)   == AllFinite(v)         \* mutant: the gates are left to tick()
AcceptedUnchecked(c, v) == MotionPermitted(c)   \* mutant: NaN goes through
Accepted(c, v) == AllFinite(v) /\ MotionPermitted(c)
Oriented(c, v) == [a \in Axes |-> IF c.cfg.invert[a] THEN Neg(v[a]) ELSE v[a]]

SubmitRate(c, v) ==
  LET lim(a) == Magnitude(c.cfg.maxRate[a])
  IN  IF ~Accepted(c, v) THEN SubmitHold(c)
      ELSE [c EXCEPT
              !.target = [a \in Axes |-> Clamp(Oriented(c, v)[a], Neg(lim(a)), lim(a))],
              !.mode = "Velocity", !.commandAge = 0, !.haveCommand = TRUE]

SubmitAngle(c, v, relative) ==
  IF ~Accepted(c, v) THEN SubmitHold(c)
  ELSE [c EXCEPT !.target = Oriented(c, v), !.mode = "Position",
                 !.relative = relative, !.commandAge = 0, !.haveCommand = TRUE]

(***************************************************************************)
(* Telemetry: t is [valid, angle, age], age = NaN for a non-finite stamp.  *)
(***************************************************************************)

(* std::fmod: the remainder has the sign of the dividend. *)
Fmod(x, m) == IF x >= 0 THEN x % m ELSE -((-x) % m)

ShortestStepOneWay(d) ==   \* mutant: only the first loop
  IF d > HalfTurn THEN HalfTurn - ((HalfTurn - d) % Turn) ELSE d

(* What the two while loops leave of d: the value congruent to it in       *)
(* (-HalfTurn, HalfTurn].                                                  *)
ShortestStep(d) == HalfTurn - ((HalfTurn - d) % Turn)

UnwrapOnto(continuous, wrapped) ==
  continuous + ShortestStep(wrapped - Fmod(continuous, Turn))

Sample == [valid : BOOLEAN, angle : [Axes -> Num], age : Ages \cup {NaN}]
Usable(t) == t.valid /\ AllFinite(t.angle) /\ t.age # NaN

OnTelemetry(c, t) ==
  IF ~Usable(t) THEN [c EXCEPT !.haveContinuous = FALSE, !.angleValid = FALSE]
  ELSE [c EXCEPT
          !.telemetryAge = t.age,
          !.continuous = [a \in Axes |-> IF c.haveContinuous
                                         THEN UnwrapOnto(c.continuous[a], t.angle[a])
                                         ELSE t.angle[a]],
          !.haveContinuous = TRUE, !.angleValid = TRUE]

(***************************************************************************)
(* The frame of one control cycle.                                         *)
(***************************************************************************)

(* Rounding half away from zero and saturating at int16, both at the       *)
(* model's scale.                                                          *)
Saturate(n) == IF n > WireMax THEN WireMax
               ELSE IF n < -WireMax - 1 THEN -WireMax - 1 ELSE n
RoundAway(x, scale) == IF x < 0 THEN -((-2 * x + scale) \div (2 * scale))
                                ELSE (2 * x + scale) \div (2 * scale)
RateUnits(x)  == Saturate(RoundAway(x, RateScale))
AngleUnits(x) == Saturate(RoundAway(x, AngleScale))

(* The board's pitch is positive downward, the driver's positive up. *)
BoardValue(a, x) == IF a = "pitch" THEN -x ELSE x

WireModes == {"SPEED", "ANGLE", "ANGLE_REL_FRAME"}
Frame == [mode : [Axes -> WireModes], speed : [Axes -> Int],
          angle : [Axes -> Int], moving : BOOLEAN]

HoldFrame == [mode |-> [a \in Axes |-> "SPEED"], speed |-> Zero,
              angle |-> Zero, moving |-> FALSE]

CommandFreshForever(c) == c.haveCommand      \* mutant: no watchdog
AngleStaleByFlag(c)    == ~c.angleValid      \* mutant: an old angle is good enough
CommandFresh(c) == c.haveCommand /\ Le(c.commandAge, c.cfg.commandTimeout)
AngleStale(c)   == ~c.angleValid \/ Lt(c.cfg.angleFresh, c.telemetryAge)

NothingToDo(c) == ~MotionPermitted(c) \/ ~CommandFresh(c) \/ c.mode = "Idle"
LimitsStale(c) == ~NothingToDo(c) /\ c.cfg.enforceLimits /\ AngleStale(c)
Limiting(c)    == ~NothingToDo(c) /\ c.cfg.enforceLimits /\ ~AngleStale(c)

BlockedPastMin(c, a) == Limiting(c) /\ Lt(c.continuous[a], c.cfg.limitMin[a])   \* mutant
BlockedAtMin(c, a) == Limiting(c) /\ Le(c.continuous[a], c.cfg.limitMin[a])
BlockedAtMax(c, a) == Limiting(c) /\ Le(c.cfg.limitMax[a], c.continuous[a])

LimitedRates(c, a) ==   \* mutant: positions were clamped when submitted
  LET v == c.target[a]
  IN  IF (BlockedAtMin(c, a) /\ v < 0) \/ (BlockedAtMax(c, a) /\ v > 0) THEN 0 ELSE v

(* The target after the limits in force now. *)
Limited(c, a) ==
  LET v == c.target[a]
  IN  IF ~Limiting(c) THEN v
      ELSE IF c.mode = "Position"
        THEN Clamp(v, c.cfg.limitMin[a], c.cfg.limitMax[a])
      ELSE IF (BlockedAtMin(c, a) /\ v < 0) \/ (BlockedAtMax(c, a) /\ v > 0)
        THEN 0 ELSE v

(* A locked roll is driven to the horizon instead of to its target. *)
RollHeld(c, a) == c.cfg.rollLocked /\ a = "roll"

MotionFrame(c) ==
  LET byAngle(a) == c.mode = "Position" \/ RollHeld(c, a)
      mode == [a \in Axes |->
                 IF ~byAngle(a) THEN "SPEED"
                 ELSE IF c.relative /\ ~RollHeld(c, a) THEN "ANGLE_REL_FRAME"
                 ELSE "ANGLE"]
      speed == [a \in Axes |->
                 RateUnits(IF byAngle(a) THEN c.cfg.slew
                           ELSE BoardValue(a, Limited(c, a)))]
      angle == [a \in Axes |->
                 IF byAngle(a) /\ ~RollHeld(c, a)
                 THEN AngleUnits(BoardValue(a, Limited(c, a))) ELSE 0]
  IN  [mode |-> mode, speed |-> speed, angle |-> angle,
       moving |-> \E a \in Axes : mode[a] # "SPEED" \/ speed[a] # 0]

TickResting(c) ==   \* mutant: a frame that must not move keeps its modes
  IF NothingToDo(c) \/ LimitsStale(c) THEN [MotionFrame(c) EXCEPT !.moving = FALSE]
  ELSE MotionFrame(c)

Tick(c) == IF NothingToDo(c) \/ LimitsStale(c) THEN HoldFrame ELSE MotionFrame(c)

(* The part of CoreStatus that tick() writes. *)
TickStatus(c) ==
  [commandTimeout |-> ~CommandFresh(c),
   limitsStale |-> LimitsStale(c),
   blockedAtMin |-> {a \in Axes : BlockedAtMin(c, a)},
   blockedAtMax |-> {a \in Axes : BlockedAtMax(c, a)},
   mode |-> c.mode]

(* One unit of time. *)
Older(age) == IF age < MaxAge THEN age + 1 ELSE age
Aged(c) == [c EXCEPT !.commandAge = Older(@), !.telemetryAge = Older(@)]
=============================================================================
