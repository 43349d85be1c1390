----------------------------- MODULE GimbalCore -----------------------------
(***************************************************************************)
(* sbgc_driver::GimbalCore as a state machine: each action is one call of  *)
(* its public interface, in any order, plus the passing of time.  What the *)
(* last call returned is kept in `returned', so that properties can speak  *)
(* of the frame that goes to the wire.                                     *)
(***************************************************************************)
EXTENDS CoreOps

CONSTANTS
  Configs,        \* configurations given to the constructor or to setConfig
  Rates, Angles,  \* [Axes -> Num]: commands given to submitRate, submitAngle
  Reports,        \* telemetry samples given to onTelemetry
  TrackBound      \* the model follows the camera no further than this

ASSUME CoreInputs ==
  /\ Configs \subseteq Config
  /\ Rates \subseteq [Axes -> Num] /\ Angles \subseteq [Axes -> Num]
  /\ Reports \subseteq Sample
  /\ TrackBound \in Nat

(* Ages saturate beyond every time out they are compared with. *)
ASSUME AgesSuffice ==
  \A cfg \in Configs : Sane(Sanitised(cfg)) =>
    /\ Sanitised(cfg).commandTimeout < MaxAge
    /\ Sanitised(cfg).angleFresh < MaxAge

VARIABLES
  core,     \* the object
  returned  \* what the call just made returned: a frame from tick() or nothing,
            \* with what it wrote to status_

vars == <<core, returned>>

Statuses ==
  [commandTimeout : BOOLEAN, limitsStale : BOOLEAN,
   blockedAtMin : SUBSET Axes, blockedAtMax : SUBSET Axes, mode : Modes]
Nothing  == [tick |-> FALSE]
Returned == {Nothing} \cup [tick : {TRUE}, frame : Frame, status : Statuses]

(* The constructor repairs nothing, and a non-finite slew would reach a     *)
(* conversion that is undefined for it; the bounds of the node's parameter *)
(* (1 to 120 degrees per second) keep the one it is given finite.          *)
Init ==
  /\ \E cfg \in Configs : cfg.slew # NaN /\ core = NewCore(cfg)
  /\ returned = Nothing

-----------------------------------------------------------------------------
(* The calls.  Only tick() returns anything. *)
Becomes(c) == core' = c /\ returned' = Nothing

CallSetConfig(cfg)  == Becomes(SetConfig(core, cfg))
CallSetControlAllowed(allowed) == Becomes(SetControlAllowed(core, allowed))
CallSetArmed(on)    == Becomes(SetArmed(core, on))
CallSetLinkUp(up)   == Becomes(SetLinkUp(core, up))
CallSubmitRate(v)   == Becomes(SubmitRate(core, v))
CallSubmitAngle(v, relative) == Becomes(SubmitAngle(core, v, relative))
CallSubmitHold      == Becomes(SubmitHold(core))

CallOnTelemetry(t) ==
  LET c == OnTelemetry(core, t)
  IN  /\ \A a \in Axes : c.continuous[a] \in -TrackBound .. TrackBound
      /\ Becomes(c)

CallTick ==
  /\ returned' = [tick |-> TRUE, frame |-> Tick(core), status |-> TickStatus(core)]
  /\ UNCHANGED core

(* The clock the constructor was given advances. *)
Advance == Becomes(Aged(core))

Next ==
  \/ \E cfg \in Configs : CallSetConfig(cfg)
  \/ \E b \in BOOLEAN : CallSetControlAllowed(b) \/ CallSetArmed(b) \/ CallSetLinkUp(b)
  \/ \E v \in Rates : CallSubmitRate(v)
  \/ \E v \in Angles, rel \in BOOLEAN : CallSubmitAngle(v, rel)
  \/ CallSubmitHold
  \/ \E t \in Reports : CallOnTelemetry(t)
  \/ CallTick
  \/ Advance

Spec == Init /\ [][Next]_vars

-----------------------------------------------------------------------------
TypeOK == core \in Core /\ returned \in Returned

(* A motion command is pending only while every gate is open: whatever the *)
(* order of commands and gate changes, none is left over to act when a     *)
(* gate opens again ("dropped, not stored", submitRate and setArmed).      *)
NoQueuedMotion ==
  core.mode # "Idle" => MotionPermitted(core) /\ core.haveCommand

(* The two flags that say a track exists agree, so a limit is never judged *)
(* on a track whose first sample has not arrived since the link came up.   *)
TrackKnown == core.angleValid <=> core.haveContinuous

(* A frame said not to move is the hold frame to the last field: neither a *)
(* roll lock nor a stale target survives in it (holdFrame's comment).      *)
StillFrameHolds ==
  returned.tick /\ ~returned.frame.moving => returned.frame = HoldFrame

(* Sense(a, x): a wire value x of axis a, in the direction the angle and   *)
(* the limits of that axis are measured in.                                *)
Sense(a, x) == IF a = "pitch" THEN -x ELSE x

(* The next three speak of the state right after a tick, whose core is the *)
(* one the frame was built from.                                           *)
LimitsApply == returned.tick /\ core.cfg.enforceLimits /\ SaneLimits(core.cfg)

(* Whatever was commanded and whenever the limits changed, a frame built   *)
(* with the limits enforced turns no axis further out than a limit its     *)
(* track has reached.  A locked roll goes to the horizon by design.        *)
FrameRespectsLimits ==
  LimitsApply => \A a \in Axes :
    returned.frame.mode[a] = "SPEED" =>
      LET turn == Sense(a, returned.frame.speed[a])
      IN  /\ core.continuous[a] <= core.cfg.limitMin[a] => turn >= 0
          /\ core.continuous[a] >= core.cfg.limitMax[a] => turn <= 0

(* An absolute target on the wire lies inside the limits in force when the *)
(* frame is built, even if they were tightened after the command.          *)
FrameTargetsInside ==
  LimitsApply => \A a \in Axes :
    returned.frame.mode[a] # "SPEED" /\ ~RollHeld(core, a) =>
      \E x \in core.cfg.limitMin[a] .. core.cfg.limitMax[a] :
        returned.frame.angle[a] = AngleUnits(Sense(a, x))

(* No frame can cause motion while the angle is unknown or stale and the   *)
(* limits depend on it.                                                    *)
FrameNeedsFreshAngle ==
  LimitsApply /\ returned.frame.moving =>
    core.angleValid /\ ~Lt(core.cfg.angleFresh, core.telemetryAge)

(* The continuous track never moves by more than half a turn for one       *)
(* sample, and always agrees with the sample modulo a turn.                *)
TrackFollows ==
  [][\A t \in Reports :
       core.haveContinuous /\ Usable(t) /\ CallOnTelemetry(t) =>
         \A a \in Axes :
           /\ core'.continuous[a] - core.continuous[a] \in -HalfTurn .. HalfTurn
           /\ (core'.continuous[a] - t.angle[a]) % Turn = 0]_vars

(* A configuration that came through setConfig is sane, whatever was asked *)
(* for; it stays sane until the next.                                      *)
ConfigRepaired  == [][core'.cfg # core.cfg => Sane(core'.cfg)]_vars

(* The core is a MotionAuthority: an order is a pending motion command,    *)
(* live while the watchdog calls it fresh.                                 *)
OrderOf(c) == IF c.mode = "Idle" THEN "none"
              ELSE IF CommandFresh(c) THEN "live" ELSE "expired"
Order == OrderOf(core)

Authority == INSTANCE MotionAuthority WITH
  permitted <- MotionPermitted(core), order <- Order,
  moving <- returned.tick /\ returned.frame.moving

HonoursAuthority == Authority!Spec

(* No axis is stopped in both directions unless its range is one point:    *)
(* "a reversed range would block both directions at once and strand the    *)
(* camera", so setConfig puts it in order.                                 *)
NeverStranded ==
  returned.tick => \A a \in Axes :
    a \in returned.status.blockedAtMin /\ a \in returned.status.blockedAtMax
      => core.cfg.limitMin[a] = core.cfg.limitMax[a]
=============================================================================
