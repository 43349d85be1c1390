-------------------------- MODULE GimbalCore_proofs --------------------------
(***************************************************************************)
(* Proofs about GimbalCore, for every value of its constants: the          *)
(* inductive invariant, with one lemma per call, and what follows from it. *)
(***************************************************************************)
EXTENDS GimbalCore, CoreOps_proofs

(* What a tick reports is a status.                                        *)
LEMMA TickStatusType ==
  ASSUME NEW c \in Core PROVE TickStatus(c) \in Statuses
<1>1. (~CommandFresh(c)) \in BOOLEAN /\ LimitsStale(c) \in BOOLEAN
  BY DEF CommandFresh, LimitsStale
<1>2. c.mode \in Modes
  BY DEF Core
<1>3. /\ {a \in Axes : BlockedAtMin(c, a)} \in SUBSET Axes
      /\ {a \in Axes : BlockedAtMax(c, a)} \in SUBSET Axes
  OBVIOUS
<1> QED
  BY <1>1, <1>2, <1>3 DEF TickStatus, Statuses

-----------------------------------------------------------------------------
(* The inductive invariant.                                                *)
(*                                                                         *)
(* Sound(c) is what every call preserves of the object: that its slew is a *)
(* number is what makes the frame of a tick one; that the two flags of the *)
(* track agree and that no motion is queued are properties in their own    *)
(* right.  IInv adds that the frame of a state is the one its core builds. *)
Sound(c) ==
  /\ c \in Core /\ c.cfg.slew \in Int
  /\ c.mode # "Idle" => MotionPermitted(c) /\ c.haveCommand
  /\ c.angleValid <=> c.haveContinuous

TickedNow ==
  /\ returned \in Returned
  /\ returned.tick => returned.frame = Tick(core)

IInv == Sound(core) /\ TickedNow

(* Construction.                                                           *)
LEMMA NewCoreSound ==
  ASSUME NEW cfg \in Config, cfg.slew # NaN PROVE Sound(NewCore(cfg))
<1>1. cfg.slew \in Int
  BY DEF Config, Num
<1> QED
  BY <1>1, NewCoreType DEF Sound, NewCore

(* setConfig replaces the configuration by a sane one and nothing else.    *)
LEMMA SetConfigSound ==
  ASSUME NEW c, Sound(c), NEW cfg \in Config PROVE Sound(SetConfig(c, cfg))
<1> DEFINE new == Sanitised(cfg)
<1>1. new \in Config /\ new.slew \in Int
  BY SanitisedSane DEF Sane, SaneRates
<1>2. SetConfig(c, cfg) = [c EXCEPT !.cfg = new]
  BY DEF SetConfig
<1> HIDE DEF new
<1>3. [c EXCEPT !.cfg = new] \in Core
  BY <1>1, CoreUpdates DEF Sound
<1>4. [c EXCEPT !.cfg = new].cfg = new
  BY DEF Sound, Core
<1> QED
  BY <1>1, <1>2, <1>3, <1>4 DEF Sound, MotionPermitted, Core

(* Whatever closes a gate drops the command, and opening one adds none.    *)
LEMMA GatesSound ==
  ASSUME NEW c, Sound(c), NEW b \in BOOLEAN
  PROVE  /\ Sound(SetControlAllowed(c, b))
         /\ Sound(SetArmed(c, b))
         /\ Sound(SetLinkUp(c, b))
<1>0. c \in Core
  BY DEF Sound
<1>1. /\ SetControlAllowed(c, b).cfg.slew \in Int
      /\ SetArmed(c, b).cfg.slew \in Int
      /\ SetLinkUp(c, b).cfg.slew \in Int
  BY ConfigKept DEF Sound
<1>2. Sound(SetControlAllowed(c, b))
  <2> DEFINE d == SetControlAllowed(c, b)
  <2>1. d \in Core
    BY <1>0, GatesType
  <2>2. /\ d.controlAllowed = b /\ d.armed = c.armed /\ d.linkUp = c.linkUp
        /\ d.angleValid = c.angleValid /\ d.haveContinuous = c.haveContinuous
    BY <1>0 DEF SetControlAllowed, ClearCommand, Core
  <2>3. /\ d.mode = IF b THEN c.mode ELSE "Idle"
        /\ d.haveCommand = IF b THEN c.haveCommand ELSE FALSE
    BY <1>0 DEF SetControlAllowed, ClearCommand, Core
  <2> HIDE DEF d
  <2>4. Sound(d)
    BY <1>1, <2>1, <2>2, <2>3 DEF Sound, MotionPermitted, d
  <2> QED
    BY <2>4 DEF d
<1>3. Sound(SetArmed(c, b))
  <2> DEFINE d == SetArmed(c, b)
  <2>1. d \in Core
    BY <1>0, GatesType
  <2>2. /\ d.controlAllowed = c.controlAllowed /\ d.armed = b /\ d.linkUp = c.linkUp
        /\ d.angleValid = c.angleValid /\ d.haveContinuous = c.haveContinuous
    BY <1>0 DEF SetArmed, ClearCommand, Core
  <2>3. /\ d.mode = IF b THEN c.mode ELSE "Idle"
        /\ d.haveCommand = IF b THEN c.haveCommand ELSE FALSE
    BY <1>0 DEF SetArmed, ClearCommand, Core
  <2> HIDE DEF d
  <2>4. Sound(d)
    BY <1>1, <2>1, <2>2, <2>3 DEF Sound, MotionPermitted, d
  <2> QED
    BY <2>4 DEF d
<1>4. Sound(SetLinkUp(c, b))
  <2> DEFINE d == SetLinkUp(c, b)
  <2>1. d \in Core
    BY <1>0, GatesType
  <2>2. d.controlAllowed = c.controlAllowed /\ d.armed = c.armed /\ d.linkUp = b
    BY <1>0 DEF SetLinkUp, ClearCommand, Core
  <2>3. /\ d.mode = IF b THEN c.mode ELSE "Idle"
        /\ d.haveCommand = IF b THEN c.haveCommand ELSE FALSE
        /\ d.angleValid = IF b THEN c.angleValid ELSE FALSE
        /\ d.haveContinuous = IF b THEN c.haveContinuous ELSE FALSE
    BY <1>0 DEF SetLinkUp, ClearCommand, Core
  <2> HIDE DEF d
  <2>4. Sound(d)
    BY <1>1, <2>1, <2>2, <2>3 DEF Sound, MotionPermitted, d
  <2> QED
    BY <2>4 DEF d
<1> QED
  BY <1>2, <1>3, <1>4

(* A command is taken only while motion is permitted; otherwise it is a    *)
(* hold, which is no motion.                                               *)
LEMMA CommandsSound ==
  ASSUME NEW c, Sound(c), NEW v \in [Axes -> Num]
  PROVE  /\ Sound(SubmitHold(c))
         /\ Sound(SubmitRate(c, v))
         /\ \A b \in BOOLEAN : Sound(SubmitAngle(c, v, b))
<1>0. c \in Core /\ v \in [Axes -> Num]
  BY DEF Sound
<1>1. Sound(SubmitHold(c))
  BY ConfigKept, ClearType DEF Sound, SubmitHold, ClearCommand, MotionPermitted, Core
<1>2. Sound(SubmitRate(c, v))
  <2> DEFINE d == SubmitRate(c, v)
  <2>1. CASE ~Accepted(c, v)
    BY <1>1, <2>1 DEF SubmitRate
  <2>2. CASE Accepted(c, v)
    <3>0. d.cfg = c.cfg
      BY <1>0, ConfigKept
    <3>1. d \in Core /\ d.cfg = c.cfg
      BY <1>0, <3>0, SubmitRateType
    <3>2. /\ d.controlAllowed = c.controlAllowed /\ d.armed = c.armed
          /\ d.linkUp = c.linkUp /\ d.haveCommand = TRUE
          /\ d.angleValid = c.angleValid /\ d.haveContinuous = c.haveContinuous
      BY <1>0, <2>2 DEF SubmitRate, Core
    <3> HIDE DEF d
    <3>3. Sound(d)
      BY <2>2, <3>1, <3>2 DEF Sound, Accepted, MotionPermitted
    <3> QED
      BY <3>3 DEF d
  <2> QED
    BY <2>1, <2>2
<1>3. ASSUME NEW b \in BOOLEAN PROVE Sound(SubmitAngle(c, v, b))
  <2> DEFINE d == SubmitAngle(c, v, b)
  <2>1. CASE ~Accepted(c, v)
    BY <1>1, <2>1 DEF SubmitAngle
  <2>2. CASE Accepted(c, v)
    <3>0. d.cfg = c.cfg
      BY <1>0, ConfigKept
    <3>1. d \in Core /\ d.cfg = c.cfg
      BY <1>0, <3>0, SubmitAngleType
    <3>2. /\ d.controlAllowed = c.controlAllowed /\ d.armed = c.armed
          /\ d.linkUp = c.linkUp /\ d.haveCommand = TRUE
          /\ d.angleValid = c.angleValid /\ d.haveContinuous = c.haveContinuous
      BY <1>0, <2>2 DEF SubmitAngle, Core
    <3> HIDE DEF d
    <3>3. Sound(d)
      BY <2>2, <3>1, <3>2 DEF Sound, Accepted, MotionPermitted
    <3> QED
      BY <3>3 DEF d
  <2> QED
    BY <2>1, <2>2
<1> QED
  BY <1>1, <1>2, <1>3

(* A sample sets both flags of the track or clears both.                   *)
LEMMA OnTelemetrySound ==
  ASSUME NEW c, Sound(c), NEW t \in Sample PROVE Sound(OnTelemetry(c, t))
<1> USE DEF Sound
<1>1. CASE ~Usable(t)
  BY <1>1, ConfigKept, OnTelemetryType DEF OnTelemetry, MotionPermitted, Core
<1>2. CASE Usable(t)
  BY <1>2, ConfigKept, OnTelemetryType DEF OnTelemetry, MotionPermitted, Core
<1> HIDE DEF Sound
<1> QED
  BY <1>1, <1>2

(* Time touches neither gates nor command.                                 *)
LEMMA AgedSound ==
  ASSUME NEW c, Sound(c) PROVE Sound(Aged(c))
  BY ConfigKept, AgedType DEF Sound, Aged, MotionPermitted, Core

(* A state whose core is sound and in which nothing was just returned.     *)
LEMMA BecomesIInv ==
  ASSUME NEW c, Sound(c), Becomes(c) PROVE IInv'
<1>1. Sound(core)'
  BY DEF Becomes
<1>2. Nothing \in Returned /\ Nothing.tick = FALSE
  BY DEF Nothing, Returned
<1> QED
  BY <1>1, <1>2 DEF IInv, TickedNow, Becomes

(* IInv holds of the initial states.                                       *)
LEMMA InitIInv == Init => IInv
<1>1. ASSUME Init PROVE IInv
  <2>1. PICK cfg \in Configs : cfg.slew # NaN /\ core = NewCore(cfg)
    BY <1>1 DEF Init
  <2>2. Sound(core)
    BY <2>1, NewCoreSound, CoreInputs
  <2>3. Nothing \in Returned /\ Nothing.tick = FALSE
    BY DEF Nothing, Returned
  <2> QED
    BY <1>1, <2>2, <2>3 DEF Init, IInv, TickedNow
<1> QED
  BY <1>1

(* Every call preserves IInv.                                              *)
LEMMA StepIInv == IInv /\ [Next]_vars => IInv'
<1> SUFFICES ASSUME IInv, [Next]_vars PROVE IInv'
  OBVIOUS
<1>0. Sound(core)
  BY DEF IInv
<1>1. ASSUME NEW cfg \in Configs, CallSetConfig(cfg) PROVE IInv'
  <2>1. Sound(SetConfig(core, cfg))
    BY <1>0, SetConfigSound, CoreInputs
  <2> QED
    BY <1>1, <2>1, BecomesIInv DEF CallSetConfig
<1>2. ASSUME NEW b \in BOOLEAN,
             CallSetControlAllowed(b) \/ CallSetArmed(b) \/ CallSetLinkUp(b)
      PROVE  IInv'
  <2>1. /\ Sound(SetControlAllowed(core, b))
        /\ Sound(SetArmed(core, b))
        /\ Sound(SetLinkUp(core, b))
    BY <1>0, GatesSound
  <2> QED
    BY <1>2, <2>1, BecomesIInv DEF CallSetControlAllowed, CallSetArmed, CallSetLinkUp
<1>3. ASSUME NEW v \in Rates, CallSubmitRate(v) PROVE IInv'
  <2>1. Sound(SubmitRate(core, v))
    BY <1>0, CommandsSound, CoreInputs
  <2> QED
    BY <1>3, <2>1, BecomesIInv DEF CallSubmitRate
<1>4. ASSUME NEW v \in Angles, NEW rel \in BOOLEAN, CallSubmitAngle(v, rel)
      PROVE  IInv'
  <2>1. Sound(SubmitAngle(core, v, rel))
    BY <1>0, CommandsSound, CoreInputs
  <2> QED
    BY <1>4, <2>1, BecomesIInv DEF CallSubmitAngle
<1>5. CASE CallSubmitHold
  <2>1. Zero \in [Axes -> Num]
    BY DEF Zero, Num
  <2>2. Sound(SubmitHold(core))
    BY <1>0, <2>1, CommandsSound
  <2> QED
    BY <1>5, <2>2, BecomesIInv DEF CallSubmitHold
<1>6. ASSUME NEW t \in Reports, CallOnTelemetry(t) PROVE IInv'
  <2>1. Sound(OnTelemetry(core, t))
    BY <1>0, OnTelemetrySound, CoreInputs
  <2> QED
    BY <1>6, <2>1, BecomesIInv DEF CallOnTelemetry
<1>7. CASE CallTick
  <2> DEFINE answer == [tick |-> TRUE, frame |-> Tick(core), status |-> TickStatus(core)]
  <2>1. core' = core /\ returned' = answer
    BY <1>7 DEF CallTick
  <2>2. Tick(core) \in Frame /\ TickStatus(core) \in Statuses
    BY <1>0, TickType, TickStatusType DEF Sound
  <2>3. answer \in Returned /\ answer.frame = Tick(core)
    BY <2>2 DEF Returned
  <2> HIDE DEF answer
  <2>4. TickedNow'
    BY <2>1, <2>3 DEF TickedNow
  <2> QED
    BY <1>0, <2>1, <2>4 DEF IInv
<1>8. CASE Advance
  <2>1. Sound(Aged(core))
    BY <1>0, AgedSound
  <2> QED
    BY <1>8, <2>1, BecomesIInv DEF Advance
<1>9. CASE UNCHANGED vars
  BY <1>9 DEF vars, IInv, TickedNow
<1> QED
  BY <1>1, <1>2, <1>3, <1>4, <1>5, <1>6, <1>7, <1>8, <1>9 DEF Next

(* IInv is an invariant of the specification.                              *)
THEOREM Inductive == Spec => []IInv
  BY InitIInv, StepIInv, PTL DEF Spec

(* The object keeps its type and every call returns a frame of its type,   *)
(* whatever finite or non-finite numbers commands, configurations and      *)
(* telemetry carry: no arithmetic of the core meets a value it is          *)
(* undefined for.                                                          *)
THEOREM TypeCorrect == Spec => []TypeOK
<1>1. IInv => TypeOK
  BY DEF IInv, Sound, TickedNow, TypeOK
<1> QED
  BY <1>1, Inductive, PTL

(* No order of commands and gate changes leaves a motion command pending   *)
(* behind a shut gate, for it to act when the gate opens.                  *)
THEOREM NothingQueued == Spec => []NoQueuedMotion
<1>1. IInv => NoQueuedMotion
  BY DEF IInv, Sound, NoQueuedMotion
<1> QED
  BY <1>1, Inductive, PTL

(* The flags angle_valid and have_continuous_ never disagree.              *)
THEOREM TrackIsKnown == Spec => []TrackKnown
<1>1. IInv => TrackKnown
  BY DEF IInv, Sound, TrackKnown
<1> QED
  BY <1>1, Inductive, PTL

-----------------------------------------------------------------------------
(* What every frame satisfies. *)

(* A frame that must not move anything is the hold frame to its last       *)
(* field: no roll lock and no stale target survives in it.                 *)
THEOREM StillFramesHold == Spec => []StillFrameHolds
<1>1. IInv => StillFrameHolds
  BY StillIsHold DEF IInv, TickedNow, StillFrameHolds
<1> QED
  BY <1>1, Inductive, PTL

(* Whatever was commanded, and whenever the limits or the track changed,   *)
(* no frame turns an axis further out than a limit its track has reached,  *)
(* for any limits, any rate and any number of axes.                        *)
THEOREM FramesRespectLimits == Spec => []FrameRespectsLimits
<1>1. IInv => FrameRespectsLimits
  BY RateRespectsLimits
     DEF IInv, Sound, TickedNow, FrameRespectsLimits, LimitsApply, Sense, BoardValue
<1> QED
  BY <1>1, Inductive, PTL

(* Every target that goes to the wire lies inside the limits in force when *)
(* its frame is built.                                                     *)
THEOREM TargetsStayInside == Spec => []FrameTargetsInside
<1>1. IInv => FrameTargetsInside
  BY TargetInside
     DEF IInv, Sound, TickedNow, FrameTargetsInside, LimitsApply, Sense, BoardValue
<1> QED
  BY <1>1, Inductive, PTL

(* With the limits enforced nothing moves on an unknown or stale angle.    *)
THEOREM FramesNeedFreshAngle == Spec => []FrameNeedsFreshAngle
<1>1. IInv => FrameNeedsFreshAngle
  BY MovingIsFresh
     DEF IInv, TickedNow, FrameNeedsFreshAngle, LimitsApply, AngleStale
<1> QED
  BY <1>1, Inductive, PTL

-----------------------------------------------------------------------------
(* What no step does. *)

(* One sample moves the track by at most half a turn, onto a value that    *)
(* agrees with the sample modulo a turn, however the camera spins.         *)
THEOREM TrackAlwaysFollows == Spec => TrackFollows
<1> DEFINE Follows(t) ==
             core.haveContinuous /\ Usable(t) /\ CallOnTelemetry(t) =>
               \A a \in Axes :
                 /\ core'.continuous[a] - core.continuous[a] \in -HalfTurn .. HalfTurn
                 /\ (core'.continuous[a] - t.angle[a]) % Turn = 0
<1>1. ASSUME IInv, NEW t \in Reports PROVE Follows(t)
  <2> SUFFICES ASSUME core.haveContinuous, Usable(t), CallOnTelemetry(t),
                      NEW a \in Axes
               PROVE  /\ core'.continuous[a] - core.continuous[a]
                           \in -HalfTurn .. HalfTurn
                      /\ (core'.continuous[a] - t.angle[a]) % Turn = 0
    OBVIOUS
  <2>1. core.continuous[a] \in Int
    BY <1>1 DEF IInv, Sound, Core
  <2>2. t.angle[a] \in Int
    BY CoreInputs DEF Sample, Usable, AllFinite, Num
  <2>3. core'.continuous[a] = UnwrapOnto(core.continuous[a], t.angle[a])
    BY <1>1 DEF CallOnTelemetry, Becomes, OnTelemetry, IInv, Sound, Core
  <2> QED
    BY <2>1, <2>2, <2>3, UnwrapCloses
<1>2. IInv => [\A t \in Reports : Follows(t)]_vars
  BY <1>1
<1> QED
  BY <1>2, Inductive, PTL DEF TrackFollows

(* Only setConfig changes the configuration, and what it puts in force is  *)
(* usable, however broken the one it was given.                            *)
THEOREM ConfigAlwaysRepaired == Spec => ConfigRepaired
<1> DEFINE Repaired == core'.cfg # core.cfg => Sane(core'.cfg)
<1>1. ASSUME IInv, Next PROVE Repaired
  <2>0. core \in Core
    BY <1>1 DEF IInv, Sound
  <2>1. ASSUME NEW cfg \in Configs, CallSetConfig(cfg) PROVE Repaired
    <3>1. core'.cfg = Sanitised(cfg)
      BY <2>0, <2>1 DEF CallSetConfig, Becomes, SetConfig, Core
    <3> QED
      BY <3>1, SanitisedSane, CoreInputs
  <2>2. ASSUME NEW b \in BOOLEAN,
               CallSetControlAllowed(b) \/ CallSetArmed(b) \/ CallSetLinkUp(b)
        PROVE  Repaired
    BY <2>0, <2>2, ConfigKept
       DEF CallSetControlAllowed, CallSetArmed, CallSetLinkUp, Becomes
  <2>3. ASSUME NEW v \in Rates, CallSubmitRate(v) PROVE Repaired
    BY <2>0, <2>3, ConfigKept DEF CallSubmitRate, Becomes
  <2>4. ASSUME NEW v \in Angles, NEW rel \in BOOLEAN, CallSubmitAngle(v, rel)
        PROVE  Repaired
    BY <2>0, <2>4, ConfigKept DEF CallSubmitAngle, Becomes
  <2>5. CASE CallSubmitHold
    BY <2>0, <2>5, ConfigKept DEF CallSubmitHold, Becomes
  <2>6. ASSUME NEW t \in Reports, CallOnTelemetry(t) PROVE Repaired
    BY <2>0, <2>6, ConfigKept DEF CallOnTelemetry, Becomes
  <2>7. CASE CallTick
    BY <2>7 DEF CallTick
  <2>8. CASE Advance
    BY <2>0, <2>8, ConfigKept DEF Advance, Becomes
  <2> QED
    BY <1>1, <2>1, <2>2, <2>3, <2>4, <2>5, <2>6, <2>7, <2>8 DEF Next
<1>2. IInv /\ [Next]_vars => [Repaired]_vars
  BY <1>1
<1> QED
  BY <1>2, Inductive, PTL DEF Spec, ConfigRepaired

-----------------------------------------------------------------------------
(* The core implements MotionAuthority, as long as command_timeout is one  *)
(* number: raising it while a command has run out brings the command back. *)
OneTimeout ==
  \A c, d \in Configs : c.commandTimeout = Sanitised(d).commandTimeout

TimeoutInForce ==
  /\ core.cfg.commandTimeout \in Int /\ core.cfg.commandTimeout > 0
  /\ \A d \in Configs : core.cfg.commandTimeout = Sanitised(d).commandTimeout

(* The time out in force never changes.                                    *)
LEMMA InitTimeout ==
  ASSUME OneTimeout, Init PROVE TimeoutInForce
<1>1. PICK cfg \in Configs : core = NewCore(cfg)
  BY DEF Init
<1>2. core.cfg = cfg
  BY <1>1 DEF NewCore
<1>3. Sane(Sanitised(cfg))
  BY SanitisedSane, CoreInputs
<1> QED
  BY <1>2, <1>3 DEF OneTimeout, TimeoutInForce, Sane, SaneTimeouts

(* A command given while motion is permitted is a live order, any other    *)
(* call that sets a command withdraws the order.                           *)
LEMMA CommandsGive ==
  ASSUME NEW c \in Core, c.cfg.commandTimeout \in Int, c.cfg.commandTimeout > 0,
         NEW v
  PROVE  /\ OrderOf(SubmitHold(c)) = "none"
         /\ MotionPermitted(SubmitHold(c)) = MotionPermitted(c)
         /\ ~Accepted(c, v) => SubmitRate(c, v) = SubmitHold(c)
         /\ Accepted(c, v) =>
              /\ OrderOf(SubmitRate(c, v)) = "live"
              /\ MotionPermitted(SubmitRate(c, v)) = MotionPermitted(c)
         /\ \A b : /\ ~Accepted(c, v) => SubmitAngle(c, v, b) = SubmitHold(c)
                   /\ Accepted(c, v) =>
                        /\ OrderOf(SubmitAngle(c, v, b)) = "live"
                        /\ MotionPermitted(SubmitAngle(c, v, b)) = MotionPermitted(c)
<1>1. /\ OrderOf(SubmitHold(c)) = "none"
      /\ MotionPermitted(SubmitHold(c)) = MotionPermitted(c)
  BY DEF OrderOf, SubmitHold, ClearCommand, MotionPermitted, Core
<1>2. ASSUME Accepted(c, v)
      PROVE  /\ OrderOf(SubmitRate(c, v)) = "live"
             /\ MotionPermitted(SubmitRate(c, v)) = MotionPermitted(c)
  <2> DEFINE s == SubmitRate(c, v)
  <2>1. /\ s.mode = "Velocity" /\ s.haveCommand /\ s.commandAge = 0 /\ s.cfg = c.cfg
        /\ s.controlAllowed = c.controlAllowed /\ s.armed = c.armed
        /\ s.linkUp = c.linkUp
    BY <1>2 DEF SubmitRate, Core
  <2> HIDE DEF s
  <2> QED
    BY <2>1, CoreAssumption DEF s, OrderOf, CommandFresh, Le, MotionPermitted
<1>3. ASSUME Accepted(c, v), NEW b
      PROVE  /\ OrderOf(SubmitAngle(c, v, b)) = "live"
             /\ MotionPermitted(SubmitAngle(c, v, b)) = MotionPermitted(c)
  <2> DEFINE s == SubmitAngle(c, v, b)
  <2>1. /\ s.mode = "Position" /\ s.haveCommand /\ s.commandAge = 0 /\ s.cfg = c.cfg
        /\ s.controlAllowed = c.controlAllowed /\ s.armed = c.armed
        /\ s.linkUp = c.linkUp
    BY <1>3 DEF SubmitAngle, Core
  <2> HIDE DEF s
  <2> QED
    BY <2>1, CoreAssumption DEF s, OrderOf, CommandFresh, Le, MotionPermitted
<1> QED
  BY <1>1, <1>2, <1>3 DEF SubmitRate, SubmitAngle

(* A gate that opens keeps the order as it is, one that shuts withdraws it. *)
LEMMA GatesForbid ==
  ASSUME NEW c \in Core, NEW b \in BOOLEAN,
         NEW d, d = SetControlAllowed(c, b) \/ d = SetArmed(c, b) \/ d = SetLinkUp(c, b)
  PROVE  IF b THEN /\ OrderOf(d) = OrderOf(c)
                   /\ MotionPermitted(c) => MotionPermitted(d)
         ELSE OrderOf(d) = "none" /\ ~MotionPermitted(d)
<1>1. CASE b
  BY <1>1 DEF SetControlAllowed, SetArmed, SetLinkUp, OrderOf, CommandFresh,
              MotionPermitted, Core
<1>2. CASE ~b
  <2>1. d = SetControlAllowed(c, b) => d.mode = "Idle" /\ d.controlAllowed = FALSE
    BY <1>2 DEF SetControlAllowed, ClearCommand, Core
  <2>2. d = SetArmed(c, b) => d.mode = "Idle" /\ d.armed = FALSE
    BY <1>2 DEF SetArmed, ClearCommand, Core
  <2>3. d = SetLinkUp(c, b) => d.mode = "Idle" /\ d.linkUp = FALSE
    BY <1>2 DEF SetLinkUp, ClearCommand, Core
  <2> QED
    BY <1>2, <2>1, <2>2, <2>3 DEF OrderOf, MotionPermitted
<1> QED
  BY <1>1, <1>2

(* Time can only make a live order an expired one.                         *)
LEMMA AgeExpires ==
  ASSUME NEW c \in Core, c.cfg.commandTimeout \in Int
  PROVE  /\ MotionPermitted(Aged(c)) = MotionPermitted(c)
         /\ \/ OrderOf(Aged(c)) = OrderOf(c)
            \/ OrderOf(c) = "live" /\ OrderOf(Aged(c)) = "expired"
<1> DEFINE d == Aged(c)
<1>1. /\ d.mode = c.mode /\ d.haveCommand = c.haveCommand /\ d.cfg = c.cfg
      /\ d.commandAge = Older(c.commandAge)
      /\ d.controlAllowed = c.controlAllowed /\ d.armed = c.armed
      /\ d.linkUp = c.linkUp
  BY DEF Aged, Core
<1>2. c.commandAge \in Int /\ Older(c.commandAge) \in Int
      /\ c.commandAge <= Older(c.commandAge)
  BY CoreAssumption DEF Core, Ages, Older
<1> HIDE DEF d
<1>3. CommandFresh(d) => CommandFresh(c)
  BY <1>1, <1>2, CoreAssumption DEF CommandFresh, Le
<1> QED
  BY <1>1, <1>3 DEF d, OrderOf, MotionPermitted

(* A new configuration with the same time out leaves the order as it is,   *)
(* and so does telemetry.                                                  *)
LEMMA OthersKeepOrder ==
  ASSUME NEW c \in Core
  PROVE  /\ \A cfg : c.cfg.commandTimeout = Sanitised(cfg).commandTimeout =>
              /\ OrderOf(SetConfig(c, cfg)) = OrderOf(c)
              /\ MotionPermitted(SetConfig(c, cfg)) = MotionPermitted(c)
         /\ \A t : /\ OrderOf(OnTelemetry(c, t)) = OrderOf(c)
                   /\ MotionPermitted(OnTelemetry(c, t)) = MotionPermitted(c)
<1>1. ASSUME NEW cfg, c.cfg.commandTimeout = Sanitised(cfg).commandTimeout
      PROVE  /\ OrderOf(SetConfig(c, cfg)) = OrderOf(c)
             /\ MotionPermitted(SetConfig(c, cfg)) = MotionPermitted(c)
  <2> DEFINE new == Sanitised(cfg)
             d == [c EXCEPT !.cfg = new]
  <2>1. SetConfig(c, cfg) = d
    BY DEF SetConfig
  <2>2. new.commandTimeout = c.cfg.commandTimeout
    BY <1>1
  <2> HIDE DEF new
  <2>3. /\ d.cfg = new /\ d.mode = c.mode /\ d.haveCommand = c.haveCommand
        /\ d.commandAge = c.commandAge /\ d.armed = c.armed /\ d.linkUp = c.linkUp
        /\ d.controlAllowed = c.controlAllowed
    BY DEF Core
  <2> HIDE DEF d
  <2> QED
    BY <2>1, <2>2, <2>3 DEF OrderOf, CommandFresh, MotionPermitted
<1>2. ASSUME NEW t
      PROVE  /\ OrderOf(OnTelemetry(c, t)) = OrderOf(c)
             /\ MotionPermitted(OnTelemetry(c, t)) = MotionPermitted(c)
  <2> DEFINE d == OnTelemetry(c, t)
  <2>1. /\ d.cfg = c.cfg /\ d.mode = c.mode /\ d.haveCommand = c.haveCommand
        /\ d.commandAge = c.commandAge /\ d.armed = c.armed /\ d.linkUp = c.linkUp
        /\ d.controlAllowed = c.controlAllowed
    BY DEF OnTelemetry, Core
  <2> HIDE DEF d
  <2> QED
    BY <2>1 DEF d, OrderOf, CommandFresh, MotionPermitted
<1> QED
  BY <1>1, <1>2

(* Every call keeps the time out in force.                                 *)
LEMMA StepTimeout ==
  ASSUME IInv, TimeoutInForce, Next PROVE TimeoutInForce'
<1>0. core \in Core
  BY DEF IInv, Sound
<1>1. core'.cfg = core.cfg \/ \E cfg \in Configs : core'.cfg = Sanitised(cfg)
  <2>1. ASSUME NEW cfg \in Configs, CallSetConfig(cfg)
        PROVE  core'.cfg = Sanitised(cfg)
    BY <1>0, <2>1 DEF CallSetConfig, Becomes, SetConfig, Core
  <2>2. ASSUME NEW b \in BOOLEAN,
               CallSetControlAllowed(b) \/ CallSetArmed(b) \/ CallSetLinkUp(b)
        PROVE  core'.cfg = core.cfg
    BY <1>0, <2>2, ConfigKept
       DEF CallSetControlAllowed, CallSetArmed, CallSetLinkUp, Becomes
  <2>3. ASSUME NEW v \in Rates, CallSubmitRate(v) PROVE core'.cfg = core.cfg
    BY <1>0, <2>3, ConfigKept DEF CallSubmitRate, Becomes
  <2>4. ASSUME NEW v \in Angles, NEW rel \in BOOLEAN, CallSubmitAngle(v, rel)
        PROVE  core'.cfg = core.cfg
    BY <1>0, <2>4, ConfigKept DEF CallSubmitAngle, Becomes
  <2>5. CallSubmitHold => core'.cfg = core.cfg
    BY <1>0, ConfigKept DEF CallSubmitHold, Becomes
  <2>6. ASSUME NEW t \in Reports, CallOnTelemetry(t) PROVE core'.cfg = core.cfg
    BY <1>0, <2>6, ConfigKept DEF CallOnTelemetry, Becomes
  <2>7. CallTick => core'.cfg = core.cfg
    BY DEF CallTick
  <2>8. Advance => core'.cfg = core.cfg
    BY <1>0, ConfigKept DEF Advance, Becomes
  <2> QED
    BY <2>1, <2>2, <2>3, <2>4, <2>5, <2>6, <2>7, <2>8 DEF Next
<1>2. core'.cfg.commandTimeout = core.cfg.commandTimeout
  BY <1>1 DEF TimeoutInForce
<1> QED
  BY <1>2 DEF TimeoutInForce

(* Every call is a step of MotionAuthority or changes nothing of it.       *)
LEMMA StepAuthority ==
  ASSUME IInv, TimeoutInForce, Next
  PROVE  Authority!Next
<1> DEFINE permitted == MotionPermitted(core)
           sent == returned.tick /\ returned.frame.moving
<1>0. core \in Core /\ permitted \in BOOLEAN
  BY DEF IInv, Sound, Core, MotionPermitted
<1>a. Order = OrderOf(core) /\ Order' = OrderOf(core')
  BY DEF Order
<1>b. ASSUME NEW c, Becomes(c)
      PROVE  core' = c /\ sent' = FALSE
  BY <1>b DEF Becomes, Nothing
<1>c. core.cfg.commandTimeout \in Int /\ core.cfg.commandTimeout > 0
  BY DEF TimeoutInForce
<1> USE DEF Authority!Next
<1>1. ASSUME NEW cfg \in Configs, CallSetConfig(cfg) PROVE Authority!Rest
  <2>1. /\ OrderOf(SetConfig(core, cfg)) = OrderOf(core)
        /\ MotionPermitted(SetConfig(core, cfg)) = MotionPermitted(core)
    BY <1>0, OthersKeepOrder DEF TimeoutInForce
  <2>2. core' = SetConfig(core, cfg) /\ sent' = FALSE
    BY <1>1, <1>b DEF CallSetConfig
  <2> QED
    BY <1>a, <2>1, <2>2 DEF Authority!Rest
<1>2. ASSUME NEW b \in BOOLEAN,
             CallSetControlAllowed(b) \/ CallSetArmed(b) \/ CallSetLinkUp(b)
      PROVE  Authority!Next
  <2>1. /\ core' = SetControlAllowed(core, b) \/ core' = SetArmed(core, b)
           \/ core' = SetLinkUp(core, b)
        /\ sent' = FALSE
    BY <1>2, <1>b DEF CallSetControlAllowed, CallSetArmed, CallSetLinkUp
  <2>2. IF b THEN /\ OrderOf(core') = OrderOf(core)
                  /\ MotionPermitted(core) => MotionPermitted(core')
        ELSE OrderOf(core') = "none" /\ ~MotionPermitted(core')
    BY <1>0, <2>1, GatesForbid
  <2>3. core' \in Core
    BY <1>0, <2>1, GatesType
  <2>4. MotionPermitted(core') \in BOOLEAN
    BY <2>3 DEF MotionPermitted, Core
  <2>5. CASE ~b
    BY <1>a, <2>1, <2>2, <2>4, <2>5 DEF Authority!Forbid
  <2>6. CASE b /\ MotionPermitted(core')
    BY <1>a, <2>1, <2>2, <2>4, <2>6 DEF Authority!Permit
  <2>7. CASE b /\ ~MotionPermitted(core')
    BY <1>0, <1>a, <2>1, <2>2, <2>4, <2>7 DEF Authority!Rest
  <2> QED
    BY <2>5, <2>6, <2>7
<1>3. CASE CallSubmitHold
  <2>1. core' = SubmitHold(core) /\ sent' = FALSE
    BY <1>3, <1>b DEF CallSubmitHold
  <2> QED
    BY <1>0, <1>a, <1>c, <2>1, CommandsGive DEF Authority!Withdraw
<1>4. ASSUME NEW v \in Rates, CallSubmitRate(v) PROVE Authority!Next
  <2>1. core' = SubmitRate(core, v) /\ sent' = FALSE
    BY <1>4, <1>b DEF CallSubmitRate
  <2>2. CASE Accepted(core, v)
    BY <1>0, <1>a, <1>c, <2>1, <2>2, CommandsGive DEF Authority!Give, Accepted
  <2>3. CASE ~Accepted(core, v)
    BY <1>0, <1>a, <1>c, <2>1, <2>3, CommandsGive DEF Authority!Withdraw
  <2> QED
    BY <2>2, <2>3
<1>5. ASSUME NEW v \in Angles, NEW rel \in BOOLEAN, CallSubmitAngle(v, rel)
      PROVE  Authority!Next
  <2>1. core' = SubmitAngle(core, v, rel) /\ sent' = FALSE
    BY <1>5, <1>b DEF CallSubmitAngle
  <2>2. CASE Accepted(core, v)
    BY <1>0, <1>a, <1>c, <2>1, <2>2, CommandsGive DEF Authority!Give, Accepted
  <2>3. CASE ~Accepted(core, v)
    BY <1>0, <1>a, <1>c, <2>1, <2>3, CommandsGive DEF Authority!Withdraw
  <2> QED
    BY <2>2, <2>3
<1>6. ASSUME NEW t \in Reports, CallOnTelemetry(t) PROVE Authority!Rest
  <2>1. core' = OnTelemetry(core, t) /\ sent' = FALSE
    BY <1>6, <1>b DEF CallOnTelemetry
  <2> QED
    BY <1>0, <1>a, <2>1, OthersKeepOrder DEF Authority!Rest
<1>7. CASE CallTick
  <2>1. /\ core' = core
        /\ returned' = [tick |-> TRUE, frame |-> Tick(core), status |-> TickStatus(core)]
    BY <1>7 DEF CallTick
  <2>2. sent' = Tick(core).moving /\ Tick(core).moving \in BOOLEAN
    BY <2>1, TickType DEF IInv, Sound, Frame
  <2>3. Order' = Order /\ MotionPermitted(core)' = MotionPermitted(core)
    BY <1>a, <2>1
  <2>4. Tick(core).moving => MotionPermitted(core) /\ Order = "live"
    BY DEF Tick, HoldFrame, NothingToDo, Order, OrderOf
  <2>5. CASE Tick(core).moving
    BY <2>2, <2>3, <2>4, <2>5 DEF Authority!SendMotion
  <2>6. CASE ~Tick(core).moving
    BY <2>2, <2>3, <2>6 DEF Authority!Rest
  <2> QED
    BY <2>5, <2>6
<1>8. CASE Advance
  <2>1. core' = Aged(core) /\ sent' = FALSE
    BY <1>8, <1>b DEF Advance
  <2> QED
    BY <1>0, <1>a, <1>c, <2>1, AgeExpires DEF Authority!Rest, Authority!Expire
<1> QED
  BY <1>1, <1>2, <1>3, <1>4, <1>5, <1>6, <1>7, <1>8 DEF Next

(* The core is a MotionAuthority.  Whatever its operator, its clients and  *)
(* its telemetry do, it sends a frame that can move the camera only while  *)
(* a command stands that was given under an open gate, that no shut gate   *)
(* has withdrawn since and that has not run out; and a command that has    *)
(* run out, or that a gate has withdrawn, never comes back by itself.      *)
THEOREM AuthorityHonoured ==
  ASSUME OneTimeout PROVE Spec => HonoursAuthority
<1>1. Init => TimeoutInForce
  BY InitTimeout
<1>2. IInv /\ TimeoutInForce /\ [Next]_vars => TimeoutInForce'
  BY StepTimeout DEF vars, TimeoutInForce
<1>3. Init => Authority!Init
  BY DEF Init, NewCore, Nothing, Authority!Init, MotionPermitted, Order, OrderOf
<1>4. IInv /\ TimeoutInForce /\ [Next]_vars => [Authority!Next]_(Authority!vars)
  <2>1. UNCHANGED vars => UNCHANGED Authority!vars
    BY DEF vars, Authority!vars, MotionPermitted, Order, OrderOf, CommandFresh
  <2> QED
    BY <2>1, StepAuthority
<1> QED
  BY <1>1, <1>2, <1>3, <1>4, Inductive, PTL
     DEF Spec, HonoursAuthority, Authority!Spec
=============================================================================
