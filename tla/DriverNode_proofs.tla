-------------------------- MODULE DriverNode_proofs --------------------------
(***************************************************************************)
(* Proofs about DriverNode, for every value of its constants.  A callback  *)
(* leaves the node as a record s, so what it does is a relation between    *)
(* the record before and s: one lemma per callback states it, and the      *)
(* theorems follow from those relations and from what a step does to the   *)
(* two history variables.                                                  *)
(***************************************************************************)
EXTENDS DriverNode, DriverOps_proofs

-----------------------------------------------------------------------------
(* The inductive invariant.                                                *)
(*                                                                         *)
(* Held (DriverOps_proofs) is what the operators preserve of the record.   *)
(* Life relates it to the lifecycle: on the way through a transition the   *)
(* two arm bits may disagree, which is why it is apart.  Voiced is what    *)
(* the clients' last word implies: without a spoken word nothing is        *)
(* pending, and a trajectory that outlived the link is still without it.   *)
Life(s) ==
  /\ s.core.armed => s.life = "active"
  /\ s.armed <=> s.core.armed
  /\ s.calib.handle \/ s.traj.handle => s.life = "active"
  /\ s.open => s.life \in {"inactive", "active"}

Voiced ==
  /\ voice \in {"spoken", "silent", "dropped", "resumed"}
  /\ node.core.mode # "Idle" => voice \in {"spoken", "resumed"}
  /\ node.traj.handle => voice # "silent"
  /\ voice = "dropped" /\ node.traj.handle => ~node.open

IInv == Held(node) /\ Life(node) /\ Voiced /\ severed \in BOOLEAN

(* The moves of a goal in one callback, as ActionGoal permits them.        *)
MayMove(g, h) ==
  \/ MayEnd(g, h)
  \/ g \notin Live /\ h \in {"executing", "aborted"}
  \/ g = "executing" /\ h = "canceling"

(* The configurations a core may come to hold: as they were passed to the  *)
(* constructor or as setConfig repaired them.                              *)
Loaded == Configs \cup {Sanitised(cfg) : cfg \in Configs}

(* The settle check keeps its evidence and starts nothing without it.      *)
Watches(n, s) ==
  /\ s.core.cfg \in {n.core.cfg} \cup Loaded
  /\ /\ Watching(n)
     /\ \A cfg \in {n.core.cfg} \cup Loaded : FreshIsShort(cfg)
     => /\ Watching(s)
        /\ n.calib.phase = "Settling" /\ s.calib.phase = "Calibrating"
             => s.calib.evidence >= 2

(* What every callback keeps to.                                           *)
Lawful(n, s) ==
  /\ Held(s) /\ Life(s)
  /\ MayMove(n.calib.goal, s.calib.goal) /\ MayMove(n.traj.goal, s.traj.goal)
  /\ Watches(n, s)

(* The three kinds of callback: one that gives no new motion command, one  *)
(* that gives the client's own, and one that takes every command back.     *)
Quiet(n, s) ==
  /\ s.core.mode # "Idle" => n.core.mode # "Idle" \/ n.traj.handle
  /\ s.traj.handle => n.traj.handle
  /\ s.board.turning => n.board.turning \/ n.core.mode # "Idle"

Loud(n, s) ==
  /\ s.open = n.open
  /\ s.core.mode # "Idle" => MotionPermitted(n.core)
  /\ s.traj.handle => n.traj.handle \/ MotionPermitted(n.core)
  /\ s.board.turning => n.board.turning \/ MotionPermitted(n.core)

Mute(n, s) ==
  /\ s.core.mode = "Idle" /\ ~s.traj.handle
  /\ s.board.turning => n.board.turning

(* A callback that leaves the goals and what the check sees as they were.  *)
LEMMA LawfulAside ==
  ASSUME NEW n, Held(n), NEW s, Held(s), Life(s),
         s.calib = n.calib, s.traj = n.traj,
         s.core.cfg = n.core.cfg, s.core.telemetryAge = n.core.telemetryAge
  PROVE  Lawful(n, s)
<1>1. Watching(n) => Watching(s)
  BY DEF Watching
<1> QED
  BY <1>1 DEF Lawful, MayMove, MayEnd, Watches

(* A callback that leaves no calibration.                                  *)
LEMMA LawfulEnded ==
  ASSUME NEW n, NEW s, Held(s), Life(s), ~s.calib.handle,
         s.core.cfg \in {n.core.cfg} \cup Loaded,
         MayEnd(n.calib.goal, s.calib.goal), MayEnd(n.traj.goal, s.traj.goal)
  PROVE  Lawful(n, s)
<1>1. s.calib.phase = "Idle"
  BY DEF Held, CalibHeld, CalibTracked
<1>2. Watching(s)
  BY <1>1 DEF Watching
<1> QED
  BY <1>1, <1>2 DEF Lawful, MayMove, Watches

-----------------------------------------------------------------------------
(* Lifecycle transitions. *)

(* What a constructor leaves, told allow_control.                          *)
LEMMA NewCoreEffect ==
  ASSUME NEW cfg \in Configs, NEW b \in BOOLEAN
  PROVE  /\ NewCore(cfg) \in Core /\ SetControlAllowed(NewCore(cfg), b) \in Core
         /\ NewCore(cfg).mode = "Idle" /\ NewCore(cfg).cfg = cfg
         /\ Gates(NewCore(cfg)) = <<FALSE, FALSE, FALSE>>
         /\ LET c == SetControlAllowed(NewCore(cfg), b)
            IN  c.mode = "Idle" /\ c.cfg = cfg /\ Gates(c) = <<b, FALSE, FALSE>>
<1> DEFINE d == NewCore(cfg)
<1>1. /\ d \in Core /\ d.mode = "Idle" /\ d.cfg = cfg
      /\ Gates(d) = <<FALSE, FALSE, FALSE>>
  BY NewCoreType, NodeInputs DEF NewCore, Gates
<1> HIDE DEF d
<1>2. SetControlAllowed(d, b) \in Core
  BY <1>1, GatesType
<1>3. LET c == SetControlAllowed(d, b)
      IN  c.mode = "Idle" /\ c.cfg = cfg /\ Gates(c) = <<b, FALSE, FALSE>>
  BY <1>1 DEF SetControlAllowed, ClearCommand, Gates, Core
<1> QED
  BY <1>1, <1>2, <1>3 DEF d

(* The record of a lifecycle state.                                        *)
LEMMA LifeUpdate ==
  ASSUME NEW s, Held(s), NEW x \in LifeStates
  PROVE  LET r == [s EXCEPT !.life = x]
         IN  /\ Held(r) /\ Port(r) = Port(s) /\ r.life = x
             /\ r.armed = s.armed /\ r.allowControl = s.allowControl
             /\ r.core = s.core /\ r.calib = s.calib /\ r.traj = s.traj
             /\ r.board = s.board
<1> DEFINE r == [s EXCEPT !.life = x]
<1>1. s \in Node
  BY DEF Held
<1>2. r \in Node
  BY <1>1, NodeUpdates
<1>3. /\ Port(r) = Port(s) /\ r.life = x
      /\ r.armed = s.armed /\ r.allowControl = s.allowControl
      /\ r.core = s.core /\ r.calib = s.calib /\ r.traj = s.traj
      /\ r.board = s.board
  BY <1>1 DEF Node, Port
<1> HIDE DEF r
<1>4. Held(r)
  BY <1>2, <1>3
     DEF Held, GatesAgree, CalibTracked, CalibHeld, TrajHeld, Port
<1> QED
  BY <1>3, <1>4 DEF r

(* on_configure: a new core, and a first attempt to open the port.         *)
LEMMA ConfigureLawful ==
  ASSUME NEW n, Held(n), Life(n), n.life = "unconfigured",
         NEW cfg \in Configs, NEW ok \in BOOLEAN
  PROVE  LET built == SetArmed(SetControlAllowed(NewCore(cfg), n.allowControl), FALSE)
             s == TryConnect([n EXCEPT !.core = built], ok)
             r == [s EXCEPT !.life = IF ok THEN "inactive" ELSE "unconfigured"]
         IN  Lawful(n, r) /\ Quiet(n, r)
<1> DEFINE c == SetControlAllowed(NewCore(cfg), n.allowControl)
           b == SetArmed(c, FALSE)
           m == [n EXCEPT !.core = b]
           s == TryConnect(m, ok)
           x == IF ok THEN "inactive" ELSE "unconfigured"
           r == [s EXCEPT !.life = x]
<1>0. /\ n \in Node /\ n.allowControl \in BOOLEAN /\ x \in LifeStates
      /\ ~n.open /\ ~n.calib.handle /\ ~n.traj.handle
  BY DEF Held, Node, Life, LifeStates
<1>1. /\ c \in Core /\ c.mode = "Idle" /\ c.cfg = cfg
      /\ Gates(c) = <<n.allowControl, FALSE, FALSE>>
  BY <1>0, NewCoreEffect
<1> HIDE DEF c
<1>2. /\ b \in Core /\ b.mode = "Idle" /\ b.cfg = cfg
      /\ Gates(b) = <<n.allowControl, FALSE, FALSE>>
  BY <1>1, GatesType, ArmedEffect DEF Gates
<1> HIDE DEF b
<1>3. m \in Node
  BY <1>0, <1>2, NodeUpdates
<1>4. /\ Rest(m) = Rest(n) /\ Port(m) = Port(n) /\ m.core = b
      /\ m.calib = n.calib /\ m.traj = n.traj /\ m.board = n.board
  BY <1>0 DEF Node, Rest, Port
<1> HIDE DEF m
<1>5. Held(m)
  BY <1>0, <1>2, <1>3, <1>4
     DEF Held, GatesAgree, CalibTracked, CalibHeld, TrajHeld, Rest, Port, Gates
<1>6. /\ Held(s) /\ Rest(s) = Rest(m) /\ s.open = ok
      /\ s.core = SetLinkUp(b, ok)
      /\ s.calib = n.calib /\ s.traj = n.traj /\ s.board = n.board
  BY <1>4, <1>5, ConnectHeld
<1>7. /\ s.core.mode = "Idle" /\ s.core.cfg = cfg
      /\ s.core.armed = FALSE
  <2>1. /\ SetLinkUp(b, ok).mode = IF ok THEN b.mode ELSE "Idle"
        /\ Gates(SetLinkUp(b, ok)) = <<b.controlAllowed, b.armed, ok>>
        /\ SetLinkUp(b, ok).cfg = b.cfg
    BY <1>2, LinkEffect
  <2>2. b.armed = FALSE
    BY <1>2 DEF Gates
  <2> QED
    BY <1>2, <1>6, <2>1, <2>2 DEF Gates
<1> HIDE DEF s
<1>8. /\ Held(r) /\ Port(r) = Port(s) /\ r.life = x /\ r.armed = s.armed
      /\ r.core = s.core /\ r.calib = s.calib /\ r.traj = s.traj
      /\ r.board = s.board
  BY <1>0, <1>6, LifeUpdate
<1> HIDE DEF r
<1>9. r.armed = FALSE
  <2>1. n.armed = n.core.armed /\ n.core.armed = FALSE
    BY <1>0 DEF Life, Node, Core
  <2> QED
    BY <1>4, <1>6, <1>8, <2>1 DEF Rest
<1>10. Life(r)
  BY <1>0, <1>6, <1>7, <1>8, <1>9 DEF Life, Port
<1>11. Lawful(n, r)
  <2>1. r.core.cfg \in Loaded
    BY <1>7, <1>8 DEF Loaded
  <2> QED
    BY <1>0, <1>6, <1>8, <1>10, <2>1, LawfulEnded DEF MayEnd
<1>12. Quiet(n, r)
  BY <1>0, <1>6, <1>7, <1>8 DEF Quiet
<1> QED
  BY <1>11, <1>12 DEF r, s, m, b, c

(* The gate and the arm bit, set together.                                 *)
Rearmed(s, b) == [s EXCEPT !.core = SetArmed(@, b), !.armed = b]

(* They agree afterwards, and a command is pending only if it stays armed. *)
LEMMA ArmingHeld ==
  ASSUME NEW s, Held(s), NEW b \in BOOLEAN
  PROVE  LET r == Rearmed(s, b)
         IN  /\ Held(r) /\ Port(r) = Port(s) /\ r.armed = b /\ r.core.armed = b
             /\ r.life = s.life /\ r.core.cfg = s.core.cfg
             /\ r.core.telemetryAge = s.core.telemetryAge
             /\ r.core.mode = IF b THEN s.core.mode ELSE "Idle"
             /\ r.calib = s.calib /\ r.traj = s.traj /\ r.board = s.board
<1> DEFINE c == SetArmed(s.core, b)
           d == [s EXCEPT !.core = c]
           r == [d EXCEPT !.armed = b]
<1>1. s \in Node /\ s.core \in Core
  BY DEF Held, Node
<1>2. /\ c \in Core /\ c.mode = IF b THEN s.core.mode ELSE "Idle"
      /\ Gates(c) = <<s.core.controlAllowed, b, s.core.linkUp>>
      /\ Track(c) = Track(s.core) /\ c.cfg = s.core.cfg
  BY <1>1, GatesType, ArmedEffect
<1>3. Rearmed(s, b) = r
  BY DEF Rearmed
<1> HIDE DEF c
<1>4. d \in Node
  BY <1>1, <1>2, NodeUpdates
<1>5. r \in Node
  BY <1>4, NodeUpdates
<1>6. /\ Port(r) = Port(s) /\ r.armed = b /\ r.core = c /\ r.life = s.life
      /\ r.allowControl = s.allowControl
      /\ r.calib = s.calib /\ r.traj = s.traj /\ r.board = s.board
  BY <1>1 DEF Node, Port
<1> HIDE DEF r, d
<1>7. GatesAgree(r)
  BY <1>2, <1>6 DEF Held, GatesAgree, MotionPermitted, Port, Gates
<1>8. Held(r)
  BY <1>5, <1>6, <1>7 DEF Held, CalibTracked, CalibHeld, TrajHeld
<1>9. r.core.armed = b /\ r.core.telemetryAge = s.core.telemetryAge
  BY <1>2, <1>6 DEF Gates, Track
<1> QED
  BY <1>2, <1>3, <1>6, <1>8, <1>9

(* A hold frame disturbs a calibration and nothing else.                   *)
LEMMA HoldSent ==
  ASSUME NEW s, Held(s), NEW ok
  PROVE  LET r == SendControl(s, HoldFrame, ok)
         IN  /\ r \in Node /\ GatesAgree(r) /\ CalibTracked(r) /\ TrajHeld(r)
             /\ Rest(r) = Rest(s) /\ Port(r) = Port(s)
             /\ r.core = s.core /\ r.calib = s.calib /\ r.traj = s.traj
             /\ r.board.turning => s.board.turning
<1> DEFINE r == SendControl(s, HoldFrame, ok)
<1>1. s \in Node /\ HoldFrame.moving = FALSE /\ HoldFrame.moving \in BOOLEAN
  BY DEF Held, HoldFrame
<1>2. /\ r \in Node /\ Rest(r) = Rest(s) /\ Port(r) = Port(s)
      /\ r.core = s.core /\ r.calib = s.calib /\ r.traj = s.traj
      /\ r.board.turning = s.board.turning \/ r.board.turning = FALSE
  BY <1>1, SendEffect
<1> HIDE DEF r
<1>3. GatesAgree(r) /\ CalibTracked(r) /\ TrajHeld(r)
  BY <1>2 DEF Held, GatesAgree, CalibTracked, CalibHeld, TrajHeld, Rest, Port
<1> QED
  BY <1>2, <1>3 DEF r

(* With the goals it interrupts ended, the node is as it should be.        *)
LEMMA HaltHeld ==
  ASSUME NEW s, Held(s), NEW ok
  PROVE  LET r == AbortActiveGoals(SendControl(s, HoldFrame, ok))
         IN  /\ Held(r) /\ Rest(r) = Rest(s) /\ Port(r) = Port(s)
             /\ r.core = s.core
             /\ r.board.turning => s.board.turning
             /\ ~r.calib.handle /\ ~r.traj.handle
             /\ MayEnd(s.calib.goal, r.calib.goal) /\ MayEnd(s.traj.goal, r.traj.goal)
<1> DEFINE h == SendControl(s, HoldFrame, ok)
           r == AbortActiveGoals(h)
<1>1. /\ h \in Node /\ GatesAgree(h) /\ CalibTracked(h) /\ TrajHeld(h)
      /\ Rest(h) = Rest(s) /\ Port(h) = Port(s)
      /\ h.core = s.core /\ h.calib = s.calib /\ h.traj = s.traj
      /\ h.board.turning => s.board.turning
  BY HoldSent
<1> HIDE DEF h
<1>2. /\ Held(r) /\ Rest(r) = Rest(h) /\ Port(r) = Port(h)
      /\ r.core = h.core /\ r.board = h.board
      /\ ~r.calib.handle /\ ~r.traj.handle
      /\ MayEnd(h.calib.goal, r.calib.goal) /\ MayEnd(h.traj.goal, r.traj.goal)
  BY <1>1, AbortHeld
<1> HIDE DEF r
<1>3. /\ Held(r) /\ Rest(r) = Rest(s) /\ Port(r) = Port(s)
      /\ r.core = s.core
      /\ r.board.turning => s.board.turning
  BY <1>1, <1>2
<1> QED
  BY <1>1, <1>2, <1>3 DEF r, h

(* on_activate: armed if it is so configured, motors on if wanted.         *)
LEMMA ActivateLawful ==
  ASSUME NEW n, Held(n), Life(n), n.life = "inactive",
         NEW arm \in BOOLEAN, NEW motors, NEW ok
  PROVE  LET s == [n EXCEPT !.life = "active", !.core = SetArmed(@, arm), !.armed = arm]
             r == IF motors THEN SendMotors(s, TRUE, ok) ELSE s
         IN  Lawful(n, r) /\ Quiet(n, r)
<1> DEFINE m == [n EXCEPT !.life = "active"]
           s == Rearmed(m, arm)
           r == IF motors THEN SendMotors(s, TRUE, ok) ELSE s
<1>0. "active" \in LifeStates /\ n \in Node
  BY DEF LifeStates, Held
<1>1. /\ Held(m) /\ Port(m) = Port(n) /\ m.life = "active"
      /\ m.core = n.core /\ m.calib = n.calib /\ m.traj = n.traj /\ m.board = n.board
  BY <1>0, LifeUpdate
<1>2. [n EXCEPT !.life = "active", !.core = SetArmed(@, arm), !.armed = arm] = s
  BY <1>0 DEF Node, Rearmed
<1> HIDE DEF m
<1>3. /\ Held(s) /\ Port(s) = Port(m) /\ s.armed = arm /\ s.core.armed = arm
      /\ s.life = m.life /\ s.core.cfg = m.core.cfg
      /\ s.core.telemetryAge = m.core.telemetryAge
      /\ s.core.mode = IF arm THEN m.core.mode ELSE "Idle"
      /\ s.calib = m.calib /\ s.traj = m.traj /\ s.board = m.board
  BY <1>1, ArmingHeld
<1> HIDE DEF s
<1>4. /\ Held(r) /\ Rest(r) = Rest(s) /\ Port(r) = Port(s)
      /\ r.core = s.core /\ r.calib = s.calib /\ r.traj = s.traj
      /\ r.board.turning = s.board.turning
  BY <1>3, MotorsHeld
<1> HIDE DEF r
<1>5. Life(r)
  BY <1>1, <1>3, <1>4 DEF Life, Rest
<1>6. Lawful(n, r)
  BY <1>1, <1>3, <1>4, <1>5, LawfulAside
<1>7. Quiet(n, r)
  BY <1>1, <1>3, <1>4 DEF Quiet
<1> QED
  BY <1>2, <1>6, <1>7 DEF r

(* on_deactivate: disarmed, held and with no goal left.                    *)
LEMMA DeactivateLawful ==
  ASSUME NEW n, Held(n), Life(n), n.life = "active", NEW ok
  PROVE  LET d == [n EXCEPT !.core = SetArmed(@, FALSE), !.armed = FALSE]
             s == AbortActiveGoals(SendControl(d, HoldFrame, ok))
             r == [s EXCEPT !.life = "inactive"]
         IN  Lawful(n, r) /\ Mute(n, r)
<1> DEFINE d == Rearmed(n, FALSE)
           s == AbortActiveGoals(SendControl(d, HoldFrame, ok))
           r == [s EXCEPT !.life = "inactive"]
<1>1. /\ Held(d) /\ Port(d) = Port(n) /\ d.armed = FALSE /\ d.core.armed = FALSE
      /\ d.core.cfg = n.core.cfg /\ d.core.mode = "Idle"
      /\ d.calib = n.calib /\ d.traj = n.traj /\ d.board = n.board
  BY ArmingHeld
<1> HIDE DEF d
<1>2. /\ Held(s) /\ Rest(s) = Rest(d) /\ Port(s) = Port(d) /\ s.core = d.core
      /\ s.board.turning => d.board.turning
  BY <1>1, HaltHeld
<1>3. /\ ~s.calib.handle /\ ~s.traj.handle
      /\ MayEnd(d.calib.goal, s.calib.goal) /\ MayEnd(d.traj.goal, s.traj.goal)
  BY <1>1, HaltHeld
<1> HIDE DEF s
<1>4. /\ Held(r) /\ Port(r) = Port(s) /\ r.life = "inactive" /\ r.armed = s.armed
      /\ r.core = s.core /\ r.calib = s.calib /\ r.traj = s.traj /\ r.board = s.board
  BY <1>2, LifeUpdate DEF LifeStates
<1> HIDE DEF r
<1>5. Life(r)
  BY <1>1, <1>2, <1>3, <1>4 DEF Life, Rest
<1>6. Lawful(n, r)
  BY <1>1, <1>2, <1>3, <1>4, <1>5, LawfulEnded
<1>7. Mute(n, r)
  BY <1>1, <1>2, <1>3, <1>4 DEF Mute
<1> QED
  BY <1>6, <1>7 DEF r, s, d, Rearmed

(* What stands for a destroyed core is one without its gates open.         *)
LEMMA CleanedUpHeld ==
  ASSUME NEW s, s \in Node, GatesAgree(s), CalibTracked(s), TrajHeld(s),
         NEW x \in LifeStates
  PROVE  LET r == [CleanedUp(s) EXCEPT !.life = x]
         IN  /\ Held(r) /\ r.life = x /\ ~r.open /\ r.armed = FALSE
             /\ r.core.armed = FALSE /\ r.core.mode = "Idle"
             /\ r.core.cfg \in Loaded /\ r.board = s.board
             /\ ~r.calib.handle /\ ~r.traj.handle
             /\ MayEnd(s.calib.goal, r.calib.goal) /\ MayEnd(s.traj.goal, r.traj.goal)
<1> DEFINE a == AbortActiveGoals(s)
           b == [a EXCEPT !.open = FALSE]
           c == [b EXCEPT !.haveRealtime = FALSE]
           d == [c EXCEPT !.armed = FALSE]
           e == [d EXCEPT !.motorsOn = FALSE]
           new == NewCore(AnyConfig)
           f == [e EXCEPT !.core = new]
           r == [f EXCEPT !.life = x]
<1>1. /\ Held(a) /\ Rest(a) = Rest(s) /\ a.board = s.board
      /\ ~a.calib.handle /\ ~a.traj.handle
      /\ MayEnd(s.calib.goal, a.calib.goal) /\ MayEnd(s.traj.goal, a.traj.goal)
  BY AbortHeld
<1>2. AnyConfig \in Configs
  BY NodeInputs DEF AnyConfig
<1>3. /\ new \in Core /\ new.mode = "Idle" /\ new.cfg = AnyConfig
      /\ Gates(new) = <<FALSE, FALSE, FALSE>>
  BY <1>2, NewCoreEffect
<1>4. [CleanedUp(s) EXCEPT !.life = x] = r
  BY DEF CleanedUp, Closed
<1> HIDE DEF a, new
<1>5. c \in Node
  BY <1>1, NodeUpdates DEF Held
<1> HIDE DEF c
<1>6. e \in Node
  BY <1>5, NodeUpdates
<1>7. f \in Node
  BY <1>3, <1>6, NodeUpdates
<1>8. r \in Node
  BY <1>7, NodeUpdates
<1>9. /\ r.life = x /\ r.open = FALSE /\ r.armed = FALSE /\ r.core = new
      /\ r.allowControl = a.allowControl
      /\ r.calib = a.calib /\ r.traj = a.traj /\ r.board = a.board
  BY <1>1, <1>5 DEF Node, Held, c
<1> HIDE DEF b, d, e, f, r
<1>10. Held(r)
  BY <1>1, <1>3, <1>8, <1>9
     DEF Held, GatesAgree, CalibTracked, CalibHeld, TrajHeld, Gates
<1>11. r.core.armed = FALSE /\ r.core.mode = "Idle" /\ r.core.cfg \in Loaded
  BY <1>2, <1>3, <1>9 DEF Gates, Loaded
<1> QED
  BY <1>1, <1>4, <1>9, <1>10, <1>11

(* on_cleanup.                                                             *)
LEMMA CleanupLawful ==
  ASSUME NEW n, Held(n), Life(n), n.life = "inactive"
  PROVE  LET r == [CleanedUp(n) EXCEPT !.life = "unconfigured"]
         IN  Lawful(n, r) /\ Mute(n, r)
<1> DEFINE r == [CleanedUp(n) EXCEPT !.life = "unconfigured"]
<1>1. /\ Held(r) /\ r.life = "unconfigured" /\ ~r.open /\ r.armed = FALSE
      /\ r.core.armed = FALSE /\ r.core.mode = "Idle"
      /\ r.core.cfg \in Loaded /\ r.board = n.board
      /\ ~r.calib.handle /\ ~r.traj.handle
      /\ MayEnd(n.calib.goal, r.calib.goal) /\ MayEnd(n.traj.goal, r.traj.goal)
  BY CleanedUpHeld DEF Held, CalibHeld, LifeStates
<1> HIDE DEF r
<1>2. Life(r)
  BY <1>1 DEF Life
<1>3. Lawful(n, r)
  BY <1>1, <1>2, LawfulEnded
<1> QED
  BY <1>1, <1>3 DEF Mute, r

(* on_shutdown, from any state: the hold frame goes first, if there is a   *)
(* port to send it by.                                                     *)
LEMMA ShutdownLawful ==
  ASSUME NEW n, Held(n), Life(n), NEW ok
  PROVE  LET h == SendControl([n EXCEPT !.core = SetArmed(@, FALSE)], HoldFrame, ok)
             r == [CleanedUp(IF n.open THEN h ELSE n) EXCEPT !.life = "finalized"]
         IN  Lawful(n, r) /\ Mute(n, r)
<1> DEFINE c == SetArmed(n.core, FALSE)
           d == [n EXCEPT !.core = c]
           h == SendControl(d, HoldFrame, ok)
           k == IF n.open THEN h ELSE n
           r == [CleanedUp(k) EXCEPT !.life = "finalized"]
<1>0. n \in Node /\ n.core \in Core
  BY DEF Held, Node
<1>1. /\ c \in Core /\ c.mode = "Idle"
      /\ Gates(c) = <<n.core.controlAllowed, FALSE, n.core.linkUp>>
  BY <1>0, GatesType, ArmedEffect
<1>2. [n EXCEPT !.core = SetArmed(@, FALSE)] = d
  OBVIOUS
<1> HIDE DEF c
<1>3. d \in Node
  BY <1>0, <1>1, NodeUpdates
<1>4. /\ Port(d) = Port(n) /\ d.core = c /\ d.allowControl = n.allowControl
      /\ d.calib = n.calib /\ d.traj = n.traj /\ d.board = n.board
  BY <1>0 DEF Node, Port
<1> HIDE DEF d
<1>5. Held(d)
  BY <1>1, <1>3, <1>4
     DEF Held, GatesAgree, CalibTracked, CalibHeld, TrajHeld, Port, Gates
<1>6. /\ h \in Node /\ GatesAgree(h) /\ CalibTracked(h) /\ TrajHeld(h)
      /\ h.calib = d.calib /\ h.traj = d.traj
      /\ h.board.turning => d.board.turning
  BY <1>5, HoldSent
<1> HIDE DEF h
<1>7. /\ k \in Node /\ GatesAgree(k) /\ CalibTracked(k) /\ TrajHeld(k)
      /\ k.calib = n.calib /\ k.traj = n.traj
      /\ k.board.turning => n.board.turning
  BY <1>4, <1>6 DEF Held, CalibHeld
<1> HIDE DEF k
<1>8. /\ Held(r) /\ r.life = "finalized" /\ ~r.open /\ r.armed = FALSE
      /\ r.core.armed = FALSE /\ r.core.mode = "Idle"
      /\ r.core.cfg \in Loaded /\ r.board = k.board
      /\ ~r.calib.handle /\ ~r.traj.handle
      /\ MayEnd(k.calib.goal, r.calib.goal) /\ MayEnd(k.traj.goal, r.traj.goal)
  BY <1>7, CleanedUpHeld DEF LifeStates
<1> HIDE DEF r
<1>9. Life(r)
  BY <1>8 DEF Life
<1>10. Lawful(n, r)
  BY <1>7, <1>8, <1>9, LawfulEnded
<1>11. Mute(n, r)
  BY <1>7, <1>8 DEF Mute
<1> QED
  BY <1>2, <1>10, <1>11 DEF r, k, h

-----------------------------------------------------------------------------
(* Timers. *)

(* A calibration and a trajectory, one control period further.             *)
LEMMA GoalsHeld ==
  ASSUME NEW s, Held(s), NEW hold \in BOOLEAN, NEW menu \in BOOLEAN
  PROVE  LET r == Goals(s, hold, menu)
         IN  /\ Held(r) /\ Rest(r) = Rest(s) /\ Port(r) = Port(s)
             /\ Gates(r.core) = Gates(s.core) /\ r.core.cfg = s.core.cfg
             /\ r.core.mode # "Idle" => s.core.mode # "Idle" \/ s.traj.handle
             /\ r.traj.handle => s.traj.handle
             /\ r.board.turning => s.board.turning
             /\ MayEnd(s.calib.goal, r.calib.goal) /\ MayEnd(s.traj.goal, r.traj.goal)
<1> DEFINE m == CalibTick(s, hold, menu)
           r == TrajTick(m)
<1>1. CalibStep(s, m)
  BY CalibTickSteps
<1> HIDE DEF m
<1>2. TrajStep(m, r)
  BY <1>1, TrajTickSteps DEF CalibStep
<1> HIDE DEF r
<1>3. /\ Held(r) /\ Rest(r) = Rest(s) /\ Port(r) = Port(s)
      /\ Gates(r.core) = Gates(s.core) /\ r.core.cfg = s.core.cfg
      /\ r.core.mode # "Idle" => s.core.mode # "Idle" \/ s.traj.handle
      /\ r.traj.handle => s.traj.handle
      /\ r.board.turning => s.board.turning
      /\ MayEnd(s.calib.goal, r.calib.goal) /\ MayEnd(s.traj.goal, r.traj.goal)
  BY <1>1, <1>2 DEF CalibStep, TrajStep
<1> QED
  BY <1>3 DEF Goals, r, m

(* The evidence of the settle check survives it.                           *)
LEMMA GoalsSee ==
  ASSUME NEW s, Held(s), Watching(s), FreshIsShort(s.core.cfg),
         NEW hold \in BOOLEAN, NEW menu \in BOOLEAN
  PROVE  LET r == Goals(s, hold, menu)
         IN  /\ Watching(r)
             /\ s.calib.phase = "Settling" /\ r.calib.phase = "Calibrating"
                  => r.calib.evidence >= 2
<1> DEFINE m == CalibTick(s, hold, menu)
           r == TrajTick(m)
<1>1. /\ Watching(m)
      /\ s.calib.phase = "Settling" /\ m.calib.phase = "Calibrating"
           => m.calib.evidence >= 2
  BY CalibTickSees
<1>2. Held(m)
  BY CalibTickSteps DEF CalibStep
<1> HIDE DEF m
<1>3. r.calib = m.calib /\ r.core.telemetryAge = m.core.telemetryAge
  BY <1>2, TrajTickSteps DEF TrajStep, Track
<1> HIDE DEF r
<1>4. Watching(r)
  BY <1>1, <1>3 DEF Watching
<1> QED
  BY <1>1, <1>3, <1>4 DEF Goals, r, m

(* A reply brings an angle, and a sample for the settle check.             *)
LEMMA ReceivedHeld ==
  ASSUME NEW s, Held(s), NEW angle \in [Axes -> Int]
  PROVE  LET r == Received(s, angle)
         IN  /\ Held(r) /\ Rest(r) = Rest(s) /\ r.open = s.open
             /\ Gates(r.core) = Gates(s.core) /\ r.core.cfg = s.core.cfg
             /\ r.core.mode = s.core.mode
             /\ r.traj = s.traj /\ r.board = s.board
             /\ r.calib.phase = s.calib.phase /\ r.calib.handle = s.calib.handle
             /\ r.calib.goal = s.calib.goal
             /\ Watching(s) => Watching(r)
<1> DEFINE t == [valid |-> TRUE, angle |-> angle, age |-> 0]
           c == OnTelemetry(s.core, t)
           settling == s.calib.handle /\ s.calib.lastAngle # None
           seen == IF settling /\ s.calib.evidence < 2 THEN s.calib.evidence + 1
                   ELSE s.calib.evidence
           g == [s.calib EXCEPT !.evidence = seen]
           a == [s EXCEPT !.haveRealtime = TRUE]
           b == [a EXCEPT !.motorsOn = s.board.powered]
           d == [b EXCEPT !.core = c]
           r == [d EXCEPT !.calib = g]
<1>0. /\ s \in Node /\ s.core \in Core /\ s.calib \in Calib
      /\ s.board \in Board /\ s.board.powered \in BOOLEAN
  BY DEF Held, Node, Board
<1>1. t \in Sample
  <2>1. angle \in [Axes -> Num] /\ 0 \in Ages
    BY CoreAssumption DEF Num, Ages
  <2> QED
    BY <2>1 DEF Sample
<1>2. /\ c \in Core /\ c.mode = s.core.mode
      /\ Gates(c) = Gates(s.core) /\ c.cfg = s.core.cfg
  BY <1>0, <1>1, OnTelemetryType, TelemetryEffect
<1>3. Received(s, angle) = r
  BY <1>0 DEF Received, Node, Calib
<1> HIDE DEF c, t
<1>4. s.calib.evidence \in 0 .. 2 /\ seen \in 0 .. 2
  BY <1>0 DEF Calib
<1>5. g \in Calib
  BY <1>0, <1>4, CalibUpdates
<1>6. /\ g.phase = s.calib.phase /\ g.handle = s.calib.handle /\ g.goal = s.calib.goal
      /\ g.lastAngle = s.calib.lastAngle /\ g.stillAge = s.calib.stillAge
      /\ g.evidence = seen
  BY <1>0 DEF Calib
<1>7. /\ s.calib.phase = "Settling" => s.calib.handle
      /\ s.calib.phase \in {"Idle", "Settling", "Calibrating"}
  BY <1>0 DEF Held, CalibHeld, CalibTracked, Calib
<1>8. Watching(s) /\ s.calib.phase = "Settling" /\ s.calib.lastAngle # None => seen >= 2
  BY <1>4, <1>7 DEF Watching
<1>9. Watching(s) /\ s.calib.phase = "Settling" =>
        (s.calib.lastAngle = None => s.calib.stillAge = None)
  BY DEF Watching
<1> HIDE DEF g, seen
<1>10. b \in Node
  BY <1>0, NodeUpdates
<1>11. d \in Node
  BY <1>2, <1>10, NodeUpdates
<1>12. r \in Node
  BY <1>5, <1>11, NodeUpdates
<1>13. /\ Rest(r) = Rest(s) /\ r.open = s.open /\ r.core = c /\ r.calib = g
       /\ r.traj = s.traj /\ r.board = s.board
  BY <1>0 DEF Node, Rest
<1> HIDE DEF a, b, d, r
<1>14. Held(r)
  <2>1. GatesAgree(r)
    BY <1>2, <1>13 DEF Held, GatesAgree, MotionPermitted, Rest, Gates
  <2> QED
    BY <1>6, <1>12, <1>13, <2>1 DEF Held, CalibTracked, CalibHeld, TrajHeld
<1>15. Watching(s) => Watching(r)
  BY <1>4, <1>6, <1>8, <1>9, <1>13 DEF Watching
<1> QED
  BY <1>2, <1>3, <1>6, <1>13, <1>14, <1>15

(* applyParameters replaces the configuration and nothing else.            *)
LEMMA ReconfiguredHeld ==
  ASSUME NEW s, Held(s), NEW cfg \in Configs
  PROVE  LET r == Reconfigured(s, cfg)
         IN  /\ Held(r) /\ Rest(r) = Rest(s) /\ Port(r) = Port(s)
             /\ Gates(r.core) = Gates(s.core) /\ r.core.mode = s.core.mode
             /\ r.core.telemetryAge = s.core.telemetryAge
             /\ r.core.cfg = Sanitised(cfg)
             /\ r.calib = s.calib /\ r.traj = s.traj /\ r.board = s.board
<1> DEFINE c == SetConfig(s.core, cfg)
           r == [s EXCEPT !.core = c]
<1>1. s.core \in Core /\ cfg \in Config
  BY NodeInputs DEF Held, Node
<1>2. c = [s.core EXCEPT !.cfg = Sanitised(cfg)]
  BY DEF SetConfig
<1>3. c \in Core /\ c.cfg = Sanitised(cfg)
  <2> DEFINE k == Sanitised(cfg)
  <2>1. k \in Config /\ c = [s.core EXCEPT !.cfg = k]
    BY <1>1, <1>2, SanitisedSane
  <2> HIDE DEF k, c
  <2>2. c \in Core
    BY <1>1, <2>1, CoreUpdates
  <2>3. c.cfg = k
    BY <1>1, <2>1 DEF Core
  <2> QED
    BY <2>2, <2>3 DEF k
<1>4. c.mode = s.core.mode /\ Gates(c) = Gates(s.core) /\ Track(c) = Track(s.core)
  BY <1>1, ConfigEffect
<1>5. Reconfigured(s, cfg) = r
  BY DEF Reconfigured
<1> HIDE DEF c
<1>6. c.mode # "Idle" => MotionPermitted(s.core)
  BY <1>4 DEF Held, GatesAgree
<1>7. /\ Held(r) /\ Rest(r) = Rest(s) /\ Port(r) = Port(s) /\ r.core = c
      /\ r.calib = s.calib /\ r.traj = s.traj /\ r.board = s.board
  BY <1>3, <1>4, <1>6, CoreHeld
<1> HIDE DEF r
<1> QED
  BY <1>3, <1>4, <1>5, <1>7 DEF Track

(* What becomes of the node in one run of the control timer, up to the     *)
(* parameters it starts by reading.                                        *)
Ticked(s, r) ==
  /\ Held(r) /\ Rest(r) = Rest(s)
  /\ r.core.armed = s.core.armed /\ r.core.cfg = s.core.cfg
  /\ r.core.mode # "Idle" => s.core.mode # "Idle" \/ s.traj.handle
  /\ r.traj.handle => s.traj.handle
  /\ r.board.turning => s.board.turning \/ s.core.mode # "Idle"
  /\ MayEnd(s.calib.goal, r.calib.goal) /\ MayEnd(s.traj.goal, r.traj.goal)
  /\ Watching(s) /\ FreshIsShort(s.core.cfg) =>
       /\ Watching(r)
       /\ s.calib.phase = "Settling" /\ r.calib.phase = "Calibrating"
            => r.calib.evidence >= 2

(* The part of it before the goals have their turn.                        *)
Began(s, r) ==
  /\ Held(r) /\ Rest(r) = Rest(s)
  /\ r.core.armed = s.core.armed /\ r.core.cfg = s.core.cfg
  /\ r.core.mode # "Idle" => s.core.mode # "Idle"
  /\ r.board.turning => s.board.turning \/ s.core.mode # "Idle"
  /\ r.calib.goal = s.calib.goal /\ r.calib.phase = s.calib.phase
  /\ r.traj = s.traj
  /\ Watching(s) => Watching(r)

(* It may stop there ...                                                   *)
LEMMA BeganTicked ==
  ASSUME NEW s, NEW r, Began(s, r) PROVE Ticked(s, r)
  BY DEF Began, Ticked, MayEnd

(* ... or go on.                                                           *)
LEMMA BeganGoals ==
  ASSUME NEW s, NEW m, Began(s, m), NEW hold \in BOOLEAN, NEW menu \in BOOLEAN
  PROVE  Ticked(s, Goals(m, hold, menu))
<1> DEFINE r == Goals(m, hold, menu)
<1>1. /\ Held(r) /\ Rest(r) = Rest(m)
      /\ Gates(r.core) = Gates(m.core) /\ r.core.cfg = m.core.cfg
      /\ r.core.mode # "Idle" => m.core.mode # "Idle" \/ m.traj.handle
      /\ r.traj.handle => m.traj.handle
      /\ r.board.turning => m.board.turning
      /\ MayEnd(m.calib.goal, r.calib.goal) /\ MayEnd(m.traj.goal, r.traj.goal)
  BY GoalsHeld DEF Began
<1>2. Watching(m) /\ FreshIsShort(m.core.cfg) =>
        /\ Watching(r)
        /\ m.calib.phase = "Settling" /\ r.calib.phase = "Calibrating"
             => r.calib.evidence >= 2
  BY GoalsSee DEF Began
<1> HIDE DEF r
<1>3. r.core.armed = s.core.armed
  BY <1>1 DEF Began, Gates
<1>4. Watching(s) /\ FreshIsShort(s.core.cfg) =>
        /\ Watching(r)
        /\ s.calib.phase = "Settling" /\ r.calib.phase = "Calibrating"
             => r.calib.evidence >= 2
  BY <1>2 DEF Began
<1> QED
  BY <1>1, <1>3, <1>4 DEF Began, Ticked, r

(* Losing the link is such a beginning.                                    *)
LEMMA LostBegins ==
  ASSUME NEW s, Held(s) PROVE Began(s, NoteLinkLost(s))
<1> DEFINE r == NoteLinkLost(s)
<1>1. /\ Held(r) /\ Rest(r) = Rest(s) /\ r.core = SetLinkUp(s.core, FALSE)
      /\ r.calib = s.calib /\ r.traj = s.traj /\ r.board = s.board
  BY LinkLostHeld
<1>2. s.core \in Core
  BY DEF Held, Node
<1> HIDE DEF r
<1>3. /\ r.core.mode = "Idle" /\ r.core.cfg = s.core.cfg
      /\ r.core.armed = s.core.armed /\ r.core.telemetryAge = s.core.telemetryAge
  BY <1>1, <1>2, LinkEffect DEF Gates
<1>4. Watching(s) => Watching(r)
  BY <1>1, <1>3 DEF Watching
<1> QED
  BY <1>1, <1>3, <1>4 DEF Began, r

(* Nothing between two steps, and one beginning after the other.           *)
LEMMA BeganChains ==
  ASSUME NEW s, NEW m, NEW r, Began(s, m), Began(m, r), m.board = s.board \/ r.board = m.board
  PROVE  Began(s, r)
  BY DEF Began

(* The control frame of the cycle: it moves the board only for a command   *)
(* that is pending, and is left out while a calibration runs.              *)
LEMMA FrameBegins ==
  ASSUME NEW s, Held(s), NEW ok
  PROVE  LET r == IF s.calib.phase = "Calibrating" THEN s
                  ELSE SendControl(s, Tick(s.core), ok)
         IN  Began(s, r) /\ r.core = s.core
<1> DEFINE f == Tick(s.core)
           h == SendControl(s, f, ok)
<1>1. f.moving \in BOOLEAN /\ (f.moving => MotionPermitted(s.core) /\ s.core.mode # "Idle")
  BY MovingIsPermitted
<1>2. s \in Node /\ (f.moving => s.allowControl)
  BY <1>1 DEF Held, GatesAgree, MotionPermitted
<1>3. CASE s.calib.phase = "Calibrating"
  BY <1>3 DEF Began
<1>4. CASE s.calib.phase # "Calibrating"
  <2> HIDE DEF f
  <2>1. Held(h)
    BY <1>1, <1>2, <1>4, SendHeld
  <2>2. /\ Rest(h) = Rest(s)
        /\ h.core = s.core /\ h.calib = s.calib /\ h.traj = s.traj
        /\ h.board.turning = s.board.turning \/ h.board.turning = f.moving
    BY <1>1, <1>2, SendEffect
  <2> HIDE DEF h
  <2>3. Began(s, h)
    BY <1>1, <2>1, <2>2 DEF Began, Watching
  <2> QED
    BY <1>4, <2>2, <2>3 DEF h, f
<1> QED
  BY <1>3, <1>4

(* The port open: a frame, a poll, and the goals.                          *)
LEMMA OpenTicks ==
  ASSUME NEW s, Held(s), NEW ok \in BOOLEAN,
         NEW poll, poll.kind = "reply" => poll.angle \in [Axes -> Int],
         NEW hold \in BOOLEAN, NEW menu \in BOOLEAN
  PROVE  Ticked(s, TickWhileOpen(s, ok, poll, hold, menu))
<1> DEFINE m == IF s.calib.phase = "Calibrating" THEN s
                ELSE SendControl(s, Tick(s.core), ok)
           k == IF poll.kind = "reply" THEN Received(m, poll.angle) ELSE m
           r == TickWhileOpen(s, ok, poll, hold, menu)
<1>1. Began(s, m) /\ Held(m)
  BY FrameBegins DEF Began
<1>2. r = NoteLinkLost(m) \/ r = Goals(k, hold, menu)
  BY DEF TickWhileOpen
<1> HIDE DEF m
<1>3. Began(s, NoteLinkLost(m))
  <2>1. Began(m, NoteLinkLost(m)) /\ NoteLinkLost(m).board = m.board
    BY <1>1, LostBegins, LinkLostHeld
  <2> QED
    BY <1>1, <2>1, BeganChains
<1>4. Began(s, k)
  <2>1. CASE poll.kind = "reply"
    <3> DEFINE angle == poll.angle
    <3>1. angle \in [Axes -> Int]
      BY <2>1
    <3> HIDE DEF angle
    <3>2. LET q == Received(m, angle)
          IN  /\ Held(q) /\ Rest(q) = Rest(m)
              /\ Gates(q.core) = Gates(m.core) /\ q.core.cfg = m.core.cfg
              /\ q.core.mode = m.core.mode
              /\ q.traj = m.traj /\ q.board = m.board
              /\ q.calib.phase = m.calib.phase /\ q.calib.goal = m.calib.goal
              /\ Watching(m) => Watching(q)
      BY <1>1, <3>1, ReceivedHeld
    <3>3. Began(m, Received(m, angle)) /\ Received(m, angle).board = m.board
      BY <3>2 DEF Began, Gates
    <3>4. Began(s, Received(m, angle))
      BY <1>1, <3>3, BeganChains
    <3> QED
      BY <2>1, <3>4 DEF angle
  <2>2. CASE poll.kind # "reply"
    BY <1>1, <2>2
  <2> QED
    BY <2>1, <2>2
<1> HIDE DEF k, r
<1>5. Ticked(s, NoteLinkLost(m)) /\ Ticked(s, Goals(k, hold, menu))
  BY <1>3, <1>4, BeganTicked, BeganGoals
<1> QED
  BY <1>2, <1>5 DEF r

(* The port shut: an attempt to open it when it is due, and the goals.     *)
LEMMA ClosedTicks ==
  ASSUME NEW s, Held(s), NEW conn \in BOOLEAN,
         NEW hold \in BOOLEAN, NEW menu \in BOOLEAN
  PROVE  Ticked(s, TickWhileClosed(s, conn, hold, menu))
<1> DEFINE lost == [TryConnect(s, FALSE) EXCEPT !.retryIn = ReconnectDelay]
           m == IF s.retryIn > 0 THEN s
                ELSE IF conn THEN TryConnect(s, TRUE) ELSE lost
<1>1. Began(s, s)
  BY DEF Began
<1>2. Began(s, TryConnect(s, TRUE))
  <2> DEFINE q == TryConnect(s, TRUE)
  <2>1. /\ Held(q) /\ Rest(q) = Rest(s) /\ q.core = SetLinkUp(s.core, TRUE)
        /\ q.calib = s.calib /\ q.traj = s.traj /\ q.board = s.board
    BY ConnectHeld
  <2>2. s.core \in Core
    BY DEF Held, Node
  <2> HIDE DEF q
  <2>3. /\ q.core.mode = s.core.mode /\ q.core.cfg = s.core.cfg
        /\ q.core.armed = s.core.armed /\ q.core.telemetryAge = s.core.telemetryAge
    <3> DEFINE c == SetLinkUp(s.core, TRUE)
    <3>1. /\ c.mode = s.core.mode /\ c.cfg = s.core.cfg
          /\ c.telemetryAge = s.core.telemetryAge
      BY <2>2 DEF SetLinkUp, Core
    <3>2. c.armed = s.core.armed
      BY <2>2 DEF SetLinkUp, Core
    <3> QED
      BY <2>1, <3>1, <3>2
  <2>4. Watching(s) => Watching(q)
    BY <2>1, <2>3 DEF Watching
  <2> QED
    BY <2>1, <2>3, <2>4 DEF Began, q
<1>3. lost = NoteLinkLost(s)
  BY DEF TryConnect, NoteLinkLost
<1> HIDE DEF lost
<1>4. Began(s, lost)
  BY <1>3, LostBegins
<1>5. Began(s, m)
  BY <1>1, <1>2, <1>4
<1>6. TickWhileClosed(s, conn, hold, menu) = Goals(m, hold, menu)
  BY DEF TickWhileClosed, lost
<1> HIDE DEF m
<1> QED
  BY <1>5, <1>6, BeganGoals

(* controlTick, with the parameters as they were or set anew.              *)
LEMMA ControlTickLawful ==
  ASSUME NEW n, Held(n), Life(n), n.life = "active",
         NEW s \in {n} \cup {Reconfigured(n, cfg) : cfg \in Configs},
         NEW r, Ticked(s, r)
  PROVE  Lawful(n, r) /\ Quiet(n, r)
<1>1. /\ Held(s) /\ Rest(s) = Rest(n) /\ s.core.armed = n.core.armed
      /\ s.core.mode = n.core.mode
      /\ s.core.cfg \in {n.core.cfg} \cup Loaded
      /\ s.calib = n.calib /\ s.traj = n.traj /\ s.board = n.board
      /\ Watching(n) => Watching(s)
  <2>1. CASE s = n
    BY <2>1
  <2>2. ASSUME NEW cfg \in Configs, s = Reconfigured(n, cfg)
        PROVE  /\ Held(s) /\ Rest(s) = Rest(n) /\ s.core.armed = n.core.armed
               /\ s.core.mode = n.core.mode
               /\ s.core.cfg \in {n.core.cfg} \cup Loaded
               /\ s.calib = n.calib /\ s.traj = n.traj /\ s.board = n.board
               /\ Watching(n) => Watching(s)
    <3>1. /\ Held(s) /\ Rest(s) = Rest(n)
          /\ Gates(s.core) = Gates(n.core) /\ s.core.mode = n.core.mode
          /\ s.core.telemetryAge = n.core.telemetryAge
          /\ s.core.cfg = Sanitised(cfg)
          /\ s.calib = n.calib /\ s.traj = n.traj /\ s.board = n.board
      BY <2>2, ReconfiguredHeld
    <3>2. s.core.armed = n.core.armed /\ s.core.cfg \in Loaded
      BY <3>1 DEF Gates, Loaded
    <3> QED
      BY <3>1, <3>2 DEF Watching
  <2> QED
    BY <2>1, <2>2
<1>2. Life(r)
  BY <1>1 DEF Life, Ticked, Rest
<1>3. Watches(n, r)
  BY <1>1 DEF Watches, Ticked
<1>4. Lawful(n, r)
  BY <1>1, <1>2, <1>3 DEF Lawful, Ticked, MayMove
<1>5. Quiet(n, r)
  BY <1>1 DEF Quiet, Ticked
<1> QED
  BY <1>4, <1>5

(* Both request timers: nothing, or the loss of the link.                  *)
LEMMA RequestLawful ==
  ASSUME NEW n, Held(n), Life(n), n.life = "active"
  PROVE  /\ Lawful(n, n) /\ Quiet(n, n)
         /\ Lawful(n, NoteLinkLost(n)) /\ Quiet(n, NoteLinkLost(n))
<1>1. Ticked(n, NoteLinkLost(n))
  BY LostBegins, BeganTicked
<1>2. Lawful(n, n)
  BY LawfulAside
<1> QED
  BY <1>1, <1>2, ControlTickLawful DEF Quiet

-----------------------------------------------------------------------------
(* Commands. *)

(* A core that has the same gates and track, and commands nothing they     *)
(* forbid, may take the place of the core.                                 *)
LEMMA CoreLawful ==
  ASSUME NEW n, Held(n), Life(n), NEW c \in Core,
         Gates(c) = Gates(n.core), Track(c) = Track(n.core), c.cfg = n.core.cfg,
         c.mode # "Idle" => MotionPermitted(n.core)
  PROVE  LET r == [n EXCEPT !.core = c]
         IN  /\ Lawful(n, r) /\ Loud(n, r)
             /\ c.mode \in {n.core.mode, "Idle"} => Quiet(n, r)
             /\ Rest(r) = Rest(n) /\ r.core = c
             /\ r.calib = n.calib /\ r.traj = n.traj /\ r.board = n.board
<1> DEFINE r == [n EXCEPT !.core = c]
<1>1. /\ Held(r) /\ Rest(r) = Rest(n) /\ Port(r) = Port(n) /\ r.core = c
      /\ r.calib = n.calib /\ r.traj = n.traj /\ r.board = n.board
  BY CoreHeld
<1> HIDE DEF r
<1>2. Life(r)
  BY <1>1 DEF Life, Rest, Port, Gates
<1>3. r.core.telemetryAge = n.core.telemetryAge
  BY <1>1 DEF Track
<1>4. Lawful(n, r)
  BY <1>1, <1>2, <1>3, LawfulAside
<1>5. Loud(n, r)
  BY <1>1 DEF Loud, Port
<1>6. c.mode \in {n.core.mode, "Idle"} => Quiet(n, r)
  BY <1>1 DEF Quiet
<1> QED
  BY <1>1, <1>4, <1>5, <1>6 DEF r

(* The hold of a message that names no joint, and of the idle mode.        *)
LEMMA HoldLawful ==
  ASSUME NEW n, Held(n), Life(n)
  PROVE  LET r == [n EXCEPT !.core = SubmitHold(@)]
         IN  /\ Lawful(n, r) /\ Quiet(n, r) /\ Rest(r) = Rest(n)
             /\ r.core = SubmitHold(n.core) /\ r.core.mode = "Idle"
             /\ r.calib = n.calib /\ r.traj = n.traj /\ r.board = n.board
<1> DEFINE c == SubmitHold(n.core)
<1>1. n.core \in Core
  BY DEF Held, Node
<1>2. /\ c \in Core /\ c.mode = "Idle" /\ Gates(c) = Gates(n.core)
      /\ Track(c) = Track(n.core) /\ c.cfg = n.core.cfg
  BY <1>1, ClearType, HoldEffect
<1> HIDE DEF c
<1>3. LET r == [n EXCEPT !.core = c]
      IN  /\ Lawful(n, r) /\ Quiet(n, r) /\ Rest(r) = Rest(n) /\ r.core = c
          /\ r.calib = n.calib /\ r.traj = n.traj /\ r.board = n.board
  BY <1>2, CoreLawful
<1> QED
  BY <1>2, <1>3 DEF c

(* onJointJog with rates or with angles.                                   *)
LEMMA JogLawful ==
  ASSUME NEW n, Held(n), Life(n), NEW v \in [Axes -> Num]
  PROVE  /\ LET r == [n EXCEPT !.core = SubmitRate(@, v)]
            IN  Lawful(n, r) /\ Loud(n, r)
         /\ LET r == [n EXCEPT !.core = SubmitAngle(@, v, n.relative)]
            IN  Lawful(n, r) /\ Loud(n, r)
<1> DEFINE c == SubmitRate(n.core, v)
           d == SubmitAngle(n.core, v, n.relative)
<1>1. n.core \in Core /\ n.relative \in BOOLEAN
  BY DEF Held, Node
<1>2. /\ c \in Core /\ Gates(c) = Gates(n.core)
      /\ Track(c) = Track(n.core) /\ c.cfg = n.core.cfg
      /\ c.mode # "Idle" => MotionPermitted(n.core)
  BY <1>1, SubmitRateType, RateEffect
<1>3. /\ d \in Core /\ Gates(d) = Gates(n.core)
      /\ Track(d) = Track(n.core) /\ d.cfg = n.core.cfg
      /\ d.mode # "Idle" => MotionPermitted(n.core)
  BY <1>1, SubmitAngleType, AngleEffect
<1> HIDE DEF c, d
<1>4. LET r == [n EXCEPT !.core = c] IN Lawful(n, r) /\ Loud(n, r)
  BY <1>2, CoreLawful
<1>5. LET r == [n EXCEPT !.core = d] IN Lawful(n, r) /\ Loud(n, r)
  BY <1>3, CoreLawful
<1> QED
  BY <1>4, <1>5 DEF c, d

(* The joints a message or a goal does not name are filled in.             *)
LEMMA FilledType ==
  ASSUME NEW v \in JogRates \cup JogAngles PROVE Filled(v) \in [Axes -> Num]
<1>1. v \in [DOMAIN v -> Num]
  BY NodeInputs
<1> QED
  BY <1>1 DEF Filled, Num

(* set_motors.                                                             *)
LEMMA MotorsLawful ==
  ASSUME NEW n, Held(n), Life(n), NEW on \in BOOLEAN, NEW ok
  PROVE  Lawful(n, SendMotors(n, on, ok)) /\ Quiet(n, SendMotors(n, on, ok))
<1> DEFINE r == SendMotors(n, on, ok)
<1>1. /\ Held(r) /\ Rest(r) = Rest(n) /\ Port(r) = Port(n)
      /\ r.core = n.core /\ r.calib = n.calib /\ r.traj = n.traj
      /\ r.board.turning = n.board.turning
  BY MotorsHeld
<1> HIDE DEF r
<1>2. Life(r)
  BY <1>1 DEF Life, Rest, Port
<1>3. Lawful(n, r)
  BY <1>1, <1>2, LawfulAside
<1> QED
  BY <1>1, <1>3 DEF Quiet, r

(* arm.                                                                    *)
LEMMA ArmLawful ==
  ASSUME NEW n, Held(n), Life(n), n.life = "active"
  PROVE  LET r == [n EXCEPT !.core = SetArmed(@, TRUE), !.armed = TRUE]
         IN  Lawful(n, r) /\ Quiet(n, r)
<1> DEFINE r == Rearmed(n, TRUE)
<1>1. /\ Held(r) /\ Port(r) = Port(n) /\ r.armed = TRUE /\ r.core.armed = TRUE
      /\ r.life = n.life /\ r.core.cfg = n.core.cfg
      /\ r.core.telemetryAge = n.core.telemetryAge
      /\ r.core.mode = n.core.mode
      /\ r.calib = n.calib /\ r.traj = n.traj /\ r.board = n.board
  BY ArmingHeld
<1> HIDE DEF r
<1>2. Life(r)
  BY <1>1 DEF Life
<1>3. Lawful(n, r)
  BY <1>1, <1>2, LawfulAside
<1>4. Quiet(n, r)
  BY <1>1 DEF Quiet
<1> QED
  BY <1>3, <1>4 DEF r, Rearmed

(* stop: a hold, sent at once, and no goal left to command anything else.  *)
LEMMA StopLawful ==
  ASSUME NEW n, Held(n), Life(n), NEW ok
  PROVE  LET r == AbortActiveGoals(
                    SendControl([n EXCEPT !.core = SubmitHold(@)], HoldFrame, ok))
         IN  /\ Lawful(n, r) /\ Mute(n, r)
             /\ r.life = n.life /\ ~r.calib.handle /\ ~r.traj.handle
             /\ r.core.cfg = n.core.cfg
<1> DEFINE h == [n EXCEPT !.core = SubmitHold(@)]
           r == AbortActiveGoals(SendControl(h, HoldFrame, ok))
<1>1. /\ Held(h) /\ Life(h) /\ Rest(h) = Rest(n)
      /\ h.core = SubmitHold(n.core) /\ h.core.mode = "Idle"
      /\ h.calib = n.calib /\ h.traj = n.traj /\ h.board = n.board
  BY HoldLawful DEF Lawful
<1>2. h.core.cfg = n.core.cfg
  BY <1>1, HoldEffect DEF Held, Node
<1> HIDE DEF h
<1>3. /\ Held(r) /\ Rest(r) = Rest(h) /\ Port(r) = Port(h) /\ r.core = h.core
      /\ r.board.turning => h.board.turning
  BY <1>1, HaltHeld
<1>4. /\ ~r.calib.handle /\ ~r.traj.handle
      /\ MayEnd(h.calib.goal, r.calib.goal) /\ MayEnd(h.traj.goal, r.traj.goal)
  BY <1>1, HaltHeld
<1> HIDE DEF r
<1>5. Life(r)
  BY <1>1, <1>3, <1>4 DEF Life, Rest, Port
<1>6. Lawful(n, r)
  BY <1>1, <1>2, <1>3, <1>4, <1>5, LawfulEnded
<1>7. Mute(n, r)
  BY <1>1, <1>3, <1>4 DEF Mute
<1>8. r.life = n.life
  BY <1>1, <1>3 DEF Rest
<1> QED
  BY <1>1, <1>2, <1>3, <1>4, <1>6, <1>7, <1>8 DEF r, h

(* disarm: a stop, and then the gate.                                      *)
LEMMA DisarmLawful ==
  ASSUME NEW n, Held(n), Life(n), NEW ok
  PROVE  LET s == AbortActiveGoals(
                    SendControl([n EXCEPT !.core = SubmitHold(@)], HoldFrame, ok))
             r == [s EXCEPT !.core = SetArmed(@, FALSE), !.armed = FALSE]
         IN  Lawful(n, r) /\ Mute(n, r)
<1> DEFINE s == AbortActiveGoals(
                  SendControl([n EXCEPT !.core = SubmitHold(@)], HoldFrame, ok))
           r == Rearmed(s, FALSE)
<1>1. /\ Lawful(n, s) /\ Mute(n, s) /\ s.life = n.life
      /\ ~s.calib.handle /\ ~s.traj.handle /\ s.core.cfg = n.core.cfg
  BY StopLawful
<1>2. /\ MayEnd(n.calib.goal, s.calib.goal) /\ MayEnd(n.traj.goal, s.traj.goal)
  <2> DEFINE h == [n EXCEPT !.core = SubmitHold(@)]
  <2>1. Held(h) /\ h.calib = n.calib /\ h.traj = n.traj
    BY HoldLawful DEF Lawful
  <2> HIDE DEF h
  <2>2. LET q == AbortActiveGoals(SendControl(h, HoldFrame, ok))
        IN  MayEnd(h.calib.goal, q.calib.goal) /\ MayEnd(h.traj.goal, q.traj.goal)
    BY <2>1, HaltHeld
  <2> QED
    BY <2>1, <2>2 DEF h
<1> HIDE DEF s
<1>3. /\ Held(r) /\ Port(r) = Port(s) /\ r.armed = FALSE /\ r.core.armed = FALSE
      /\ r.life = s.life /\ r.core.cfg = s.core.cfg
      /\ r.core.mode = "Idle"
      /\ r.calib = s.calib /\ r.traj = s.traj /\ r.board = s.board
  BY <1>1, ArmingHeld DEF Lawful
<1> HIDE DEF r
<1>4. Life(r)
  BY <1>1, <1>3 DEF Life, Lawful, Port
<1>5. Lawful(n, r)
  BY <1>1, <1>2, <1>3, <1>4, LawfulEnded
<1>6. Mute(n, r)
  BY <1>1, <1>3 DEF Mute
<1> QED
  BY <1>5, <1>6 DEF r, s, Rearmed

(* The frame of reference for angles concerns nothing else.                *)
LEMMA RelativeLawful ==
  ASSUME NEW n, NEW s, Lawful(n, s), Quiet(n, s), NEW x \in BOOLEAN,
         s.calib = n.calib, s.traj = n.traj
  PROVE  LET r == [s EXCEPT !.relative = x] IN Lawful(n, r) /\ Quiet(n, r)
<1> DEFINE r == [s EXCEPT !.relative = x]
<1>1. s \in Node
  BY DEF Lawful, Held
<1>2. r \in Node
  BY <1>1, NodeUpdates
<1>3. /\ Port(r) = Port(s) /\ r.core = s.core /\ r.life = s.life
      /\ r.armed = s.armed /\ r.allowControl = s.allowControl
      /\ r.calib = s.calib /\ r.traj = s.traj /\ r.board = s.board
  BY <1>1 DEF Node, Port
<1> HIDE DEF r
<1>4. Held(r)
  BY <1>2, <1>3
     DEF Lawful, Held, GatesAgree, CalibTracked, CalibHeld, TrajHeld, Port
<1>5. Life(r)
  BY <1>3 DEF Lawful, Life, Port
<1>6. Watches(n, r)
  BY <1>3 DEF Lawful, Watches, Watching
<1>7. Lawful(n, r) /\ Quiet(n, r)
  BY <1>3, <1>4, <1>5, <1>6 DEF Lawful, Quiet
<1> QED
  BY <1>7 DEF r

(* set_lock_mode and set_control_mode.                                     *)
LEMMA ModeLawful ==
  ASSUME NEW n, Held(n), Life(n), NEW idle \in BOOLEAN, NEW x \in BOOLEAN
  PROVE  /\ LET r == [n EXCEPT !.relative = x] IN Lawful(n, r) /\ Quiet(n, r)
         /\ LET r == [n EXCEPT !.relative = x,
                               !.core = IF idle THEN SubmitHold(@) ELSE @]
            IN  Lawful(n, r) /\ Quiet(n, r)
<1> DEFINE h == [n EXCEPT !.core = SubmitHold(@)]
           d == [n EXCEPT !.relative = x]
           e == [h EXCEPT !.relative = x]
           r == [n EXCEPT !.relative = x, !.core = IF idle THEN SubmitHold(@) ELSE @]
<1>1. Lawful(n, n) /\ Quiet(n, n)
  BY LawfulAside DEF Quiet
<1>2. /\ Lawful(n, h) /\ Quiet(n, h) /\ h.calib = n.calib /\ h.traj = n.traj
  BY HoldLawful
<1>3. n \in Node
  BY DEF Held
<1>4. r = IF idle THEN e ELSE d
  BY <1>3 DEF Node
<1> HIDE DEF h, r
<1>5. Lawful(n, d) /\ Quiet(n, d)
  BY <1>1, RelativeLawful
<1>6. Lawful(n, e) /\ Quiet(n, e)
  BY <1>2, RelativeLawful
<1> HIDE DEF d, e
<1>7. Lawful(n, r) /\ Quiet(n, r)
  BY <1>4, <1>5, <1>6
<1> QED
  BY <1>5, <1>7 DEF r, d

(* home and level: the board moves by itself, but not over a calibration.  *)
LEMMA HomeLawful ==
  ASSUME NEW n, Held(n), Life(n), MotionPermitted(n.core),
         n.calib.phase = "Idle", NEW ok
  PROVE  Lawful(n, SendAutoTask(n, ok)) /\ Loud(n, SendAutoTask(n, ok))
<1> DEFINE f == [moving |-> TRUE]
           r == SendControl(n, f, ok)
<1>1. f.moving = TRUE /\ f.moving \in BOOLEAN /\ n.allowControl /\ n \in Node
  BY DEF Held, GatesAgree, MotionPermitted
<1>2. SendAutoTask(n, ok) = r
  BY AutoTaskIsFrame
<1> HIDE DEF f
<1>3. Held(r)
  BY <1>1, SendHeld
<1>4. /\ Rest(r) = Rest(n) /\ Port(r) = Port(n)
      /\ r.core = n.core /\ r.calib = n.calib /\ r.traj = n.traj
  BY <1>1, SendEffect
<1> HIDE DEF r
<1>5. Life(r)
  BY <1>4 DEF Life, Rest, Port
<1>6. Lawful(n, r)
  BY <1>3, <1>4, <1>5, LawfulAside
<1>7. Loud(n, r)
  BY <1>4 DEF Loud, Port
<1> QED
  BY <1>2, <1>6, <1>7

-----------------------------------------------------------------------------
(* The action servers. *)

(* A calibration goal is accepted into its settle check.                   *)
LEMMA AcceptedHeld ==
  ASSUME NEW n, Held(n), Life(n), n.life = "active",
         ~n.traj.active, NEW settle \in 1 .. MaxSettle
  PROVE  LET g == [NoCalib("executing") EXCEPT
                     !.handle = TRUE, !.phase = "Settling", !.settle = settle]
             s == [n EXCEPT !.calib = g]
         IN  /\ Held(s) /\ Life(s) /\ Rest(s) = Rest(n) /\ Port(s) = Port(n)
             /\ s.core = n.core /\ s.traj = n.traj /\ s.board = n.board
             /\ s.calib.handle /\ s.calib.phase = "Settling"
             /\ s.calib.goal = "executing" /\ Watching(s)
<1> DEFINE a == NoCalib("executing")
           b == [a EXCEPT !.handle = TRUE]
           c == [b EXCEPT !.phase = "Settling"]
           g == [c EXCEPT !.settle = settle]
           s == [n EXCEPT !.calib = g]
<1>1. a \in Calib
  BY NoGoalTypes DEF GoalStates, Live
<1>2. a.goal = "executing" /\ a.stillAge = None /\ a.lastAngle = None
  BY DEF NoCalib
<1> HIDE DEF a
<1>3. b \in Calib
  BY <1>1, CalibUpdates
<1>4. c \in Calib
  BY <1>3, CalibUpdates
<1>5. g \in Calib
  BY <1>4, CalibUpdates
<1>6. /\ g.handle = TRUE /\ g.phase = "Settling" /\ g.goal = "executing"
      /\ g.stillAge = None /\ g.lastAngle = None
  BY <1>1, <1>2 DEF Calib
<1>7. [a EXCEPT !.handle = TRUE, !.phase = "Settling", !.settle = settle] = g
  OBVIOUS
<1> HIDE DEF b, c, g
<1>8. n \in Node /\ ~n.traj.handle
  BY DEF Held, TrajHeld
<1>9. s \in Node
  BY <1>5, <1>8, NodeUpdates
<1>10. /\ Rest(s) = Rest(n) /\ Port(s) = Port(n) /\ s.calib = g
       /\ s.core = n.core /\ s.traj = n.traj /\ s.board = n.board
  BY <1>8 DEF Node, Rest, Port
<1> HIDE DEF s
<1>11. Held(s)
  BY <1>6, <1>8, <1>9, <1>10
     DEF Held, GatesAgree, CalibTracked, CalibHeld, TrajHeld, Rest, Port, Live
<1>12. Life(s)
  BY <1>10 DEF Life, Rest, Port
<1>13. Watching(s)
  BY <1>6, <1>10 DEF Watching
<1> QED
  BY <1>6, <1>7, <1>10, <1>11, <1>12, <1>13 DEF s, a

(* Accepted, and calibrating at once if the check is to be skipped.        *)
LEMMA CalibAcceptedLawful ==
  ASSUME NEW n, Held(n), Life(n), n.life = "active", n.calib.phase = "Idle",
         ~n.traj.active, NEW settle \in 1 .. MaxSettle,
         NEW hold \in BOOLEAN, NEW menu \in BOOLEAN, NEW skip
  PROVE  LET g == [NoCalib("executing") EXCEPT
                     !.handle = TRUE, !.phase = "Settling", !.settle = settle]
             s == [n EXCEPT !.calib = g]
             r == IF skip THEN BeginCalibrating(s, hold, menu) ELSE s
         IN  Lawful(n, r) /\ Quiet(n, r)
<1> DEFINE g == [NoCalib("executing") EXCEPT
                   !.handle = TRUE, !.phase = "Settling", !.settle = settle]
           s == [n EXCEPT !.calib = g]
           b == BeginCalibrating(s, hold, menu)
<1>1. /\ Held(s) /\ Life(s) /\ Rest(s) = Rest(n) /\ Port(s) = Port(n)
      /\ s.core = n.core /\ s.traj = n.traj /\ s.board = n.board
      /\ s.calib.handle /\ s.calib.phase = "Settling"
      /\ s.calib.goal = "executing" /\ Watching(s)
  BY AcceptedHeld
<1>2. n.calib.goal \notin Live
  BY DEF Held, CalibHeld, CalibTracked
<1> HIDE DEF s, g
<1>3. Lawful(n, s)
  BY <1>1, <1>2 DEF Lawful, MayMove, MayEnd, Watches
<1>4. Quiet(n, s)
  BY <1>1 DEF Quiet
<1>5. /\ CalibStep(s, b) /\ b.calib.phase # "Settling"
      /\ b.calib.goal \in {s.calib.goal, Terminated(s.calib.goal, FALSE)}
  BY <1>1, BeginSteps
<1> HIDE DEF b
<1>6. b.calib.goal \in {"executing", "aborted"}
  BY <1>1, <1>5 DEF Terminated
<1>7. Life(b)
  BY <1>1, <1>5 DEF Life, CalibStep, Rest, Port, Gates
<1>8. Watching(b)
  BY <1>5 DEF Watching
<1>9. Lawful(n, b)
  BY <1>1, <1>2, <1>5, <1>6, <1>7, <1>8
     DEF Lawful, MayMove, MayEnd, Watches, CalibStep
<1>10. Quiet(n, b)
  BY <1>1, <1>5 DEF Quiet, CalibStep
<1> QED
  BY <1>3, <1>4, <1>9, <1>10 DEF b, s, g

(* A cancellation of the calibration is noted and waits for calibTick.     *)
LEMMA CalibCancelLawful ==
  ASSUME NEW n, Held(n), Life(n), n.calib.goal = "executing"
  PROVE  LET r == [n EXCEPT !.calib.goal = "canceling", !.calib.cancelRequested = TRUE]
         IN  Lawful(n, r) /\ Quiet(n, r)
<1> DEFINE b == [n.calib EXCEPT !.goal = "canceling"]
           g == [b EXCEPT !.cancelRequested = TRUE]
           r == [n EXCEPT !.calib = g]
<1>1. n \in Node /\ n.calib \in Calib
  BY DEF Held, Node
<1>2. [n EXCEPT !.calib.goal = "canceling", !.calib.cancelRequested = TRUE] = r
  BY <1>1 DEF Node
<1>3. b \in Calib
  BY <1>1, CalibUpdates DEF GoalStates, Live
<1>4. g \in Calib
  BY <1>3, CalibUpdates
<1>5. /\ g.goal = "canceling" /\ g.phase = n.calib.phase /\ g.handle = n.calib.handle
      /\ g.lastAngle = n.calib.lastAngle /\ g.stillAge = n.calib.stillAge
      /\ g.evidence = n.calib.evidence
  BY <1>1 DEF Calib
<1> HIDE DEF b, g
<1>6. r \in Node
  BY <1>1, <1>4, NodeUpdates
<1>7. /\ Rest(r) = Rest(n) /\ Port(r) = Port(n) /\ r.calib = g
      /\ r.core = n.core /\ r.traj = n.traj /\ r.board = n.board
  BY <1>1 DEF Node, Rest, Port
<1> HIDE DEF r
<1>8. Held(r)
  BY <1>5, <1>6, <1>7
     DEF Held, GatesAgree, CalibTracked, CalibHeld, TrajHeld, Rest, Port, Live
<1>9. Life(r)
  BY <1>5, <1>7 DEF Life, Rest, Port
<1>10. Watches(n, r)
  BY <1>5, <1>7 DEF Watches, Watching
<1>11. Lawful(n, r)
  BY <1>5, <1>7, <1>8, <1>9, <1>10 DEF Lawful, MayMove, MayEnd
<1>12. Quiet(n, r)
  BY <1>7 DEF Quiet
<1> QED
  BY <1>2, <1>11, <1>12

(* A trajectory is accepted: its target goes to the core at once.          *)
LEMMA TrajAcceptedLawful ==
  ASSUME NEW n, Held(n), Life(n), n.life = "active", ~n.traj.active,
         n.calib.phase = "Idle", MotionPermitted(n.core),
         NEW target \in [Axes -> Num], NEW tolerance \in Nat,
         NEW left \in 1 .. MaxTravel
  PROVE  LET g == [handle |-> TRUE, active |-> TRUE, goal |-> "executing",
                   target |-> target, tolerance |-> tolerance, left |-> left]
             r == [n EXCEPT !.traj = g, !.core = SubmitAngle(@, target, n.relative)]
         IN  Lawful(n, r) /\ Loud(n, r)
<1> DEFINE g == [handle |-> TRUE, active |-> TRUE, goal |-> "executing",
                 target |-> target, tolerance |-> tolerance, left |-> left]
           c == SubmitAngle(n.core, target, n.relative)
           d == [n EXCEPT !.core = c]
           r == [d EXCEPT !.traj = g]
<1>1. n \in Node /\ n.core \in Core /\ n.relative \in BOOLEAN
  BY DEF Held, Node
<1>2. /\ c \in Core /\ Gates(c) = Gates(n.core)
      /\ Track(c) = Track(n.core) /\ c.cfg = n.core.cfg
      /\ c.mode # "Idle" => MotionPermitted(n.core)
  BY <1>1, SubmitAngleType, AngleEffect
<1>3. [n EXCEPT !.traj = g, !.core = SubmitAngle(@, target, n.relative)] = r
  BY <1>1 DEF Node
<1> HIDE DEF c
<1>4. /\ Held(d) /\ Rest(d) = Rest(n) /\ Port(d) = Port(n) /\ d.core = c
      /\ d.calib = n.calib /\ d.traj = n.traj /\ d.board = n.board
  BY <1>2, CoreHeld
<1>5. Life(d)
  BY <1>2, <1>4 DEF Life, Rest, Port, Gates
<1> HIDE DEF d
<1>6. g \in Traj
  <2>1. left \in -1 .. MaxTravel + JumpMax
    BY CoreAssumption, DriverAssumption
  <2>2. "executing" \in GoalStates
    BY DEF GoalStates, Live
  <2> QED
    BY <2>1, <2>2 DEF Traj
<1>7. g.handle = TRUE /\ g.active = TRUE /\ g.goal = "executing"
  OBVIOUS
<1> HIDE DEF g
<1>8. r \in Node
  BY <1>4, <1>6, NodeUpdates DEF Held
<1>9. /\ Rest(r) = Rest(d) /\ Port(r) = Port(d) /\ r.traj = g
      /\ r.core = d.core /\ r.calib = d.calib /\ r.board = d.board
  BY <1>4 DEF Held, Node, Rest, Port
<1> HIDE DEF r
<1>10. ~n.calib.handle /\ n.traj.goal \notin Live
  BY DEF Held, CalibHeld, CalibTracked, TrajHeld
<1>11. Held(r)
  BY <1>4, <1>7, <1>8, <1>9, <1>10
     DEF Held, GatesAgree, CalibTracked, CalibHeld, TrajHeld, Rest, Port, Live
<1>12. Life(r)
  BY <1>4, <1>5, <1>9 DEF Life, Rest, Port
<1>13. Watches(n, r)
  BY <1>2, <1>4, <1>9 DEF Watches, Watching
<1>14. Lawful(n, r)
  BY <1>4, <1>7, <1>9, <1>10, <1>11, <1>12, <1>13 DEF Lawful, MayMove, MayEnd
<1>15. Loud(n, r)
  BY <1>2, <1>4, <1>9 DEF Loud, Port
<1> QED
  BY <1>3, <1>14, <1>15 DEF g

(* A cancellation of it is noted and waits for trajTick.                   *)
LEMMA TrajCancelLawful ==
  ASSUME NEW n, Held(n), Life(n), n.traj.goal = "executing"
  PROVE  LET r == [n EXCEPT !.traj.goal = "canceling"]
         IN  Lawful(n, r) /\ Quiet(n, r)
<1> DEFINE g == [n.traj EXCEPT !.goal = "canceling"]
           r == [n EXCEPT !.traj = g]
<1>1. n \in Node /\ n.traj \in Traj
  BY DEF Held, Node
<1>2. [n EXCEPT !.traj.goal = "canceling"] = r
  BY <1>1 DEF Node
<1>3. /\ g \in Traj /\ g.goal = "canceling"
      /\ g.handle = n.traj.handle /\ g.active = n.traj.active
  BY <1>1 DEF Traj, GoalStates, Live
<1> HIDE DEF g
<1>4. r \in Node
  BY <1>1, <1>3, NodeUpdates
<1>5. /\ Rest(r) = Rest(n) /\ Port(r) = Port(n) /\ r.traj = g
      /\ r.core = n.core /\ r.calib = n.calib /\ r.board = n.board
  BY <1>1 DEF Node, Rest, Port
<1> HIDE DEF r
<1>6. Held(r)
  BY <1>3, <1>4, <1>5
     DEF Held, GatesAgree, CalibTracked, CalibHeld, TrajHeld, Rest, Port, Live
<1>7. Life(r)
  BY <1>3, <1>5 DEF Life, Rest, Port
<1>8. Watches(n, r)
  BY <1>5 DEF Watches, Watching
<1>9. Lawful(n, r)
  BY <1>3, <1>5, <1>6, <1>7, <1>8 DEF Lawful, MayMove, MayEnd
<1>10. Quiet(n, r)
  BY <1>3, <1>5 DEF Quiet
<1> QED
  BY <1>2, <1>9, <1>10

-----------------------------------------------------------------------------
(* The passing of time. *)

(* A stamp grows older up to its bound.                                    *)
LEMMA CappedType ==
  ASSUME NEW bound \in Nat, NEW age \in 0 .. bound
  PROVE  Capped(age, bound) \in 0 .. bound /\ Capped(age, bound) <= age + 1
  BY DEF Capped

(* The stamps of a calibration do, and nothing else of it changes.         *)
LEMMA LaterCalibType ==
  ASSUME NEW g \in Calib
  PROVE  LET h == LaterCalib(g)
         IN  /\ h \in Calib /\ h.phase = g.phase /\ h.handle = g.handle
             /\ h.goal = g.goal /\ h.lastAngle = g.lastAngle
             /\ h.evidence = g.evidence
             /\ h.stillAge = IF g.stillAge = None THEN None
                             ELSE Capped(g.stillAge, StillTime)
<1> DEFINE started == IF g.handle THEN Capped(g.startedAge, MaxSettle) ELSE g.startedAge
           phased == IF g.handle THEN Capped(g.phaseAge, CalibTime) ELSE g.phaseAge
           still == IF g.stillAge = None THEN None ELSE Capped(g.stillAge, StillTime)
           a == [g EXCEPT !.startedAge = started]
           b == [a EXCEPT !.phaseAge = phased]
           h == [b EXCEPT !.stillAge = still]
<1>1. MaxSettle \in Nat /\ CalibTime \in Nat /\ StillTime \in Nat
  BY DriverAssumption
<1>2. /\ g.startedAge \in 0 .. MaxSettle /\ g.phaseAge \in 0 .. CalibTime
      /\ g.stillAge # None => g.stillAge \in 0 .. StillTime
  BY DEF Calib
<1>3. started \in 0 .. MaxSettle
  BY <1>1, <1>2, CappedType
<1>4. phased \in 0 .. CalibTime
  BY <1>1, <1>2, CappedType
<1>5. still \in (0 .. StillTime) \cup {None}
  BY <1>1, <1>2, CappedType
<1>6. LaterCalib(g) = h
  BY DEF LaterCalib, Calib
<1> HIDE DEF started, phased, still
<1>7. a \in Calib
  BY <1>3, CalibUpdates
<1>8. b \in Calib
  BY <1>4, <1>7, CalibUpdates
<1>9. h \in Calib
  BY <1>5, <1>8, CalibUpdates
<1>10. /\ h.phase = g.phase /\ h.handle = g.handle
       /\ h.goal = g.goal /\ h.lastAngle = g.lastAngle
       /\ h.evidence = g.evidence /\ h.stillAge = still
  BY DEF Calib
<1> HIDE DEF h
<1> QED
  BY <1>6, <1>9, <1>10 DEF still

(* A sample grows older at least as fast as the stillness it shows.        *)
LEMMA LaterSees ==
  ASSUME NEW still \in 0 .. StillTime, NEW age \in Ages,
         age >= still \/ age = MaxAge
  PROVE  Older(age) >= Capped(still, StillTime) \/ Older(age) = MaxAge
  BY CoreAssumption, DriverAssumption DEF Older, Capped, Ages

(* Time passes for the node.                                               *)
LEMMA LaterLawful ==
  ASSUME NEW n, Held(n), Life(n)
  PROVE  Lawful(n, Later(n)) /\ Quiet(n, Later(n))
<1> DEFINE c == Aged(n.core)
           w == IF n.retryIn > 0 THEN n.retryIn - 1 ELSE 0
           g == LaterCalib(n.calib)
           h == LaterTraj(n.traj)
           a == [n EXCEPT !.core = c]
           b == [a EXCEPT !.retryIn = w]
           d == [b EXCEPT !.calib = g]
           r == [d EXCEPT !.traj = h]
<1>1. /\ n \in Node /\ n.core \in Core /\ n.calib \in Calib /\ n.traj \in Traj
      /\ n.retryIn \in 0 .. ReconnectDelay + JumpMax
  BY DEF Held, Node
<1>2. /\ c \in Core /\ c.mode = n.core.mode /\ Gates(c) = Gates(n.core)
      /\ c.cfg = n.core.cfg /\ c.telemetryAge = Older(n.core.telemetryAge)
  BY <1>1, AgedType, AgedEffect
<1>3. w \in 0 .. ReconnectDelay + JumpMax
  BY <1>1, CoreAssumption, DriverAssumption
<1>4. /\ g \in Calib /\ g.phase = n.calib.phase /\ g.handle = n.calib.handle
      /\ g.goal = n.calib.goal /\ g.lastAngle = n.calib.lastAngle
      /\ g.evidence = n.calib.evidence
      /\ g.stillAge = IF n.calib.stillAge = None THEN None
                      ELSE Capped(n.calib.stillAge, StillTime)
  BY <1>1, LaterCalibType
<1>5. /\ h \in Traj /\ h.handle = n.traj.handle /\ h.active = n.traj.active
      /\ h.goal = n.traj.goal
  BY <1>1, CoreAssumption, DriverAssumption DEF LaterTraj, Traj
<1>6. Later(n) = r
  BY <1>1 DEF Later, Node
<1> HIDE DEF c, w, g, h
<1>7. a \in Node
  BY <1>1, <1>2, NodeUpdates
<1>8. b \in Node
  BY <1>3, <1>7, NodeUpdates
<1>9. d \in Node
  BY <1>4, <1>8, NodeUpdates
<1>10. r \in Node
  BY <1>5, <1>9, NodeUpdates
<1>11. /\ Rest(r) = Rest(n) /\ r.open = n.open /\ r.core = c /\ r.calib = g
       /\ r.traj = h /\ r.board = n.board
  BY <1>1 DEF Node, Rest
<1> HIDE DEF a, b, d, r
<1>12. GatesAgree(r)
  BY <1>2, <1>11 DEF Held, GatesAgree, MotionPermitted, Rest, Gates
<1>13. Held(r)
  BY <1>4, <1>5, <1>10, <1>11, <1>12 DEF Held, CalibTracked, CalibHeld, TrajHeld
<1>14. Life(r)
  BY <1>2, <1>4, <1>5, <1>11 DEF Life, Rest, Gates
<1>15. Watching(n) => Watching(r)
  <2> SUFFICES ASSUME Watching(n), n.calib.phase = "Settling"
               PROVE  Watching(r)
    BY <1>4, <1>11 DEF Watching
  <2>1. g.lastAngle = None => g.stillAge = None
    BY <1>4 DEF Watching
  <2>2. g.lastAngle # None => g.evidence >= 1
    BY <1>4 DEF Watching
  <2>3. ASSUME g.stillAge # None, JumpMax = 0
        PROVE  g.evidence >= 2 \/ c.telemetryAge >= g.stillAge \/ c.telemetryAge = MaxAge
    <3>1. /\ n.calib.stillAge # None /\ n.calib.stillAge \in 0 .. StillTime
          /\ n.core.telemetryAge \in Ages
          /\ g.stillAge = Capped(n.calib.stillAge, StillTime)
      BY <1>1, <1>4, <2>3 DEF Calib, Core
    <3>2. CASE n.calib.evidence >= 2
      BY <1>4, <3>2
    <3>3. CASE n.core.telemetryAge >= n.calib.stillAge \/ n.core.telemetryAge = MaxAge
      BY <1>2, <3>1, <3>3, LaterSees
    <3> QED
      BY <2>3, <3>1, <3>2, <3>3 DEF Watching
  <2> QED
    BY <1>11, <2>1, <2>2, <2>3 DEF Watching
<1>16. Lawful(n, r)
  BY <1>2, <1>4, <1>5, <1>11, <1>13, <1>14, <1>15
     DEF Lawful, MayMove, MayEnd, Watches
<1>17. Quiet(n, r)
  BY <1>2, <1>5, <1>11 DEF Quiet
<1> QED
  BY <1>6, <1>16, <1>17

-----------------------------------------------------------------------------
(* Every step. *)

(* The node becomes s in one of the three ways, and lawfully.              *)
Taken(s) ==
  /\ Lawful(node, s)
  /\ \/ Keeps(s) /\ Quiet(node, s)
     \/ Speaks(s) /\ Loud(node, s)
     \/ Silences(s) /\ Mute(node, s)

(* A transition of the lifecycle does.                                     *)
LEMMA LifecycleTaken ==
  ASSUME Held(node), Life(node), Lifecycle PROVE \E s : Taken(s)
<1>1. ASSUME NEW cfg \in Configs, NEW ok \in BOOLEAN, OnConfigure(cfg, ok)
      PROVE  \E s : Taken(s)
  <2> DEFINE built == SetArmed(SetControlAllowed(NewCore(cfg), node.allowControl), FALSE)
             s == TryConnect([node EXCEPT !.core = built], ok)
             r == [s EXCEPT !.life = IF ok THEN "inactive" ELSE "unconfigured"]
  <2>1. node.life = "unconfigured" /\ Keeps(r)
    BY <1>1 DEF OnConfigure
  <2>2. Lawful(node, r) /\ Quiet(node, r)
    BY <2>1, ConfigureLawful
  <2> HIDE DEF r
  <2> QED
    BY <2>1, <2>2 DEF Taken
<1>2. ASSUME NEW arm \in StartArmed, NEW motors \in AutoMotorsOn, NEW ok \in BOOLEAN,
             OnActivate(arm, motors, ok)
      PROVE  \E s : Taken(s)
  <2> DEFINE s == [node EXCEPT !.life = "active", !.core = SetArmed(@, arm), !.armed = arm]
             r == IF motors THEN SendMotors(s, TRUE, ok) ELSE s
  <2>1. node.life = "inactive" /\ Keeps(r)
    BY <1>2 DEF OnActivate
  <2>2. arm \in BOOLEAN
    BY NodeInputs
  <2>3. Lawful(node, r) /\ Quiet(node, r)
    BY <2>1, <2>2, ActivateLawful
  <2> HIDE DEF r
  <2> QED
    BY <2>1, <2>3 DEF Taken
<1>3. ASSUME NEW ok \in BOOLEAN, OnDeactivate(ok) PROVE \E s : Taken(s)
  <2> DEFINE d == [node EXCEPT !.core = SetArmed(@, FALSE), !.armed = FALSE]
             s == AbortActiveGoals(SendControl(d, HoldFrame, ok))
             r == [s EXCEPT !.life = "inactive"]
  <2>1. node.life = "active" /\ Silences(r)
    BY <1>3 DEF OnDeactivate
  <2>2. Lawful(node, r) /\ Mute(node, r)
    BY <2>1, DeactivateLawful
  <2> HIDE DEF r
  <2> QED
    BY <2>1, <2>2 DEF Taken
<1>4. ASSUME NEW ok \in BOOLEAN, OnShutdown(ok) PROVE \E s : Taken(s)
  <2> DEFINE h == SendControl([node EXCEPT !.core = SetArmed(@, FALSE)], HoldFrame, ok)
             r == [CleanedUp(IF node.open THEN h ELSE node) EXCEPT !.life = "finalized"]
  <2>1. Silences(r)
    BY <1>4 DEF OnShutdown
  <2>2. Lawful(node, r) /\ Mute(node, r)
    BY ShutdownLawful
  <2> HIDE DEF r
  <2> QED
    BY <2>1, <2>2 DEF Taken
<1>5. CASE OnCleanup
  <2> DEFINE r == [CleanedUp(node) EXCEPT !.life = "unconfigured"]
  <2>1. node.life = "inactive" /\ Silences(r)
    BY <1>5 DEF OnCleanup
  <2>2. Lawful(node, r) /\ Mute(node, r)
    BY <2>1, CleanupLawful
  <2> HIDE DEF r
  <2> QED
    BY <2>1, <2>2 DEF Taken
<1> QED
  BY <1>1, <1>2, <1>3, <1>4, <1>5 DEF Lifecycle

(* So does a timer.                                                        *)
LEMMA TimersTaken ==
  ASSUME Held(node), Life(node), Timers PROVE \E s : Taken(s)
<1>1. ASSUME NEW ok \in BOOLEAN, NEW poll \in Polls, ControlTick(ok, poll)
      PROVE  \E s : Taken(s)
  <2>1. PICK hold \in BOOLEAN, menu \in BOOLEAN,
             s \in {node} \cup {Reconfigured(node, cfg) : cfg \in Configs} :
               ControlTickOf(s, ok, poll, hold, menu)
    BY <1>1 DEF ControlTick
  <2> DEFINE r == IF node.open THEN TickWhileOpen(s, ok, poll, hold, menu)
                               ELSE TickWhileClosed(s, ok, hold, menu)
  <2>2. node.life = "active" /\ Keeps(r)
    BY <2>1 DEF ControlTickOf, Active
  <2>3. Held(s)
    BY ReconfiguredHeld
  <2>4. poll.kind = "reply" => poll.angle \in [Axes -> Int]
    BY DriverAssumption DEF Polls, Replies
  <2>5. Ticked(s, r)
    BY <2>3, <2>4, OpenTicks, ClosedTicks
  <2> HIDE DEF r
  <2>6. Lawful(node, r) /\ Quiet(node, r)
    BY <2>2, <2>5, ControlTickLawful
  <2> QED
    BY <2>2, <2>6 DEF Taken
<1>2. ASSUME NEW ok \in BOOLEAN, TelemetryTick(ok) \/ BoardInfoTick(ok)
      PROVE  \E s : Taken(s)
  <2>1. node.life = "active" /\ (Keeps(node) \/ Keeps(NoteLinkLost(node)))
    BY <1>2 DEF TelemetryTick, BoardInfoTick, Active
  <2> QED
    BY <2>1, RequestLawful DEF Taken
<1> QED
  BY <1>1, <1>2 DEF Timers

(* So does a message or a service call.                                    *)
LEMMA CommandsTaken ==
  ASSUME Held(node), Life(node),
         \/ OnJointJogHold
         \/ \E v \in JogRates : OnJointJogRate(v)
         \/ \E v \in JogAngles : OnJointJogAngle(v)
         \/ \E on \in MotorRequests, ok \in BOOLEAN : SrvSetMotors(on, ok)
         \/ SrvArm
         \/ \E ok \in BOOLEAN : SrvDisarm(ok) \/ SrvStop(ok) \/ SrvHome(ok) \/ SrvLevel(ok)
         \/ \E rel \in FrameChoices : SrvSetLockMode(~rel)
         \/ \E idle \in BOOLEAN, rel \in FrameChoices : SrvSetControlMode(idle, rel)
  PROVE  \E s : Taken(s)
<1>1. CASE OnJointJogHold
  BY <1>1, HoldLawful DEF OnJointJogHold, Taken
<1>2. ASSUME NEW v \in JogRates, OnJointJogRate(v) PROVE \E s : Taken(s)
  <2> DEFINE r == [node EXCEPT !.core = SubmitRate(@, Filled(v))]
  <2>1. Speaks(r)
    BY <1>2 DEF OnJointJogRate
  <2>2. Lawful(node, r) /\ Loud(node, r)
    BY FilledType, JogLawful
  <2> HIDE DEF r
  <2> QED
    BY <2>1, <2>2 DEF Taken
<1>3. ASSUME NEW v \in JogAngles, OnJointJogAngle(v) PROVE \E s : Taken(s)
  <2> DEFINE r == [node EXCEPT !.core = SubmitAngle(@, Filled(v), node.relative)]
  <2>1. Speaks(r)
    BY <1>3 DEF OnJointJogAngle
  <2>2. Lawful(node, r) /\ Loud(node, r)
    BY FilledType, JogLawful
  <2> HIDE DEF r
  <2> QED
    BY <2>1, <2>2 DEF Taken
<1>4. ASSUME NEW on \in MotorRequests, NEW ok \in BOOLEAN, SrvSetMotors(on, ok)
      PROVE  \E s : Taken(s)
  <2>1. on \in BOOLEAN
    BY NodeInputs
  <2> QED
    BY <1>4, <2>1, MotorsLawful DEF SrvSetMotors, Taken
<1>5. CASE SrvArm
  <2> DEFINE r == [node EXCEPT !.core = SetArmed(@, TRUE), !.armed = TRUE]
  <2>1. node.life = "active" /\ Keeps(r)
    BY <1>5 DEF SrvArm, Active
  <2>2. Lawful(node, r) /\ Quiet(node, r)
    BY <2>1, ArmLawful
  <2> HIDE DEF r
  <2> QED
    BY <2>1, <2>2 DEF Taken
<1>6. ASSUME NEW ok \in BOOLEAN, SrvDisarm(ok) PROVE \E s : Taken(s)
  <2> DEFINE s == AbortActiveGoals(
                    SendControl([node EXCEPT !.core = SubmitHold(@)], HoldFrame, ok))
             r == [s EXCEPT !.core = SetArmed(@, FALSE), !.armed = FALSE]
  <2>1. Silences(r)
    BY <1>6 DEF SrvDisarm
  <2>2. Lawful(node, r) /\ Mute(node, r)
    BY DisarmLawful
  <2> HIDE DEF r
  <2> QED
    BY <2>1, <2>2 DEF Taken
<1>7. ASSUME NEW ok \in BOOLEAN, SrvStop(ok) PROVE \E s : Taken(s)
  <2> DEFINE r == AbortActiveGoals(
                    SendControl([node EXCEPT !.core = SubmitHold(@)], HoldFrame, ok))
  <2>1. Silences(r)
    BY <1>7 DEF SrvStop
  <2>2. Lawful(node, r) /\ Mute(node, r)
    BY StopLawful
  <2> HIDE DEF r
  <2> QED
    BY <2>1, <2>2 DEF Taken
<1>8. ASSUME NEW ok \in BOOLEAN, SrvHome(ok) \/ SrvLevel(ok) PROVE \E s : Taken(s)
  <2>1. /\ MotionPermitted(node.core) /\ node.calib.phase = "Idle"
        /\ Speaks(SendAutoTask(node, ok))
    BY <1>8 DEF SrvHome, SrvLevel
  <2> QED
    BY <2>1, HomeLawful DEF Taken
<1>9. ASSUME NEW rel \in FrameChoices, SrvSetLockMode(~rel) PROVE \E s : Taken(s)
  <2> DEFINE x == ~~rel
             r == [node EXCEPT !.relative = x]
  <2>1. Keeps(r) /\ x \in BOOLEAN
    BY <1>9 DEF SrvSetLockMode
  <2> HIDE DEF x
  <2>2. Lawful(node, r) /\ Quiet(node, r)
    BY <2>1, ModeLawful
  <2> QED
    BY <2>1, <2>2 DEF Taken
<1>10. ASSUME NEW idle \in BOOLEAN, NEW rel \in FrameChoices, SrvSetControlMode(idle, rel)
       PROVE  \E s : Taken(s)
  <2> DEFINE r == [node EXCEPT !.relative = rel,
                               !.core = IF idle THEN SubmitHold(@) ELSE @]
  <2>1. Keeps(r) /\ rel \in BOOLEAN
    BY <1>10, NodeInputs DEF SrvSetControlMode
  <2>2. Lawful(node, r) /\ Quiet(node, r)
    BY <2>1, ModeLawful
  <2> HIDE DEF r
  <2> QED
    BY <2>1, <2>2 DEF Taken
<1> QED
  BY <1>1, <1>2, <1>3, <1>4, <1>5, <1>6, <1>7, <1>8, <1>9, <1>10

(* So does a goal or its cancellation.                                     *)
LEMMA ActionsTaken ==
  ASSUME Held(node), Life(node),
         \/ \E g \in CalibGoals, hold, menu \in BOOLEAN : CalibAccepted(g, hold, menu)
         \/ CalibCancel
         \/ \E g \in TrajGoals : TrajAccepted(g)
         \/ TrajCancel
  PROVE  \E s : Taken(s)
<1>1. ASSUME NEW g \in CalibGoals, NEW hold \in BOOLEAN, NEW menu \in BOOLEAN,
             CalibAccepted(g, hold, menu)
      PROVE  \E s : Taken(s)
  <2> DEFINE settle == IF g.settle > 0 THEN g.settle ELSE DefaultSettle
             s == [node EXCEPT !.calib = [NoCalib("executing") EXCEPT
                     !.handle = TRUE, !.phase = "Settling", !.settle = settle]]
             r == IF g.skip THEN BeginCalibrating(s, hold, menu) ELSE s
  <2>1. /\ node.life = "active" /\ node.calib.phase = "Idle" /\ ~node.traj.active
        /\ Keeps(r)
    BY <1>1 DEF CalibAccepted, CalibGoal, Active
  <2>2. settle \in 1 .. MaxSettle
    BY NodeInputs, DriverAssumption
  <2> HIDE DEF settle
  <2>3. Lawful(node, r) /\ Quiet(node, r)
    BY <2>1, <2>2, CalibAcceptedLawful
  <2> HIDE DEF r
  <2> QED
    BY <2>1, <2>3 DEF Taken
<1>2. CASE CalibCancel
  <2> DEFINE r == [node EXCEPT !.calib.goal = "canceling", !.calib.cancelRequested = TRUE]
  <2>1. node.calib.goal = "executing" /\ Keeps(r)
    BY <1>2 DEF CalibCancel
  <2>2. Lawful(node, r) /\ Quiet(node, r)
    BY <2>1, CalibCancelLawful
  <2> HIDE DEF r
  <2> QED
    BY <2>1, <2>2 DEF Taken
<1>3. ASSUME NEW g \in TrajGoals, TrajAccepted(g) PROVE \E s : Taken(s)
  <2> DEFINE target == [a \in Axes |-> IF a \in DOMAIN g.positions THEN g.positions[a]
                                       ELSE node.core.continuous[a]]
             new == [handle |-> TRUE, active |-> TRUE, goal |-> "executing",
                     target |-> target, tolerance |-> g.tolerance, left |-> g.deadline]
             r == [node EXCEPT !.traj = new,
                               !.core = SubmitAngle(@, target, node.relative)]
  <2>1. /\ node.life = "active" /\ ~node.traj.active /\ node.calib.phase = "Idle"
        /\ MotionPermitted(node.core) /\ Speaks(r)
    BY <1>3 DEF TrajAccepted, TrajGoal, Active
  <2>2. target \in [Axes -> Num]
    <3>1. g.positions \in [DOMAIN g.positions -> Num]
      BY NodeInputs
    <3>2. node.core.continuous \in [Axes -> Int]
      BY DEF Held, Node, Core
    <3> QED
      BY <3>1, <3>2 DEF Num
  <2>3. g.tolerance \in Nat /\ g.deadline \in 1 .. MaxTravel
    BY NodeInputs
  <2> HIDE DEF target
  <2>4. Lawful(node, r) /\ Loud(node, r)
    BY <2>1, <2>2, <2>3, TrajAcceptedLawful
  <2> HIDE DEF r
  <2> QED
    BY <2>1, <2>4 DEF Taken
<1>4. CASE TrajCancel
  <2> DEFINE r == [node EXCEPT !.traj.goal = "canceling"]
  <2>1. node.traj.goal = "executing" /\ Keeps(r)
    BY <1>4 DEF TrajCancel
  <2>2. Lawful(node, r) /\ Quiet(node, r)
    BY <2>1, TrajCancelLawful
  <2> HIDE DEF r
  <2> QED
    BY <2>1, <2>2 DEF Taken
<1> QED
  BY <1>1, <1>2, <1>3, <1>4

(* So does every step.                                                     *)
LEMMA StepTaken ==
  ASSUME Held(node), Life(node), Next PROVE \E s : Taken(s)
<1>1. CASE Advance
  BY <1>1, LaterLawful DEF Advance, Taken
<1>2. CASE Clients
  BY <1>2, CommandsTaken, ActionsTaken DEF Clients
<1> QED
  BY <1>1, <1>2, LifecycleTaken, TimersTaken DEF Next

-----------------------------------------------------------------------------
(* The inductive invariant. *)

(* The node a process starts with.                                         *)
LEMMA InitIInv == Init => IInv
<1> SUFFICES ASSUME Init PROVE IInv
  OBVIOUS
<1> DEFINE c == NewCore(AnyConfig)
           g == NoCalib("none")
           h == NoTraj("none")
<1>1. AnyConfig \in Configs
  BY NodeInputs DEF AnyConfig
<1>2. c \in Core /\ c.mode = "Idle" /\ Gates(c) = <<FALSE, FALSE, FALSE>>
  BY <1>1, NewCoreEffect
<1>3. "none" \in GoalStates /\ "none" \notin Live
  BY DEF GoalStates, Live
<1>4. g \in Calib /\ h \in Traj
  BY <1>3, NoGoalTypes
<1>5. /\ g.phase = "Idle" /\ g.handle = FALSE /\ g.goal = "none"
      /\ h.handle = FALSE /\ h.active = FALSE /\ h.goal = "none"
  BY DEF NoCalib, NoTraj
<1>6. BoardAtRest \in Board /\ BoardAtRest.turning = FALSE
  BY DEF BoardAtRest, Board
<1> HIDE DEF c, g, h
<1>7. PICK allow \in AllowControl :
        node = [life |-> "unconfigured", core |-> c,
                allowControl |-> allow, armed |-> FALSE, motorsOn |-> FALSE,
                relative |-> FALSE, open |-> FALSE, haveRealtime |-> FALSE,
                retryIn |-> 0, calib |-> g, traj |-> h, board |-> BoardAtRest]
  BY DEF Init, c, g, h
<1>8. node \in Node
  <2>1. allow \in BOOLEAN /\ 0 \in 0 .. ReconnectDelay + JumpMax
    BY NodeInputs, CoreAssumption, DriverAssumption
  <2> QED
    BY <1>2, <1>4, <1>6, <1>7, <2>1 DEF Node, LifeStates
<1>9. Held(node)
  BY <1>2, <1>3, <1>5, <1>6, <1>7, <1>8
     DEF Held, GatesAgree, CalibTracked, CalibHeld, TrajHeld, Gates
<1>10. Life(node)
  BY <1>2, <1>5, <1>7 DEF Life, Gates
<1>11. voice = "silent" /\ severed = FALSE
  BY DEF Init
<1>12. Voiced
  BY <1>2, <1>5, <1>7, <1>11 DEF Voiced
<1> QED
  BY <1>9, <1>10, <1>11, <1>12 DEF IInv

(* A callback that gives no command keeps what the last word implies: a    *)
(* command that survives it is still given over an open link.              *)
LEMMA KeepsVoiced ==
  ASSUME IInv, NEW s, Lawful(node, s), Keeps(s), Quiet(node, s)
  PROVE  Voiced'
<1>1. /\ node' = s
      /\ voice' =
           IF voice \in {"spoken", "resumed"} /\ node.open /\ ~s.open THEN "dropped"
           ELSE IF voice = "dropped" /\ ~node.open /\ s.open /\ node.traj.handle
             THEN "resumed" ELSE voice
  BY DEF Keeps, Becomes
<1>2. voice \in {"spoken", "silent", "dropped", "resumed"}
  BY DEF IInv, Voiced
<1>3. s.core.mode # "Idle" => s.open
  BY DEF Lawful, Held, GatesAgree, MotionPermitted
<1>4. ASSUME s.core.mode # "Idle" PROVE voice' \in {"spoken", "resumed"}
  <2>1. CASE node.core.mode # "Idle"
    BY <1>1, <1>3, <1>4, <2>1 DEF IInv, Voiced
  <2>2. CASE node.traj.handle
    BY <1>1, <1>2, <1>3, <1>4, <2>2 DEF IInv, Voiced
  <2> QED
    BY <1>4, <2>1, <2>2 DEF Quiet
<1>5. ASSUME s.traj.handle PROVE voice' # "silent" /\ (voice' = "dropped" => ~s.open)
  <2>1. node.traj.handle
    BY <1>5 DEF Quiet
  <2> QED
    BY <1>1, <1>2, <2>1 DEF IInv, Voiced
<1> QED
  BY <1>1, <1>2, <1>4, <1>5 DEF Voiced

(* So does the client's own command, which a closed gate refuses.          *)
LEMMA SpeaksVoiced ==
  ASSUME IInv, NEW s, Lawful(node, s), Speaks(s), Loud(node, s)
  PROVE  Voiced'
<1>1. /\ node' = s
      /\ voice' = IF MotionPermitted(node.core) THEN "spoken" ELSE voice
  BY DEF Speaks, Becomes
<1>2. /\ voice \in {"spoken", "silent", "dropped", "resumed"}
      /\ node.traj.handle => voice # "silent"
      /\ voice = "dropped" /\ node.traj.handle => ~node.open
  BY DEF IInv, Voiced
<1> QED
  BY <1>1, <1>2 DEF Voiced, Loud

(* And after a stop nothing is left that could speak.                      *)
LEMMA SilencesVoiced ==
  ASSUME NEW s, Silences(s), Mute(node, s) PROVE Voiced'
  BY DEF Silences, Becomes, Mute, Voiced

(* Every callback keeps the invariant.                                     *)
LEMMA StepIInv == IInv /\ [Next]_vars => IInv'
<1> SUFFICES ASSUME IInv, [Next]_vars PROVE IInv'
  OBVIOUS
<1>1. CASE Next
  <2>1. PICK s : Taken(s)
    BY <1>1, StepTaken DEF IInv
  <2>2. node' = s /\ severed' \in BOOLEAN
    <3>1. Becomes(s)
      BY <2>1 DEF Taken, Keeps, Speaks, Silences
    <3>2. (s.calib.phase = "Calibrating" /\ (severed \/ ~s.open)) \in BOOLEAN
      OBVIOUS
    <3> QED
      BY <3>1, <3>2 DEF Becomes
  <2>3. Voiced'
    BY <2>1, KeepsVoiced, SpeaksVoiced, SilencesVoiced DEF Taken
  <2>4. Held(s) /\ Life(s)
    BY <2>1 DEF Taken, Lawful
  <2>5. Held(node)' /\ Life(node)'
    BY <2>2, <2>4 DEF Held, GatesAgree, CalibTracked, CalibHeld, TrajHeld, Life
  <2> QED
    BY <2>2, <2>3, <2>5 DEF IInv
<1>2. CASE UNCHANGED vars
  BY <1>2 DEF vars, IInv, Held, GatesAgree, CalibTracked, CalibHeld, TrajHeld, Life, Voiced
<1> QED
  BY <1>1, <1>2

(* The record, its two goals, the gates and the board agree after every    *)
(* callback, and nothing is pending that the clients' last word forbids.   *)
THEOREM Inductive == Spec => []IInv
  BY InitIInv, StepIInv, PTL DEF Spec

-----------------------------------------------------------------------------
(* What holds of the node. *)

(* The node keeps its type whatever its parameters, messages, goals and    *)
(* replies carry, and whichever calls fail.                                *)
THEOREM NodeTypeCorrect == Spec => []TypeOK
<1>1. IInv => TypeOK
  BY DEF IInv, Held, Voiced, TypeOK
<1> QED
  BY <1>1, Inductive, PTL

(* The flags, phases and handles of a goal agree with the goal's state,    *)
(* and no goal is live without the timers that resolve it.                 *)
THEOREM GoalsAlwaysTracked == Spec => []GoalsTracked
<1>1. IInv => GoalsTracked
  BY DEF IInv, Held, CalibHeld, CalibTracked, TrajHeld, Life, GoalsTracked, Active
<1> QED
  BY <1>1, Inductive, PTL

(* A calibration and a trajectory never hold the board together.           *)
THEOREM BoardHasOneClaimant == Spec => []OneClaimant
<1>1. IInv => OneClaimant
  BY DEF IInv, Held, OneClaimant
<1> QED
  BY <1>1, Inductive, PTL

(* No frame and no auto-task reaches a board that calibrates, and what it  *)
(* obeys keeps it still.                                                   *)
THEOREM CalibrationLeftAlone == Spec => []CalibrationUndisturbed
<1>1. IInv => CalibrationUndisturbed
  BY DEF IInv, Held, CalibHeld, CalibrationUndisturbed
<1> QED
  BY <1>1, Inductive, PTL

(* The arm bit that is reported is the one that gates motion.              *)
THEOREM ArmBitsAgree == Spec => []ArmedAgrees
<1>1. IInv => ArmedAgrees
  BY DEF IInv, Life, ArmedAgrees
<1> QED
  BY <1>1, Inductive, PTL

(* The core holds a motion command only in an active node with every gate  *)
(* open.                                                                   *)
THEOREM NothingPendingInactive == Spec => []NodeNeverQueuesMotion
<1>1. IInv => NodeNeverQueuesMotion
  BY DEF IInv, Held, GatesAgree, MotionPermitted, Life, NodeNeverQueuesMotion, Active
<1> QED
  BY <1>1, Inductive, PTL

(* Nothing a node without allow_control sends ever sets the board turning. *)
THEOREM MonitorOnlyWatches == Spec => []MonitorNeverMoves
<1>1. IInv => MonitorNeverMoves
  BY DEF IInv, Held, GatesAgree, MonitorNeverMoves
<1> QED
  BY <1>1, Inductive, PTL

-----------------------------------------------------------------------------
(* What a step may not do. *)

(* What sets the board turning was commanded, and by whom: by a pending    *)
(* command, whose word was spoken, or by this very callback.               *)
LEMMA TurningSpoken ==
  ASSUME IInv, [Next]_vars, ~node.board.turning, node'.board.turning
  PROVE  voice' # "silent" /\ (voice \in {"spoken", "resumed"} \/ voice' = "spoken")
<1>1. Next
  BY DEF vars
<1>2. PICK s : Taken(s)
  BY <1>1, StepTaken DEF IInv
<1>3. CASE Keeps(s) /\ Quiet(node, s)
  <2>1. node.core.mode # "Idle"
    BY <1>3 DEF Keeps, Becomes, Quiet
  <2>2. voice \in {"spoken", "resumed"}
    BY <2>1 DEF IInv, Voiced
  <2> QED
    BY <1>3, <2>2 DEF Keeps
<1>4. CASE Speaks(s) /\ Loud(node, s)
  BY <1>4 DEF Speaks, Becomes, Loud
<1>5. CASE Silences(s) /\ Mute(node, s)
  BY <1>5 DEF Silences, Becomes, Mute
<1> QED
  BY <1>2, <1>3, <1>4, <1>5 DEF Taken

(* After a stop, a disarm or a deactivation only a new command that the    *)
(* gates let through can set the board turning.                            *)
THEOREM StopIsFinal == Spec => NoMotionAfterStop
<1>1. IInv /\ [Next]_vars
        => [~node.board.turning /\ node'.board.turning => voice' # "silent"]_vars
  BY TurningSpoken
<1> QED
  BY <1>1, Inductive, PTL DEF Spec, NoMotionAfterStop

(* What was commanded before the link was lost is not resumed after it.    *)
THEOREM DropIsFinal == Spec => NoMotionAfterDrop
<1>1. IInv /\ [Next]_vars
        => [~node.board.turning /\ node'.board.turning
              => voice \in {"spoken", "resumed"} \/ voice' = "spoken"]_vars
  BY TurningSpoken
<1> QED
  BY <1>1, Inductive, PTL DEF Spec, NoMotionAfterDrop

-----------------------------------------------------------------------------
(* Both action servers implement ActionGoal. *)

(* The moves a callback makes with a goal are steps of the protocol.       *)
LEMMA GoalsMove ==
  ASSUME IInv, [Next]_vars
  PROVE  /\ node.calib.goal \in GoalStates /\ node.traj.goal \in GoalStates
         /\ node'.calib.goal = node.calib.goal \/ MayMove(node.calib.goal, node'.calib.goal)
         /\ node'.traj.goal = node.traj.goal \/ MayMove(node.traj.goal, node'.traj.goal)
<1>1. node.calib.goal \in GoalStates /\ node.traj.goal \in GoalStates
  BY DEF IInv, Held, Node, Calib, Traj
<1>2. CASE Next
  <2>1. PICK s : Taken(s)
    BY <1>2, StepTaken DEF IInv
  <2>2. node' = s
    BY <2>1 DEF Taken, Keeps, Speaks, Silences, Becomes
  <2> QED
    BY <1>1, <2>1, <2>2 DEF Taken, Lawful
<1>3. CASE UNCHANGED vars
  BY <1>1, <1>3 DEF vars
<1> QED
  BY <1>2, <1>3

(* calibrate_gyro takes its goals only through transitions rclcpp_action   *)
(* permits, in whichever order cancellations, faults and timers arrive.    *)
THEOREM CalibImplementsGoal == Spec => CalibGoalProtocol
<1>1. Init => CalibClient!Init
  BY DEF Init, CalibClient!Init, NoCalib
<1>2. IInv /\ [Next]_vars => [CalibClient!Next]_(node.calib.goal)
  BY GoalsMove
     DEF MayMove, MayEnd, GoalStates, Live, Terminal, CalibClient!Next,
         CalibClient!Accept, CalibClient!Cancel, CalibClient!Succeed,
         CalibClient!Abort, CalibClient!CancelDone, CalibClient!AcceptAndAbort,
         CalibClient!Ended
<1> QED
  BY <1>1, <1>2, Inductive, PTL DEF Spec, CalibGoalProtocol, CalibClient!Spec

(* So does follow_joint_trajectory.                                        *)
THEOREM TrajImplementsGoal == Spec => TrajGoalProtocol
<1>1. Init => TrajClient!Init
  BY DEF Init, TrajClient!Init, NoTraj
<1>2. IInv /\ [Next]_vars => [TrajClient!Next]_(node.traj.goal)
  BY GoalsMove
     DEF MayMove, MayEnd, GoalStates, Live, Terminal, TrajClient!Next,
         TrajClient!Accept, TrajClient!Cancel, TrajClient!Succeed,
         TrajClient!Abort, TrajClient!CancelDone, TrajClient!AcceptAndAbort,
         TrajClient!Ended
<1> QED
  BY <1>1, <1>2, Inductive, PTL DEF Spec, TrajGoalProtocol, TrajClient!Spec

-----------------------------------------------------------------------------
(* The evidence of the settle check. *)

(* What the check knows, and that the core's configuration is one the node *)
(* was given.                                                              *)
Seen == node.core.cfg \in Loaded /\ Watching(node)

(* angle_fresh_timeout is shorter than the time to be still: the schema of *)
(* the parameter does not demand it, so it is a hypothesis.  That JumpMax  *)
(* is 0 in it keeps an age of DriverNode, where nothing sets the clock     *)
(* back, from being negative.                                              *)
FreshTimeoutsShort == \A cfg \in Loaded : FreshIsShort(cfg)

(* The check watches from the first callback on.                           *)
LEMMA InitSeen == Init => Seen
<1> SUFFICES ASSUME Init PROVE Seen
  OBVIOUS
<1>1. AnyConfig \in Configs
  BY NodeInputs DEF AnyConfig
<1>2. node.core = NewCore(AnyConfig) /\ node.calib = NoCalib("none")
  BY DEF Init
<1>3. NewCore(AnyConfig).cfg = AnyConfig
  BY <1>1, NewCoreEffect
<1>4. NoCalib("none").phase = "Idle"
  BY DEF NoCalib
<1> QED
  BY <1>1, <1>2, <1>3, <1>4 DEF Seen, Loaded, Watching

(* Every callback keeps the record of it.                                  *)
LEMMA StepSeen ==
  ASSUME FreshTimeoutsShort, IInv, Seen, [Next]_vars
  PROVE  /\ Seen'
         /\ node.calib.phase = "Settling" /\ node'.calib.phase = "Calibrating"
              => node'.calib.evidence >= 2
<1>1. CASE Next
  <2>1. PICK s : Taken(s)
    BY <1>1, StepTaken DEF IInv
  <2>2. node' = s
    BY <2>1 DEF Taken, Keeps, Speaks, Silences, Becomes
  <2>3. Watches(node, s)
    BY <2>1 DEF Taken, Lawful
  <2>4. {node.core.cfg} \cup Loaded = Loaded
    BY DEF Seen
  <2>5. /\ s.core.cfg \in Loaded /\ Watching(s)
        /\ node.calib.phase = "Settling" /\ s.calib.phase = "Calibrating"
             => s.calib.evidence >= 2
    BY <2>3, <2>4 DEF Watches, Seen, FreshTimeoutsShort
  <2>6. (node.core.cfg \in Loaded)' /\ Watching(node)'
    BY <2>2, <2>5 DEF Watching, Loaded
  <2> QED
    BY <2>2, <2>5, <2>6 DEF Seen
<1>2. CASE UNCHANGED vars
  BY <1>2 DEF vars, Seen, Watching, Loaded
<1> QED
  BY <1>1, <1>2

(* With an angle_fresh_timeout shorter than the time to be still, a        *)
(* calibration starts on two samples seen while the check watched or not   *)
(* at all: a board that stops answering is not taken for a still one.      *)
THEOREM SettlesOnSamples ==
  ASSUME FreshTimeoutsShort
  PROVE  Spec => SettledOnFreshSamples
<1>1. Seen /\ IInv /\ [Next]_vars => Seen'
  BY StepSeen
<1>2. Seen /\ IInv /\ [Next]_vars
        => [node.calib.phase = "Settling" /\ node'.calib.phase = "Calibrating"
              => node'.calib.evidence >= 2]_vars
  BY StepSeen
<1> QED
  BY <1>1, <1>2, InitSeen, Inductive, PTL DEF Spec, SettledOnFreshSamples
=============================================================================
