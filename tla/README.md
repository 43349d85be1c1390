# Specification of the SimpleBGC32 ROS 2 driver

TLA+ modules, TLC runs and TLAPS proofs about the driver in `src/`: a lifecycle
node (`sbgc_driver`) that commands a camera gimbal through a serial protocol
(`sbgc_protocol/vendor`). The node jogs, holds, homes, calibrates and follows
trajectories. The central promise is a negative one: the camera does not move
unless an operator with the gates open has said so, recently, since the last
stop and the last loss of the link, within limits judged on a fresh angle.

## 1. Inventory

| Part (source) | State | Operations |
|---|---|---|
| `GimbalCore` (`gimbal_core.cpp`) | configuration, three gates (`control_allowed_`, `armed_`, `link_up_`), the pending command with its stamp, the unwrapped angle and its stamp | `setConfig`, the gate setters, `submitRate/Angle/Hold`, `onTelemetry`, `tick` |
| `SbgcDriverNode` (`driver_node.cpp`) | lifecycle state, `armed_`, the reference of angles, the reconnect deadline, the goals below | five lifecycle transitions, three timers, one subscription, seven services |
| Action servers (`driver_node.cpp` 950-1380) | phase, handle, stamps and last angle of `calibrate_gyro`; handle, target and deadline of `follow_joint_trajectory` | goal, accepted, cancel and tick callbacks, `abortActiveGoals` |
| `SbgcLink` (`sbgc_link.cpp`) | open and simulated flags, the last reply of each kind with the flags that vouch for it, counters | `open`, `close`, the sends, `poll`, `onFrame`, `takeRealtimeFresh` |
| `sbgc_api` (vendored C) | parser buffer, transport | frame build, incremental parse, bounded read and write, unit conversions |
| `sbgc_params`, `sbgc_gui_config` (vendored C) | none | reply decoding, port discovery |
| Reporting (`driver_node.cpp` 478-700) | the fault string, whether the identity was published, the reply's stamp | status topic, diagnostics, board info, sensor topics |

How they interact. `main.cpp` spins the node on a single-threaded executor, so
a callback is never interrupted by another: the interleavings are those of
whole callbacks. The control timer is the heart: it applies parameters, and then
either tries to reopen a lost port or writes `core_->tick()` to the link and
polls it for a reply, which goes to `core_->onTelemetry`; then it ticks both
goals. Jogs, services and goals call the core's intake, and some of them write
a frame themselves. The core is the only place that decides what a frame says;
the node decides whether there is a frame.

What is hard here:

- five kinds of caller (timers, topic, services, two action servers, lifecycle)
  change the same gates, command and link, in any order;
- a command outlives the callback that brought it, until the watchdog, a gate,
  a stop or the end of its goal takes it away;
- the link is lost in the middle of a callback (a write or a read fails) and
  comes back later, with goals in flight and a reply cached;
- the limits are judged on a track that is unwrapped from samples, may be stale
  and starts again after a drop;
- a goal has to end exactly once, by the method its state permits, also when
  the client cancels while the link drops or the node is deactivated, and has
  to end at all when the timer that ticks it goes away;
- replies wait in the port's buffer and are stamped when they are read, so what
  the node takes for recent is as old as the wait, and a chatty device fills the
  buffer with more than one read per cycle takes out;
- the line carries noise and frames cut short, and the parser has to find the
  next frame in them;
- every age is a difference of ROS clock readings, and that clock can be set back;
- a calibration owns the board for seconds, during which no control frame may
  be written by anyone.

`PROJECT.json` lists these as hazards, at the lines where they bite.

## 2. Modules

| Module | Models |
|---|---|
| `CoreOps` | every member function of `GimbalCore` as an operator on a record: gates, intake, watchdog, track, limits, the frame, wire rounding and saturation |
| `GimbalCore` | the object as a state machine: one action per public call, in any order, plus time |
| `MotionAuthority` | abstract: what the core promises its operator, without data |
| `CoreOps_proofs`, `GimbalCore_proofs` | lemmas about the operators of `CoreOps`; theorems about `GimbalCore`, for all constants |
| `DriverOps` | what the callbacks are built from: link calls, connect and loss, both goals' ticks and ends, and the board at the far end |
| `DriverNode` | the node: one action per callback, whole |
| `DriverOps_proofs`, `DriverNode_proofs` | what each part of a callback does to the invariant; theorems about `DriverNode` |
| `ActionGoal` | abstract: the goal transitions `rclcpp_action` permits |
| `DriverFairness` | the node in time, with what its liveness depends on |
| `SerialLink` | the link, the port's buffer, the identity of the board, and what the status topic and the diagnostics say of them; reconnection in time |
| `SerialLink_proofs` | theorems about `SerialLink` |
| `FrameParser` | the frame codec and `sbgc_parser_push`, byte by byte, against a reference that reads the whole line |
| `Recursion_proofs`, `FrameParser_proofs` | what is needed of recursive functions on the naturals and of loops; theorems about `FrameParser` |
| `GimbalLoop` | `DriverNode` composed with a camera that moves as the board was last told and with replies that show where it was; a clock that can be set back |
| `GimbalLoop_proofs` | theorems about `GimbalLoop` |
| `MCGimbalCore`, `MCDriverNode`, `MCDriverFairness`, `MCFrameParser`, `MCGimbalLoop` | small instances (`SerialLink` needs none) |

`GimbalCore` and `DriverNode` use the same operators of `CoreOps`: the first
explores the core under every call order, including those the node never makes,
the second embeds it (`node.core`) in the callbacks that do call it. `GimbalLoop`
EXTENDS `DriverNode` and conjoins to each of its callbacks what that callback does
to the board and the port. `SerialLink` has the same callbacks again, for what
they do to replies, with motion left out: the two views share the lifecycle and
the link and meet in no other variable.

### How the state corresponds

- *Time.* Each stamp is kept as an age, each deadline as the time left.
  `now() - command_stamp_ <= command_timeout_s` becomes
  `commandAge <= commandTimeout`. `Advance` lets one unit pass, between any two
  callbacks, any number of times: a late executor is included. Ages saturate
  at `MaxAge`, beyond every time out they are compared with (`AgesSuffice`).
  An age is negative only where the clock may be set back, by `JumpMax` in all:
  in `GimbalLoop`. Elsewhere `JumpMax` is 0.
- *Numbers.* Doubles are integers in one angle unit, plus `NaN` for everything
  `std::isfinite` refuses; comparisons with `NaN` are false, as in C++, and
  `std::clamp` is what libstdc++ does with it. Rounding to wire counts (half away
  from zero) and the saturation at the field's ends are modelled at the model's
  scale, since whether a frame *moves* is decided after rounding.
- *The track.* `unwrapOnto`'s two loops are the remainder they compute.
- *A callback that can fail in several places* takes the outcome of each write,
  poll and connection attempt as a parameter, quantified in the action. A frame
  whose write fails is not obeyed. A poll fails, brings nothing or brings a reply.
- *The board* is what the driver assumes of it in its comments: it obeys the last
  control frame, a control frame cancels its calibration, it keeps its motors
  as told. This part is marked external.
- *`applyParameters`* runs at the start of every control tick; that the
  parameters changed since the last one is a choice of `ControlTick`.
- *`core_` after cleanup* is destroyed; what stands for it is a new core.
- *History variables* of `DriverNode`: `voice` says whether the last word of the
  clients on motion was a command taken, a stop, or a command that a lost link
  dropped; `severed` says whether the link was down in this calibration window;
  `calib.evidence` counts samples. No guard reads them.

- *Replies* in `SerialLink` carry their true age and three marks the code does not
  have: whether they came over this connection (`own`, `identityOwn`) and whether
  they waited while nobody polled (`backlog`). `catchUp` counts the polls after
  an activation until that backlog has been read. No guard reads any of them,
  except to mark a reply.
- *The line* in `FrameParser` is the sequence of bytes pushed; the parser sees
  one byte at a time, in the five ways through `sbgc_parser_push`.
- *The camera* in `GimbalLoop` is in the board's convention; `RosAngles` is the
  one conversion between it and everything the core is told. `strayed` marks a
  camera left turning by a driver that can no longer reach it (closed port,
  inactive node, or a write that failed since), which the repository's README
  names as its "Critical serial-disconnect limitation", until it is back inside.
  One unit of its angles and rates is one count of the wire's fields
  (`LoopAssumption`): how counts round is `CoreOps`' subject.

Assumptions on the inputs: the constructor of `GimbalCore` repairs nothing, and a
non-finite slew would reach a conversion that is undefined for it. The node's
parameter is bounded to 1-120 degrees per second (`sbgc_driver_parameters.yaml`
178-183), so `Init` gives the constructor a finite slew; every other field of
its configuration may be anything, and `setConfig` may be given anything.

## 3. Runs

| Run | Asks | Properties |
|---|---|---|
| `Core` | every call order on one core, on an axis whose sign the wire flips beside one under a roll lock, every wrapped angle, configurations reversed or not finite | `TypeOK`, `NoQueuedMotion`, `StillFrameHolds`, `FrameRespectsLimits`, `FrameTargetsInside`, `FrameNeedsFreshAngle`, `TrackFollows`, `ConfigRepaired`, `HonoursAuthority` |
| `Driver` | every callback in every order: both action servers, lost links, every value of the boolean parameters, lock modes, the motor service | `TypeOK`, `ArmedAgrees`, `MonitorNeverMoves`, `NodeNeverQueuesMotion`, `GoalsTracked`, `OneClaimant`, `CalibrationUndisturbed`, `NoMotionAfterStop`, `NoMotionAfterDrop`, `SettledOnFreshSamples`, `CalibGoalProtocol`, `TrajGoalProtocol` |
| `Driver_live` | goals end, and the board comes to rest when every client dies | `CalibGoalsEnd`, `TrajGoalsEnd`, `DeadPublisherStops` |
| `Parser` | every line of noise, frames and cut frames within the budget | `TypeOK`, `ParserScans`, `Resynchronises` |
| `Link` | drops, reconnections, deactivations, a device that sends what it likes | `TypeOK`, `RespondingIsRecent`, `NothingFromBefore`, `FaultReachesDiagnostics`, `KeepsTrying` |
| `Loop` | does the camera itself obey limits and watchdog | `LoopTypeOK`, `TravelKept`, `WatchdogStops`, `ArrivalIsSeen` |
| `Core_stranded`, `Silent_board`, `Ok_after_drop`, `Inverted_goal`, `Stale_settle`, `Resumed_after_drop` | disagreements between the code and its documentation (section 6) | one each |

What the properties mean is said where they are defined, in `GimbalCore.tla`
and in the module of each of the others. Some deserve a word:

- `HonoursAuthority` is refinement: a core's order is *none*, *live* or
  *expired*, and every call of the core is a step of `MotionAuthority` or
  changes nothing of it. It says in one formula that motion needs the
  permission, that losing it withdraws the order for good, and that an expired
  order does not come back.
- `NoMotionAfterStop` says the same of the whole node and of the board: after a
  stop, disarm or deactivation, no cached command, surviving goal or late timer
  turns the board again before a client has spoken.
- `CalibGoalProtocol` and `TrajGoalProtocol` are refinements of `ActionGoal`: a
  terminal call that `rclcpp_action` does not permit in the goal's state throws
  out of a callback and takes the node down.

- `ParserScans` checks an incremental algorithm against a definition by position
  on the whole line, at every byte, including the byte at which each frame is
  returned. `Resynchronises` says how soon the parser is back in step: a false
  header can swallow at most one frame's length.
- `RespondingIsRecent` bounds what `board_responding` means in true time:
  `angle_fresh_timeout` plus the reads it takes to empty the buffer (`Lag`). With
  4096 bytes of buffer, 256 bytes a read and 30 polls a second that is half a second
  more than the parameter says. One unit less is violated.
- `TravelKept` is about the camera and not its track. The sample a frame is judged
  on waits for a poll (1 unit), is good for `angle_fresh_timeout` and for as long
  again as the clock was set back, and the frame is obeyed for one unit more; the
  camera leaves a limit by less than what it turns in that time. With one unit
  less in `Overshoot` TLC finds a violation, so the bound is the best of its
  form; the same is true of the period in `WatchdogStops`.

### Bounds, and why they are enough

A turn is 4 angle units, so every wrapped angle, exactly half a turn included, is
an input of `Core`, and the track may run half a turn either way (`TrackBound`),
across the seam of the wrap. A rate of one unit is half a wire count, so rounding to zero or
to a count is decided; the ceiling (3) and the wire's end (`WireMax`) both cut.
Limits are at -1, 0 and 1, so the track meets them exactly, passes them, and has
them tightened under it. Time outs are one unit and ages saturate at two: fresh,
at the limit, and late. The roll axis has fewer inputs than the pitch axis, enough
to differ from them, so that one axis' guard written to another's index would
show.

`DriverNode` has one axis, since nothing in the node treats axes differently
except through the core, and limits out of the way, since the core's runs are
about them. `Driver` lets the camera report two angles, so that a
settling gimbal moves between looks, and has a still time of two units within a
settle time out of three. Goals come with a named and an unnamed axis. The
reconnect delay is one unit, or zero in `Driver_live`. `AllowControl`,
`StartArmed` and `AutoMotorsOn` take every value in `Driver`. Its `VIEW` merges states that
differ only in what nothing reads: the age and the reference of a command when none is
pending, the age of an angle that is not valid, the retry delay while the port is
open, and `motors_on_`, which is only published. The merged states agree on every
check, except that `TypeOK` sees those members in one state of each group.

`Parser` has bytes of three values, one of them the start byte, so noise can pose
as any part of a frame and a payload is at most two bytes; four units of noise and
three frames let a false header swallow a frame, resume inside its own tail and
meet the next. The messages hold the start byte nowhere else, which
`Resynchronises` needs and `ParserScans` does not (noise contains it).

`Link` has a buffer of two replies and one reply a read: two periods behind. That
is enough for a reply to wait behind another, through a drop or a deactivation. What the poll of `on_configure`, up to 200 ms
long, brings is any number of replies up to the buffer's size.
Ages saturate beyond the bound of `RespondingIsRecent`. Four kinds of reply are the
four ways through `onFrame` that leave a trace, and one that leaves none.

`Loop` has one axis, pitch, the one whose sign is converted. Time outs and pace are
one unit, the clock may be set back by one, the camera starts at its upper limit,
and `Stops` leaves room beyond it for the first angle `TravelKept` forbids. One trajectory and both
jog directions are enough to drive it over the limit. Its `VIEW` merges states
that no action and no invariant can tell apart: the track when it is not valid,
the age of a command when none is pending, the retry delay when the port is open,
the history variables of `DriverNode`, and most of a finalized node. Merged states agree
on every check but one: the range `LoopTypeOK` gives an age is checked only where
that age is in use.

### Fairness

`DriverFairness` adds the clock and the control timer. Assumed:

- time passes (`WF(TimePasses)`);
- while the node is active the due control timer runs
  (`[]<>(Active => timer # "due")`): `on_activate` creates it, `main.cpp` spins a
  single-threaded executor, and no callback blocks for longer than a bounded
  read, so `rclcpp::spin` gets to it. What the callback then finds (a failed
  write, no port, no reply) is not constrained, and nothing is assumed of
  clients, of the request timers or of the lifecycle;
- in `AnsweredSpec`, a board that answers again and again, to control callbacks that
  write and read, if an active node has the port open again and again. The code
  cannot guarantee a board's answers; `Silent_board` shows that `CalibGoalsEnd`
  fails without them. `TrajGoalsEnd` does not need it. `DeadPublisherStops`
  needs only that such a callback runs again and again: without that, an operator
  who deactivates and activates the node for ever, faster than its timer, over
  writes that fail, keeps it from ever sending the hold.

`SerialLink` assumes the same two of its own clock and control timer
(`FairSpec`): time passes, and an active node has run the timer again and again.
`KeepsTrying` needs no more; that an attempt succeeds is never assumed.

These are formulas about states rather than `WF` of the large actions; for the
control timer the formula is what weak fairness of the timer's callback comes to,
as that action is enabled whenever the node is active.

## 4. Proofs

Every theorem holds for all values of the constants that satisfy the assumptions
its module inherits: `CoreAssumption`, `CoreInputs`, `DriverAssumption`,
`NodeInputs` and those of `SerialLink` and `FrameParser`. They give types, and
that delays are not zero where the code divides by them or counts to them. TLC
evaluates each of them in a run; `GimbalLoop` adds `LoopAssumption`, which describes the
mount and its one configuration. Three theorems have a hypothesis besides, named below.

| Module | Theorem | States |
|---|---|---|
| `GimbalCore_proofs` | `TypeCorrect` | `[]TypeOK` |
| | `NothingQueued`, `TrackIsKnown` | `[]NoQueuedMotion`, `[]TrackKnown` |
| | `StillFramesHold`, `FramesRespectLimits`, `TargetsStayInside`, `FramesNeedFreshAngle` | the four frame properties |
| | `TrackAlwaysFollows`, `ConfigAlwaysRepaired` | `TrackFollows`, `ConfigRepaired` |
| | `AuthorityHonoured` | `HonoursAuthority`, if all configurations carry one `command_timeout` |
| `DriverNode_proofs` | `NodeTypeCorrect`, `GoalsAlwaysTracked`, `BoardHasOneClaimant`, `CalibrationLeftAlone`, `ArmBitsAgree`, `NothingPendingInactive`, `MonitorOnlyWatches` | each invariant of the run `Driver` |
| | `StopIsFinal`, `DropIsFinal` | `NoMotionAfterStop`, `NoMotionAfterDrop` |
| | `SettlesOnSamples` | `SettledOnFreshSamples`, if `FreshTimeoutsShort` |
| | `CalibImplementsGoal`, `TrajImplementsGoal` | both refinements of `ActionGoal` |
| `SerialLink_proofs` | `LinkTypeCorrect`, `RespondingMeansRecent`, `NothingSurvivesReconnect`, `FaultIsDiagnosed` | each invariant of the run `Link` |
| `FrameParser_proofs` | `ParserTypeCorrect`, `ParserIsScan`, `FindsItsWayBack` | each invariant of the run `Parser` |
| `GimbalLoop_proofs` | `LoopInductive` | the invariant the others rest on |
| | `LoopTypeCorrect`, `WatchdogStopsCamera`, `TravelIsKept` | `[]LoopTypeOK`, `[]WatchdogStops`, `[]TravelKept` |
| | `ArrivalSeenPlainly` | `[]ArrivalIsSeen`, if every axis is `Plainly` told |

### GimbalCore

The inductive invariant is `IInv == Sound(core) /\ TickedNow`. TLC agrees with it
on the instance of `Core` (100,080 states). `TypeOK` is not
inductive: the frame of a tick is a frame only if the slew is a number, so `Sound`
carries that. The flags of the track and the absence of queued motion are
inductive with it, one lemma per call (`GatesSound`, `CommandsSound`, ...).
`TickedNow` says that a frame just returned is the one this core builds, which
turns each frame property into a lemma about one application of `Tick`:
`StillIsHold`, `RateRespectsLimits` (by the sign of rounding, `RateUnitsSign`, and
of the pitch flip), `TargetInside` (by `ClampType`), `MovingIsFresh`.
`TrackAlwaysFollows` rests on `UnwrapCloses`, which is arithmetic of remainders
for any modulus. `ConfigAlwaysRepaired` rests on `SanitisedSane`.

`AuthorityHonoured` adds `TimeoutInForce` to the invariant and has one step per
call. Its hypothesis `OneTimeout` is needed: raising `command_timeout` while a
command has run out, but is still pending, makes it fresh again
(`commandFresh` compares the old stamp with the new limit), so without it the
refinement is false.

### DriverNode

`IInv` has three parts. `Held(node)` is what every *part* of a callback keeps: the
type, `GatesAgree` (a pending command has every gate open, the core's link gate is
the port, a board that turns was allowed to), the two goals in step with their
handles (`CalibHeld`, `TrajHeld`), and one claimant. `Life(node)` holds between
callbacks only: it ties the goals, the arm bit and the pending command to the
lifecycle, and `on_deactivate` disarms before it leaves the active state.
`Voiced` ties the clients' last word to what is pending: a pending command was
spoken, a live trajectory is not silent.

A callback is a chain of calls, any of which may fail. `DriverOps_proofs` has for
each call a lemma that it keeps `Held` and says what it does to the goals
(`MayMove`: a path of `ActionGoal`), to the board (`Began`: calibration starts
from a held frame only) and to the evidence of the settle check (`Watching`).
`DriverNode_proofs` composes them, one lemma per callback, into `Lawful(node, s)`
and one of three relations: `Quiet` (no new command; what turns the board was
pending before), `Loud` (a client's command, refused unless permitted) and `Mute`
(nothing is left that could move). `StepTaken` says that every step of `Next` is
such a callback. The theorems are then short: each invariant is a part of `IInv`,
each action property a consequence of the three relations, and each refinement the
fact that a path of `MayMove` within one callback is one step of `ActionGoal`.

`SettlesOnSamples` adds `Seen`: as long as the settle check has seen one sample only,
that sample is at least as old as the stillness counted from it. Its hypothesis is that every
configuration in force has an `angle_fresh_timeout` shorter than the time to be
still. The parameter's schema does not say so, and the run `Stale_settle` is the
counterexample without it.

### SerialLink

`RespondingMeansRecent` is the deep one. What is read now was written up to a
buffer's length of reads ago. `QueueMoves` ties the age of a reply to its place in
the buffer: while the node is active it has moved up by a read's length in every period
it has waited (`Timely`), or it was there at the activation and has moved up as far
in every period since (`Leftover`, counted by `catchUp`). So a reply that is read
and is no backlog waited `Lag` periods at most, and its true age is no more than its
stamp's and `Lag` (`StampTells`). `NothingSurvivesReconnect` rests on `OwnReplies`:
what the link vouches for came over this connection, as `open` clears every flag and
a closed port holds nothing.

### FrameParser

`ParserIsScan` compares what `sbgc_parser_push` has returned with a recursive
function over the line. The invariant speaks of the future (`Future`): whatever
bytes come next, a reader of the whole line finds first what the parser has
returned, and then what begins at the place its buffer starts at. There is one lemma
for each of the five ways through a push. The one that meets a parse error, drops a
byte and reads the rest of its buffer again is a loop, and its lemma goes round it.

`FindsItsWayBack` needs more: where the frame being sent lies on the line
(`Carried`), that behind the noise a start byte begins a frame (`Tidy`), that a parser
that reads on from behind the noise is between frames or in the frame being sent
(`InSync`), and that it has not missed the beginning of a frame far enough behind
the noise (`Caught`). TLC checks each of these parts on the instance of `Parser`.

The library's induction theorems take an operator as a parameter, and no
installed prover can instantiate that. `Recursion_proofs` has what these proofs need
instead, with the predicate given as a *set* of naturals: `LeastNumber` (a
nonempty set of naturals has a least element, so a counterexample has a smallest
one), `Counting`, and `RunExists` (a loop has a value after each of its turns).
With them the parser's loop and the recursive functions of `FrameParser` are
reasoned about for every length.

### GimbalLoop

`TravelKept` relates the camera to the limits, and the driver knows only its track:
the angle of the last reply it read. `LInv` follows an angle from the camera through
the port and the track into the frame, and says at each place how far out the camera
may be by now (`Near`, for each axis and each side of its range):

- seen from the reply in the port, one period's travel further than the reply says,
  since a poll empties the port in every period (`ReplyNear`);
- seen from the track, further by what an axis turns in the track's *true* age and one
  unit more (`TrackNear`). The true age is the node's age and what the clock was
  set back, which is why an age may be negative and the bound may not forget it;
- if the order turns the axis outward, no further than `Fresh` and one unit allow,
  since `tick` gave such an order only on a fresh angle inside the limit, and a period
  more when it has not been renewed yet (`OrderNear`);
- in any case by less than the overshoot (`Within`). Orders to go to an angle need
  `AimInside`: the angle lies inside the limits.

The last is the property, and is not inductive alone: each bound is what carries the
next one through a step. An axis that turns inward, or not at all, or to an angle gets no
further out than it is, which is `ReachesBounds`. `Near` is claimed while the camera has
not strayed; a camera that was left turning and is back inside the limits satisfies it
again, whatever the track says. `Attended` is what `WatchdogStops` needs: a board that
turns is attended by an active node with the port open or is `adrift`, and a pending
command is at least as old as the clients' silence, up to what the clock was set back.

Each callback of `GimbalLoop` is one of `DriverNode`'s, so `Lawful` is known of it. What
`DriverNode_proofs` does not say, and a frame or an age depends on, is `Moves`: the
command is the one there was, a new one or none (`Pending`), the track is the one there was
or none (`Tracked`), and no delay grows beyond its parameter (`Delays`). `Acted` adds what
the callback sent, and that it may send it (`Judged`: backed by a command, and by an
angle). `ActedKeeps` says that whatever is so keeps `LInv`, and each callback is shown to
be so. The passing of time (`AdvanceKeeps`), the board's answer (`AnswersKeep`) and the
clock set back (`SetBackKeeps`) are no callbacks and have a lemma each. TLC agrees with
`LInv` on the instance of `Loop` (609,551 states).

`ArrivalSeenPlainly` has a hypothesis on the configuration: no axis is inverted (`Inverted_goal` is
the counterexample), a roll axis is not locked (its target is replaced by the horizon,
`gimbal_core.cpp:342`), and the limits fit into the wire's field.

### What is not proved

Liveness, which the prover cannot express: `CalibGoalsEnd`, `TrajGoalsEnd`,
`DeadPublisherStops`, `KeepsTrying`, all model-checked. Every other property of a run
that passes is a theorem, three of them under the hypotheses named above.

## 5. Not modelled, and abstractions to know of

- Transport below the frame: termios, the debugging copy of the last frame
  (`sbgc_format_last_tx`), and the high-level calls of `sbgc_api.c` the driver does
  not use. `DriverOps` treats a failed write as delivering nothing; that a board
  drops half a frame is what `FrameParser` shows of the driver's own parser.
- `DriverNode` takes the angle of a reply as an input, fresh when it is polled;
  how old it can be is `SerialLink`'s subject, and where it comes from
  `GimbalLoop`'s.
- The camera in `GimbalLoop` turns no faster than commanded, in a travel of less
  than half a turn that holds zero. A wider mount can be a full turn off after a drop
  (hazard at `gimbal_core.cpp:218`): no reading tells the two places apart.
- Joint states, orientation, IMU with its `AxisMapping`, battery, and the counters
  in the status message: they read the state and write none of it, and their
  content is arithmetic on one reply.
- Payload decoding (`sbgc_params.c`): fixed offsets behind a length check.
- `simulate` in `DriverNode`: a connection attempt that succeeds. `SerialLink` has it.
- `on_error`: no transition callback returns `ERROR`, nothing reaches it.
- What `home` and `level` move to, in `DriverNode`: the board is turning, that is
  all. In `GimbalLoop` it is zero, on every axis, with no look at the limits.
- Port discovery, launch files, the robot description: no control state.

Noticed while modelling. No document of the repository says what is intended:

- a rate ceiling lowered at run time does not bind the pending rate;
- a trajectory takes the last track for an axis it does not name, even from before
  the first reply (zeros);
- the control frame one period after `~/home` or `~/level` replaces the pose the
  board was just sent to: what becomes of an interrupted auto-task is the board's;
- the arrival of a trajectory is judged on an angle of any age
  (`driver_node.cpp:1361`): after a deactivation whose hold frame was lost, the next
  goal can end as reached on the angle from before it, far from the camera;
- `~/home`, repeated to a silent board, moves the camera while the track stands still.

And some that a document does speak of, not made into runs:

- `auto_motors_on` powers the motors of a node started without `allow_control`
  (`driver_node.cpp:253`), where `set_motors` answers "this node will not power the
  motors" (`:765`);
- a trajectory to a position that is not a number is accepted, moves nothing and
  succeeds (`driver_node.cpp:1364`; `gimbal_core.hpp:160` "Non-finite values are
  refused outright");
- `board_responding` counts only replies with the camera's angle, where the message
  speaks of a well-formed frame;
- the stamp of `BoardInfo` is renewed every two seconds whether or not the board
  answered (`driver_node.cpp:473`), where `BoardInfo.msg:7-8` has it "when the
  identifying reply was received from the board ... so a consumer can tell how old the
  identity is"; and an identity first read by a control tick may be published by `statusTick` before
  any request has stamped it;
- `GimbalStatus.msg:118-120` has the fault "produced once and copied, so the two channels
  cannot disagree". `FaultReachesDiagnostics` is one direction, and holds. The diagnostics
  may also warn where the status has no fault: `diagnose` reads the clock again, knows
  a reason of its own (`limits_stale`, left by a frame that was built before the
  reply of its control tick was read), and runs on a timer of its own;
- `sbgc_poll` takes an end of file for an idle line (`sbgc_api.c:409`): a device that
  hangs up is noticed by the next write.

## 6. Disagreements found

Each is a run that ends in a counterexample; `PROJECT.json` quotes the lines.

- `Core_stranded`: a reversed travel range given at configuration is not put in
  order by the constructor, and blocks the axis in both directions.
- `Silent_board`: with a port that works and a board that is silent, a settling
  calibration returns before its time out is looked at, for ever.
- `Ok_after_drop`: a link lost and reopened inside the calibration window is not
  noticed, and the result is OK.
- `Inverted_goal`: on an axis with `invert` a trajectory drives the camera to the
  mirror image of its goal, and compares the goal with an angle that is not mirrored:
  it arrives and is not seen to, and runs into its time out.
- `Stale_settle`: with an `angle_fresh_timeout` of a second or more, one sample
  followed by silence counts as a gimbal that is still, and is calibrated. Below
  that the check is proved right (`SettlesOnSamples`).
- `Resumed_after_drop`: a link lost in one control tick and reopened in the next, before
  the goals are ticked, leaves a trajectory running, and it turns the board with no word
  from a client. `setLinkUp` clears the pending command to prevent this very thing.
  `NoMotionAfterDrop` exempts this case alone, and is proved.

## 7. Plan

Done: the core, the node with both action servers, the link with its reporting, the
parser and the closed loop, each with the proofs of all its safety properties;
liveness, model-checked. Next, in order of importance:

1. The refinement theorem of the core without `OneTimeout`: `MotionAuthority` with a
   deadline that moves with the parameter.
2. `AxisMapping` and the unit conversions, as operators against a reference.
