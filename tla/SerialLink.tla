----------------------------- MODULE SerialLink -----------------------------
(***************************************************************************)
(* SbgcLink and what the node reports of it.  Replies wait in the buffer   *)
(* of the serial port until a poll reads them; the link keeps the last of  *)
(* each kind, the control timer stamps it, and the status timer judges by  *)
(* the stamp whether the board is answering and what is wrong with it.     *)
(*                                                                         *)
(* DriverNode has the same callbacks for their effect on motion.  Here     *)
(* they are there for what they do to replies, and motion is left out.     *)
(* Time goes on only when an active node has run its control timer: the    *)
(* executor keeps up with it.                                              *)
(***************************************************************************)
EXTENDS Integers, Sequences

CONSTANTS
  Simulate,       \* values of the simulate parameter
  Capacity,       \* replies the buffer of the port holds
  ReadMax,        \* replies one read() of a poll may bring
  Fresh,          \* angle_fresh_timeout
  ReconnectDelay, \* reconnect_delay
  MaxAge          \* where ages saturate

(* The periods it takes to read a full buffer. *)
Lag == (Capacity + ReadMax - 1) \div ReadMax

ASSUME LinkAssumption ==
  /\ Simulate \subseteq BOOLEAN
  /\ Capacity \in Nat \ {0} /\ ReadMax \in Nat \ {0}
  /\ Fresh \in Nat /\ ReconnectDelay \in Nat
  /\ MaxAge \in Nat /\ MaxAge > Fresh + Lag + 1

Ages == 0 .. MaxAge
Older(age) == IF age < MaxAge THEN age + 1 ELSE age

(* What arrives: CMD_REALTIME_DATA_3 without and with a system error, a    *)
(* board identification, and anything else, which is only counted: other   *)
(* commands and payloads of the wrong length.                              *)
Kinds == {"healthy", "faulty", "identity", "other"}
Reply == [kind : Kinds, age : Ages]

Nothing == [what |-> "nothing"]

(* The reasons in fault_. *)
Faults == {"", "no port", "cannot open", "lost", "not connected",
           "board error", "not answering"}

Link == [open : BOOLEAN, simulated : BOOLEAN, fresh : BOOLEAN,
         haveRealtime : BOOLEAN, haveIdentity : BOOLEAN, identityOwn : BOOLEAN,
         realtime : [faulty : BOOLEAN, age : Ages, own : BOOLEAN, backlog : BOOLEAN]]

Node == [life : {"unconfigured", "inactive", "active", "finalized"},
         stampAge : Ages, retryIn : 0 .. ReconnectDelay, fault : Faults,
         infoPublished : BOOLEAN, catchUp : 0 .. Lag + 1]

VARIABLES
  simulate, \* the parameter, read when a connection is made
  wire,     \* replies received by the port and not yet read, the oldest first
  link,     \* the members of SbgcLink.  In realtime and identity, `age' is the
            \* true age of the reply, `own' that it came over this connection,
            \* and `backlog' that it was read before a poll had caught up
  node,     \* the members of the node about the link; catchUp is a history
            \* variable: polls still needed to see what waited for an activation
  ticked,   \* the control timer has run since time last advanced
  said      \* what the last callback published

vars == <<simulate, wire, link, node, ticked, said>>

Active     == node.life = "active"
Configured == node.life \in {"inactive", "active"}

NoReply == [faulty |-> FALSE, age |-> MaxAge, own |-> FALSE, backlog |-> FALSE]

Init ==
  /\ simulate \in Simulate
  /\ wire = <<>>
  /\ link = [open |-> FALSE, simulated |-> FALSE, fresh |-> FALSE,
             haveRealtime |-> FALSE, realtime |-> NoReply,
             haveIdentity |-> FALSE, identityOwn |-> FALSE]
  /\ node = [life |-> "unconfigured", stampAge |-> MaxAge, retryIn |-> 0,
             fault |-> "", infoPublished |-> FALSE, catchUp |-> 0]
  /\ ticked = FALSE /\ said = Nothing

-----------------------------------------------------------------------------
(* SbgcLink.                                                               *)

ClosedKeepingIdentity(l) ==   \* mutant: one flag is forgotten
  [l EXCEPT !.open = FALSE, !.simulated = FALSE, !.fresh = FALSE,
            !.haveRealtime = FALSE, !.realtime = NoReply, !.identityOwn = FALSE]

(* close(): the flags that vouch for the replies fall.  The replies stay   *)
(* where they are; NoReply stands for one that nothing vouches for.        *)
Closed(l) ==
  [l EXCEPT !.open = FALSE, !.simulated = FALSE, !.fresh = FALSE,
            !.haveRealtime = FALSE, !.realtime = NoReply,
            !.haveIdentity = FALSE, !.identityOwn = FALSE]

(* open() and openSimulated() *)
Opened(l) == [Closed(l) EXCEPT !.open = TRUE, !.simulated = simulate]

(* onFrame *)
Dispatch(l, r, backlog) ==
  CASE r.kind \in {"healthy", "faulty"} ->
         [l EXCEPT !.haveRealtime = TRUE, !.fresh = TRUE,
                   !.realtime = [faulty |-> r.kind = "faulty", age |-> r.age,
                                 own |-> TRUE, backlog |-> backlog]]
    [] r.kind = "identity" -> [l EXCEPT !.haveIdentity = TRUE, !.identityOwn = TRUE]
    [] OTHER -> l

(* Every reply a read brought, in order. *)
Dispatched(l, replies, backlog) ==
  LET after[n \in 0 .. Len(replies)] ==
        IF n = 0 THEN l ELSE Dispatch(after[n - 1], replies[n], backlog)
  IN  after[Len(replies)]

(* poll(0) reads once: its deadline has passed when the first read is done. *)
PerPoll == IF Len(wire) < ReadMax THEN Len(wire) ELSE ReadMax

-----------------------------------------------------------------------------
(* Connecting.                                                             *)

(* What an attempt may meet: no port is configured or discovered, the port *)
(* does not open, or it does.  Opening discards what the port had buffered. *)
Attempts == IF simulate THEN {"opened"} ELSE {"no port", "cannot open", "opened"}

(* tryConnect *)
LinkAfter(attempt) ==
  IF attempt = "opened" THEN Opened(link)
  ELSE IF attempt = "cannot open" THEN Closed(link) ELSE link
FaultAfter(attempt) == IF attempt = "opened" THEN "" ELSE attempt

NoteLinkLostLater ==   \* mutant: a period is added to the delay
  /\ wire' = <<>>
  /\ link' = Closed(link)
  /\ node' = [node EXCEPT !.fault = "lost", !.retryIn = ReconnectDelay + 1]

NoteLinkLost ==
  /\ wire' = <<>>
  /\ link' = Closed(link)
  /\ node' = [node EXCEPT !.fault = "lost", !.retryIn = ReconnectDelay]

-----------------------------------------------------------------------------
(* Lifecycle.  The answers on_configure reads while it waits for the board *)
(* have no stamp: the first control cycle of an activation stamps them.    *)

OnConfigure(attempt, answers) ==
  /\ node.life = "unconfigured"
  /\ answers # <<>> => attempt = "opened" /\ ~simulate
  /\ wire' = <<>>
  /\ link' = Dispatched(LinkAfter(attempt), answers, TRUE)
  /\ node' = [node EXCEPT
       !.life = IF attempt = "opened" THEN "inactive" ELSE "unconfigured",
       !.fault = FaultAfter(attempt)]
  /\ said' = Nothing /\ UNCHANGED <<simulate, ticked>>

OnActivate ==
  /\ node.life = "inactive"
  /\ node' = [node EXCEPT !.life = "active", !.catchUp = Lag + 1]
  /\ said' = Nothing /\ UNCHANGED <<simulate, wire, link, ticked>>

(* The port stays open, and nobody polls it. *)
OnDeactivate ==
  /\ node.life = "active"
  /\ node' = [node EXCEPT !.life = "inactive", !.catchUp = 0]
  /\ said' = Nothing /\ UNCHANGED <<simulate, wire, link, ticked>>

CleanedUp(life) ==
  /\ wire' = <<>> /\ link' = Closed(link)
  /\ node' = [node EXCEPT !.life = life, !.infoPublished = FALSE, !.catchUp = 0]
  /\ said' = Nothing /\ UNCHANGED <<simulate, ticked>>

OnCleanup  == node.life = "inactive" /\ CleanedUp("unconfigured")
OnShutdown == node.life # "finalized" /\ CleanedUp("finalized")

-----------------------------------------------------------------------------
(* Timers.                                                                 *)

RetryOnce ==   \* mutant: an attempt that fails is not followed by another
  /\ node.retryIn = 0
  /\ IF node.fault # "lost" THEN said' = Nothing /\ UNCHANGED <<wire, link, node>>
     ELSE \E attempt \in Attempts :
            /\ link' = LinkAfter(attempt) /\ wire' = <<>>
            /\ node' = [node EXCEPT !.fault = FaultAfter(attempt)]
            /\ said' = [what |-> "attempt"]

Retry ==
  /\ node.retryIn = 0
  /\ \E attempt \in Attempts :
       /\ link' = LinkAfter(attempt) /\ wire' = <<>>
       /\ node' = [node EXCEPT
            !.fault = FaultAfter(attempt),
            !.retryIn = IF attempt = "opened" THEN @ ELSE ReconnectDelay]
       /\ said' = [what |-> "attempt"]

Wait ==
  /\ node.retryIn > 0
  /\ said' = Nothing /\ UNCHANGED <<wire, link, node>>

PolledRestamping ==   \* mutant: a reply is fresh for as long as it is kept
  LET l == Dispatched(link, SubSeq(wire, 1, PerPoll), node.catchUp > 0)
  IN  /\ wire' = SubSeq(wire, PerPoll + 1, Len(wire))
      /\ link' = l
      /\ node' = [node EXCEPT !.stampAge = IF l.fresh THEN 0 ELSE @,
                              !.catchUp = IF @ > 0 THEN @ - 1 ELSE 0]
      /\ said' = Nothing

(* poll and takeRealtimeFresh. *)
Polled ==
  LET l == Dispatched(link, SubSeq(wire, 1, PerPoll), node.catchUp > 0)
  IN  /\ wire' = SubSeq(wire, PerPoll + 1, Len(wire))
      /\ link' = [l EXCEPT !.fresh = FALSE]
      /\ node' = [node EXCEPT !.stampAge = IF l.fresh THEN 0 ELSE @,
                              !.catchUp = IF @ > 0 THEN @ - 1 ELSE 0]
      /\ said' = Nothing

(* ok: neither the frame, if one is sent, nor the read fails. *)
ControlTick(ok) ==
  /\ Active
  /\ IF ~link.open THEN Retry \/ Wait
     ELSE IF ok \/ link.simulated THEN Polled
     ELSE NoteLinkLost /\ said' = Nothing
  /\ ticked' = TRUE /\ UNCHANGED simulate

(* A request that can not be written loses the link, like a frame. *)
TelemetryTickFails ==
  /\ Active /\ link.open /\ ~link.simulated
  /\ NoteLinkLost
  /\ said' = Nothing /\ UNCHANGED <<simulate, ticked>>

(* publishBoardInfo, with the identity the link keeps. *)
BoardInfoTick ==
  /\ Active /\ link.open /\ link.haveIdentity
  /\ node' = [node EXCEPT !.infoPublished = TRUE]
  /\ said' = [what |-> "identity", own |-> link.identityOwn]
  /\ UNCHANGED <<simulate, wire, link, ticked>>

Responding == link.haveRealtime /\ node.stampAge <= Fresh

FaultKept ==   \* mutant: nothing clears a reason
  IF ~link.open THEN (IF node.fault = "" THEN "not connected" ELSE node.fault)
  ELSE IF link.haveRealtime /\ link.realtime.faulty THEN "board error"
  ELSE IF ~Responding THEN "not answering"
  ELSE node.fault

(* The one reason statusTick finds. *)
FaultNow ==
  IF ~link.open THEN (IF node.fault = "" THEN "not connected" ELSE node.fault)
  ELSE IF link.haveRealtime /\ link.realtime.faulty THEN "board error"
  ELSE IF ~Responding THEN "not answering"
  ELSE ""

(* What diagnose says next, when it reads the clock `later'. *)
Diagnosis(fault, later) ==
  IF ~link.open THEN [level |-> "ERROR", message |-> fault]
  ELSE IF link.haveRealtime /\ link.realtime.faulty
    THEN [level |-> "ERROR", message |-> fault]
  ELSE IF ~link.haveRealtime \/ node.stampAge + later > Fresh
    THEN [level |-> "WARN", message |-> "not answering"]
  ELSE [level |-> "OK", message |-> ""]

(* statusTick: it clears or renews fault_, publishes an identity that has  *)
(* not been published yet, and has the diagnostics published.              *)
StatusTick(later) ==
  /\ Active
  /\ node' = [node EXCEPT !.fault = FaultNow,
                          !.infoPublished = @ \/ link.haveIdentity]
  /\ said' = [what |-> "status", responding |-> Responding, fault |-> FaultNow,
              diagnosis |-> Diagnosis(FaultNow, later),
              own |-> node.infoPublished \/ ~link.haveIdentity \/ link.identityOwn]
  /\ UNCHANGED <<simulate, wire, link, ticked>>

-----------------------------------------------------------------------------
(* The far end may send at any time: it answers requests in its own time,  *)
(* and sbgc_poll is written for a device that never stops.  A full buffer  *)
(* loses what comes next.                                                  *)
BoardSends(kind) ==
  /\ link.open /\ ~link.simulated /\ Len(wire) < Capacity
  /\ wire' = Append(wire, [kind |-> kind, age |-> 0])
  /\ said' = Nothing /\ UNCHANGED <<simulate, link, node, ticked>>

Advance ==
  /\ Active => ticked
  /\ wire' = [i \in 1 .. Len(wire) |-> [wire[i] EXCEPT !.age = Older(@)]]
  /\ link' = [link EXCEPT !.realtime.age = Older(@)]
  /\ node' = [node EXCEPT !.stampAge = Older(@), !.retryIn = IF @ > 0 THEN @ - 1 ELSE 0]
  /\ ticked' = FALSE /\ said' = Nothing
  /\ UNCHANGED simulate

(* What on_configure's poll of up to 200 ms brings, bounded like the buffer. *)
Answers == UNION {[1 .. n -> [kind : Kinds, age : {0}]] : n \in 0 .. Capacity}

Next ==
  \/ \E attempt \in Attempts, answers \in Answers : OnConfigure(attempt, answers)
  \/ OnActivate \/ OnDeactivate \/ OnCleanup \/ OnShutdown
  \/ \E ok \in BOOLEAN : ControlTick(ok)
  \/ TelemetryTickFails \/ BoardInfoTick
  \/ \E later \in {0, 1} : StatusTick(later)
  \/ \E kind \in Kinds : BoardSends(kind)
  \/ Advance

Spec == Init /\ [][Next]_vars

(* Time passes, and the executor runs the control timer in every period. *)
FairSpec == Spec /\ WF_vars(Advance) /\ []<>(Active => ticked)

-----------------------------------------------------------------------------
TypeOK ==
  /\ simulate \in Simulate
  /\ wire \in Seq(Reply) /\ Len(wire) <= Capacity
  /\ link \in Link /\ node \in Node
  /\ ticked \in BOOLEAN
  /\ said.what \in {"nothing", "attempt", "identity", "status"}

(* A board that is reported as responding sent its last reply at most      *)
(* angle_fresh_timeout ago, plus the time a reply can have waited in the   *)
(* buffer of the port, which one read per control period bounds however    *)
(* much the device sends.  Excepted are replies that waited while the node *)
(* was inactive: they are stamped when an activation reads them.           *)
RespondingIsRecent ==
  said.what = "status" /\ said.responding /\ ~link.realtime.backlog
    => link.realtime.age <= Fresh + Lag

(* What the link vouches for came over the connection it has now, and no   *)
(* identity of a board that was connected before is published: after a     *)
(* reconnection it may be another one.                                     *)
NothingFromBefore ==
  /\ link.haveRealtime \/ link.fresh => link.realtime.own
  /\ link.haveIdentity => link.identityOwn
  /\ said.what \in {"identity", "status"} => said.own

(* A fault in the status message is what the diagnostics say, "produced    *)
(* once and copied, so the two channels cannot disagree"                   *)
(* (GimbalStatus.msg).  The other way round they may: diagnose has reasons *)
(* of its own, and the clock has gone on.                                  *)
FaultReachesDiagnostics ==
  said.what = "status" /\ said.fault # "" =>
    said.diagnosis.level # "OK" /\ said.diagnosis.message = said.fault

(* A lost link is reopened without an operator: an active node whose port  *)
(* is closed tries again, however often it has failed (controlTick).       *)
KeepsTrying == Active /\ ~link.open ~> ~Active \/ said.what = "attempt"
=============================================================================
