------------------------- MODULE SerialLink_proofs -------------------------
(***************************************************************************)
(* Proofs about SerialLink, for any size of the port's buffer and of a     *)
(* read, and any time outs.                                                *)
(***************************************************************************)
EXTENDS SerialLink, Recursion_proofs, SequenceTheorems

-----------------------------------------------------------------------------
(* Types. *)

(* Lag periods are enough to read a full buffer.                           *)
LEMMA LagReads ==
  Lag \in Nat /\ Capacity <= ReadMax * Lag
<1> DEFINE a == Capacity + ReadMax - 1
<1>1. Capacity \in Nat \ {0} /\ ReadMax \in Nat \ {0} /\ a \in Nat
  BY LinkAssumption
<1>2. a \div ReadMax \in Int /\ ReadMax * (a \div ReadMax) > a - ReadMax
  BY <1>1
<1>3. Capacity <= ReadMax * (a \div ReadMax)
  BY <1>1, <1>2
<1>4. a \div ReadMax >= 0
  BY <1>1
<1> QED
  BY <1>2, <1>3, <1>4 DEF Lag

(* A port that holds nothing.                                              *)
LEMMA EmptyWire ==
  /\ <<>> \in Seq(Reply) /\ Len(<<>>) <= Capacity
  /\ 1 .. Len(<<>>) = {}
<1>1. <<>> \in Seq(Reply) /\ Len(<<>>) = 0
  OBVIOUS
<1> QED
  BY <1>1, LinkAssumption

(* A stamp grows older by one until it saturates.                          *)
LEMMA OlderType ==
  ASSUME NEW age \in Ages
  PROVE  /\ Older(age) \in Ages /\ Older(age) <= age + 1
         /\ age < MaxAge => Older(age) = age + 1
         /\ age = MaxAge => Older(age) = MaxAge
  BY LinkAssumption DEF Ages, Older

(* Every reply that waits in the port has an age.                          *)
LEMMA WaitingAge ==
  ASSUME wire \in Seq(Reply), NEW i \in 1 .. Len(wire)
  PROVE  wire[i] \in Reply /\ wire[i].age \in Ages /\ wire[i].age \in Nat
<1>1. wire[i] \in Reply
  OBVIOUS
<1>2. wire[i].age \in Ages
  BY <1>1 DEF Reply
<1> QED
  BY <1>1, <1>2, LinkAssumption DEF Ages

-----------------------------------------------------------------------------
(* What the link keeps of the replies.                                     *)

(* It vouches for nothing that came over another connection.               *)
OwnReplies(l) ==
  /\ l.haveRealtime \/ l.fresh => l.realtime.own
  /\ l.haveIdentity => l.identityOwn

(* After some replies the last of them that carried telemetry is kept, or  *)
(* what was there before when none did.                                    *)
KeptFrom(l, d, replies, backlog) ==
  \/ /\ d.realtime = l.realtime /\ d.haveRealtime = l.haveRealtime
     /\ d.fresh = l.fresh
  \/ /\ d.haveRealtime /\ d.fresh /\ d.realtime.backlog = backlog
     /\ \E i \in 1 .. Len(replies) : d.realtime.age = replies[i].age

(* onFrame.                                                                *)
LEMMA DispatchKeeps ==
  ASSUME NEW l \in Link, NEW r \in Reply, NEW backlog \in BOOLEAN
  PROVE  LET d == Dispatch(l, r, backlog)
         IN  /\ d \in Link /\ d.open = l.open /\ d.simulated = l.simulated
             /\ OwnReplies(l) => OwnReplies(d)
             /\ \/ /\ d.realtime = l.realtime /\ d.haveRealtime = l.haveRealtime
                   /\ d.fresh = l.fresh
                \/ /\ d.haveRealtime /\ d.fresh /\ d.realtime.backlog = backlog
                   /\ d.realtime.age = r.age
<1>1. CASE r.kind \in {"healthy", "faulty"}
  <2> DEFINE t == [faulty |-> r.kind = "faulty", age |-> r.age, own |-> TRUE,
                   backlog |-> backlog]
             d == [l EXCEPT !.haveRealtime = TRUE, !.fresh = TRUE, !.realtime = t]
  <2>1. Dispatch(l, r, backlog) = d
    BY <1>1 DEF Dispatch
  <2>2. t \in [faulty : BOOLEAN, age : Ages, own : BOOLEAN, backlog : BOOLEAN]
    BY DEF Reply
  <2>3. t.own = TRUE /\ t.backlog = backlog /\ t.age = r.age
    OBVIOUS
  <2> HIDE DEF t
  <2>4. /\ d \in Link /\ d.open = l.open /\ d.simulated = l.simulated
        /\ d.haveRealtime = TRUE /\ d.fresh = TRUE /\ d.realtime = t
        /\ d.haveIdentity = l.haveIdentity /\ d.identityOwn = l.identityOwn
    BY <2>2 DEF Link
  <2> HIDE DEF d
  <2> QED
    BY <2>1, <2>3, <2>4 DEF OwnReplies
<1>2. CASE r.kind = "identity"
  <2> DEFINE d == [l EXCEPT !.haveIdentity = TRUE, !.identityOwn = TRUE]
  <2>1. Dispatch(l, r, backlog) = d
    BY <1>2 DEF Dispatch
  <2>2. /\ d \in Link /\ d.open = l.open /\ d.simulated = l.simulated
        /\ d.haveRealtime = l.haveRealtime /\ d.fresh = l.fresh
        /\ d.realtime = l.realtime
        /\ d.haveIdentity = TRUE /\ d.identityOwn = TRUE
    BY DEF Link
  <2> HIDE DEF d
  <2> QED
    BY <2>1, <2>2 DEF OwnReplies
<1>3. CASE r.kind = "other"
  BY <1>3 DEF Dispatch
<1> QED
  BY <1>1, <1>2, <1>3 DEF Reply, Kinds

(* sbgc_poll.                                                              *)
LEMMA DispatchedKeeps ==
  ASSUME NEW l \in Link, NEW replies \in Seq(Reply), NEW backlog \in BOOLEAN
  PROVE  LET d == Dispatched(l, replies, backlog)
         IN  /\ d \in Link /\ d.open = l.open /\ d.simulated = l.simulated
             /\ OwnReplies(l) => OwnReplies(d)
             /\ KeptFrom(l, d, replies, backlog)
<1> DEFINE N == Len(replies)
           turn == [n \in 1 .. N |-> [x \in Link |-> Dispatch(x, replies[n], backlog)]]
           Runs(f) == f = [n \in 0 .. N |->
                             IF n = 0 THEN l ELSE Dispatch(f[n - 1], replies[n], backlog)]
           g == CHOOSE f : Runs(f)
<1>1. N \in Nat /\ \A n \in 1 .. N : replies[n] \in Reply
  OBVIOUS
<1> HIDE DEF N
<1>2. Turns(N, Link, turn)
  BY <1>1, DispatchKeeps DEF Turns
<1>3. PICK f : Run(N, Link, l, turn, f)
  <2> HIDE DEF turn
  <2> QED
    BY <1>1, <1>2, RunExists
<1>4. f \in [0 .. N -> Link] /\ f[0] = l
  BY <1>3 DEF Run
<1>5. Runs(f)
  <2>1. ASSUME NEW n \in 1 .. N
        PROVE  f[n] = Dispatch(f[n - 1], replies[n], backlog)
    <3>1. n - 1 \in 0 .. N
      BY <1>1
    <3>2. f[n - 1] \in Link
      BY <1>4, <3>1
    <3> QED
      BY <1>3, <3>2 DEF Run
  <2> HIDE DEF turn
  <2>2. f = [n \in 0 .. N |-> f[n]]
    BY <1>4
  <2>3. ASSUME NEW n \in 0 .. N
        PROVE  f[n] = IF n = 0 THEN l ELSE Dispatch(f[n - 1], replies[n], backlog)
    <3>1. n = 0 \/ n \in 1 .. N
      BY <1>1
    <3> QED
      BY <1>4, <2>1, <3>1
  <2> QED
    BY <2>2, <2>3
<1>6. Runs(g)
  <2> HIDE DEF Runs
  <2> QED
    BY <1>5
<1>7. Dispatched(l, replies, backlog) = g[N]
  BY DEF Dispatched, N
<1>8. /\ g[0] = l
      /\ \A n \in 1 .. N : g[n] = Dispatch(g[n - 1], replies[n], backlog)
  <2> HIDE DEF g
  <2> QED
    BY <1>1, <1>6
<1> HIDE DEF g, turn, Runs
<1> DEFINE T == {n \in 0 .. N :
                   /\ g[n] \in Link /\ g[n].open = l.open /\ g[n].simulated = l.simulated
                   /\ OwnReplies(l) => OwnReplies(g[n])
                   /\ KeptFrom(l, g[n], replies, backlog)}
<1>9. 0 \in T
  BY <1>1, <1>8 DEF KeptFrom
<1>10. ASSUME NEW n \in 1 .. N, n - 1 \in T PROVE n \in T
  <2> DEFINE x == g[n - 1]
             y == g[n]
  <2>1. /\ x \in Link /\ x.open = l.open /\ x.simulated = l.simulated
        /\ OwnReplies(l) => OwnReplies(x)
        /\ KeptFrom(l, x, replies, backlog)
    BY <1>10
  <2>2. y = Dispatch(x, replies[n], backlog) /\ replies[n] \in Reply
    BY <1>1, <1>8
  <2> HIDE DEF x, y
  <2>3. /\ y \in Link /\ y.open = x.open /\ y.simulated = x.simulated
        /\ OwnReplies(x) => OwnReplies(y)
        /\ \/ /\ y.realtime = x.realtime /\ y.haveRealtime = x.haveRealtime
              /\ y.fresh = x.fresh
           \/ /\ y.haveRealtime /\ y.fresh /\ y.realtime.backlog = backlog
              /\ y.realtime.age = replies[n].age
    BY <2>1, <2>2, DispatchKeeps
  <2>4. KeptFrom(l, y, replies, backlog)
    BY <2>1, <2>3 DEF KeptFrom, N
  <2> QED
    BY <1>1, <2>1, <2>3, <2>4 DEF y
<1> HIDE DEF T
<1>11. N \in T
  <2>1. \A n \in 0 .. N : n \in T
    BY <1>1, <1>9, <1>10, Counting
  <2> QED
    BY <1>1, <2>1
<1> QED
  BY <1>7, <1>11 DEF T

-----------------------------------------------------------------------------
(* The inductive invariant. *)

(* A reply in the port has moved up by a read's length in every period it  *)
(* has waited, or was there when the node was activated and has moved up   *)
(* by as much in every period since.                                       *)
Timely(i) == i + ReadMax * (wire[i].age - (IF ticked THEN 0 ELSE 1)) <= Capacity
Leftover(i) == i + ReadMax * (Lag + 1 - node.catchUp) <= Capacity

QueueMoves == Active => \A i \in 1 .. Len(wire) : Timely(i) \/ Leftover(i)

(* What a poll kept is not much older than its stamp, unless it was read   *)
(* before a poll had caught up; of such a reply alone the stamp is due.    *)
StampTells ==
  /\ link.haveRealtime /\ ~link.realtime.backlog
       => link.realtime.age <= node.stampAge + Lag
  /\ link.fresh => link.realtime.backlog

IInv ==
  /\ TypeOK
  /\ link.open \/ wire = <<>>
  /\ OwnReplies(link) /\ StampTells /\ QueueMoves
  /\ RespondingIsRecent /\ NothingFromBefore /\ FaultReachesDiagnostics

(* A step that publishes nothing says nothing wrong.                       *)
LEMMA SilentStep ==
  ASSUME OwnReplies(link)', said'.what \notin {"status", "identity"}
  PROVE  RespondingIsRecent' /\ NothingFromBefore' /\ FaultReachesDiagnostics'
  BY DEF OwnReplies, RespondingIsRecent, NothingFromBefore, FaultReachesDiagnostics

(* A link that is closed keeps nothing of its replies.                     *)
LEMMA ClosedKeeps ==
  ASSUME NEW l \in Link
  PROVE  /\ Closed(l) \in Link /\ ~Closed(l).open /\ OwnReplies(Closed(l))
         /\ ~Closed(l).haveRealtime /\ ~Closed(l).fresh
<1> DEFINE d == Closed(l)
<1>1. NoReply \in [faulty : BOOLEAN, age : Ages, own : BOOLEAN, backlog : BOOLEAN]
  BY LinkAssumption DEF NoReply, Ages
<1>2. /\ d \in Link /\ d.open = FALSE /\ d.haveRealtime = FALSE /\ d.fresh = FALSE
      /\ d.haveIdentity = FALSE
  BY <1>1 DEF Link, Closed
<1> HIDE DEF d
<1> QED
  BY <1>2 DEF OwnReplies, d

(* A link that is opened has nothing yet, and one that an attempt left as  *)
(* it was has what it had.                                                 *)
LEMMA AttemptKeeps ==
  ASSUME simulate \in BOOLEAN, link \in Link, OwnReplies(link),
         NEW attempt \in {"no port", "cannot open", "opened"}
  PROVE  LET d == LinkAfter(attempt)
         IN  /\ d \in Link /\ OwnReplies(d)
             /\ \/ d = link
                \/ ~d.haveRealtime /\ ~d.fresh
<1> DEFINE c == Closed(link)
           d == [c EXCEPT !.open = TRUE, !.simulated = simulate]
<1>1. c \in Link /\ OwnReplies(c) /\ ~c.haveRealtime /\ ~c.fresh
  BY ClosedKeeps
<1> HIDE DEF c
<1>2. /\ d \in Link /\ d.haveRealtime = c.haveRealtime /\ d.fresh = c.fresh
      /\ d.haveIdentity = c.haveIdentity /\ d.identityOwn = c.identityOwn
      /\ d.realtime = c.realtime
  BY <1>1 DEF Link
<1>3. LinkAfter(attempt) \in {link, c, d}
  BY DEF LinkAfter, Opened, c
<1> HIDE DEF d
<1>4. OwnReplies(d)
  BY <1>1, <1>2 DEF OwnReplies
<1> QED
  BY <1>1, <1>2, <1>3, <1>4

(* The state a process starts in.                                          *)
LEMMA InitIInv == Init => IInv
<1> SUFFICES ASSUME Init PROVE IInv
  OBVIOUS
<1>1. NoReply \in [faulty : BOOLEAN, age : Ages, own : BOOLEAN, backlog : BOOLEAN]
  BY LinkAssumption DEF NoReply, Ages
<1>2. /\ link \in Link /\ ~link.haveRealtime /\ ~link.fresh /\ ~link.haveIdentity
  BY <1>1 DEF Init, Link
<1>3. node \in Node /\ node.life = "unconfigured"
  <2>1. MaxAge \in Ages /\ 0 \in 0 .. ReconnectDelay /\ 0 \in 0 .. Lag + 1
    BY LinkAssumption, LagReads DEF Ages
  <2> QED
    BY <2>1 DEF Init, Node, Faults
<1>4. wire \in Seq(Reply) /\ Len(wire) <= Capacity
  BY EmptyWire DEF Init
<1>5. TypeOK
  BY <1>2, <1>3, <1>4 DEF TypeOK, Init, Nothing
<1>6. said.what = "nothing"
  BY DEF Init, Nothing
<1> QED
  BY <1>2, <1>3, <1>5, <1>6
     DEF IInv, Init, OwnReplies, StampTells, QueueMoves, Active,
         RespondingIsRecent, NothingFromBefore, FaultReachesDiagnostics

-----------------------------------------------------------------------------
(* Lifecycle. *)

(* on_configure, with what it reads while it waits for the board.          *)
LEMMA ConfigureStep ==
  ASSUME IInv, NEW attempt \in Attempts, NEW answers \in Answers,
         OnConfigure(attempt, answers)
  PROVE  IInv'
<1> DEFINE l == LinkAfter(attempt)
           d == Dispatched(l, answers, TRUE)
<1>1. simulate \in BOOLEAN /\ attempt \in {"no port", "cannot open", "opened"}
  BY LinkAssumption DEF IInv, TypeOK, Attempts
<1>2. /\ l \in Link /\ OwnReplies(l)
      /\ l = link \/ (~l.haveRealtime /\ ~l.fresh)
  BY <1>1, AttemptKeeps DEF IInv, TypeOK
<1>3. answers \in Seq(Reply)
  <2>1. [kind : Kinds, age : {0}] \subseteq Reply
    BY LinkAssumption DEF Ages, Reply
  <2>2. PICK n \in 0 .. Capacity : answers \in [1 .. n -> [kind : Kinds, age : {0}]]
    BY DEF Answers
  <2>3. n \in Nat
    BY LinkAssumption
  <2>4. answers \in [1 .. n -> Reply]
    BY <2>1, <2>2
  <2> QED
    BY <2>3, <2>4
<1> HIDE DEF l
<1>4. d \in Link /\ OwnReplies(d) /\ KeptFrom(l, d, answers, TRUE)
  BY <1>2, <1>3, DispatchedKeeps
<1> HIDE DEF d
<1>5. /\ wire' = <<>> /\ link' = d /\ said' = Nothing
      /\ node' = [node EXCEPT
           !.life = IF attempt = "opened" THEN "inactive" ELSE "unconfigured",
           !.fault = FaultAfter(attempt)]
      /\ UNCHANGED <<simulate, ticked>>
  BY DEF OnConfigure, d, l
<1>6. node' \in Node /\ node'.stampAge = node.stampAge
  <2>1. FaultAfter(attempt) \in Faults
    BY <1>1 DEF FaultAfter, Faults
  <2> QED
    BY <1>5, <2>1 DEF IInv, TypeOK, Node
<1>7. TypeOK'
  BY <1>4, <1>5, <1>6, EmptyWire DEF IInv, TypeOK, Nothing
<1>8. StampTells'
  BY <1>2, <1>4, <1>5, <1>6 DEF IInv, StampTells, KeptFrom
<1>9. QueueMoves'
  BY <1>5, EmptyWire DEF QueueMoves
<1>10. OwnReplies(link)' /\ said'.what = "nothing"
  BY <1>4, <1>5 DEF OwnReplies, Nothing
<1> QED
  BY <1>5, <1>7, <1>8, <1>9, <1>10, SilentStep DEF IInv

(* on_activate: what waits in the port is what has to be caught up with.   *)
LEMMA ActivateStep ==
  ASSUME IInv, OnActivate PROVE IInv'
<1>1. /\ node' = [node EXCEPT !.life = "active", !.catchUp = Lag + 1]
      /\ said' = Nothing /\ UNCHANGED <<simulate, wire, link, ticked>>
  BY DEF OnActivate
<1>2. node' \in Node /\ node'.stampAge = node.stampAge /\ node'.catchUp = Lag + 1
  <2>1. Lag + 1 \in 0 .. Lag + 1
    BY LagReads
  <2> QED
    BY <1>1, <2>1 DEF IInv, TypeOK, Node
<1>3. TypeOK'
  BY <1>1, <1>2 DEF IInv, TypeOK, Nothing
<1>4. QueueMoves'
  <2>1. ReadMax * (Lag + 1 - node'.catchUp) = 0
    BY <1>2, LagReads, LinkAssumption
  <2>2. \A i \in 1 .. Len(wire) : i + 0 <= Capacity
    BY LinkAssumption DEF IInv, TypeOK
  <2> QED
    BY <1>1, <2>1, <2>2 DEF QueueMoves, Leftover
<1>5. OwnReplies(link)' /\ said'.what = "nothing"
  BY <1>1 DEF IInv, OwnReplies, Nothing
<1> QED
  BY <1>1, <1>2, <1>3, <1>4, <1>5, SilentStep DEF IInv, StampTells

(* on_deactivate: the port stays open.                                     *)
LEMMA DeactivateStep ==
  ASSUME IInv, OnDeactivate PROVE IInv'
<1>1. /\ node' = [node EXCEPT !.life = "inactive", !.catchUp = 0]
      /\ said' = Nothing /\ UNCHANGED <<simulate, wire, link, ticked>>
  BY DEF OnDeactivate
<1>2. node' \in Node /\ node'.stampAge = node.stampAge /\ node'.life = "inactive"
  <2>1. 0 \in 0 .. Lag + 1
    BY LagReads
  <2> QED
    BY <1>1, <2>1 DEF IInv, TypeOK, Node
<1>3. TypeOK'
  BY <1>1, <1>2 DEF IInv, TypeOK, Nothing
<1>4. OwnReplies(link)' /\ said'.what = "nothing"
  BY <1>1 DEF IInv, OwnReplies, Nothing
<1> QED
  BY <1>1, <1>2, <1>3, <1>4, SilentStep DEF IInv, StampTells, QueueMoves, Active

(* A step that closes the port and leaves the stamp.                       *)
LEMMA CloseStep ==
  ASSUME IInv, wire' = <<>>, link' = Closed(link), node' \in Node,
         UNCHANGED simulate, ticked' \in BOOLEAN, said' = Nothing
  PROVE  IInv'
<1>1. /\ link' \in Link /\ ~link'.haveRealtime /\ ~link'.fresh /\ OwnReplies(Closed(link))
  BY ClosedKeeps DEF IInv, TypeOK
<1>2. TypeOK'
  BY <1>1, EmptyWire DEF IInv, TypeOK, Nothing
<1>3. OwnReplies(link)' /\ said'.what = "nothing"
  BY <1>1 DEF OwnReplies, Nothing
<1>4. StampTells' /\ QueueMoves'
  BY <1>1, EmptyWire DEF StampTells, QueueMoves
<1> QED
  BY <1>2, <1>3, <1>4, SilentStep DEF IInv

(* on_cleanup and on_shutdown.                                             *)
LEMMA CleanUpStep ==
  ASSUME IInv, OnCleanup \/ OnShutdown PROVE IInv'
<1>1. PICK life \in {"unconfigured", "finalized"} : CleanedUp(life)
  BY DEF OnCleanup, OnShutdown
<1>2. node' \in Node
  <2>1. 0 \in 0 .. Lag + 1
    BY LagReads
  <2> QED
    BY <1>1, <2>1 DEF CleanedUp, IInv, TypeOK, Node
<1> QED
  BY <1>1, <1>2, CloseStep DEF CleanedUp, IInv, TypeOK

-----------------------------------------------------------------------------
(* Timers. *)

(* What a read takes from the port and what it leaves.                     *)
LEMMA ReadSplits ==
  ASSUME wire \in Seq(Reply)
  PROVE  LET read == SubSeq(wire, 1, PerPoll)
             rest == SubSeq(wire, PerPoll + 1, Len(wire))
         IN  /\ read \in Seq(Reply) /\ Len(read) = PerPoll
             /\ \A i \in 1 .. PerPoll : i \in 1 .. Len(wire) /\ read[i] = wire[i]
             /\ rest \in Seq(Reply) /\ Len(rest) <= Len(wire)
             /\ \A i \in 1 .. Len(rest) : /\ i + ReadMax \in 1 .. Len(wire)
                                          /\ rest[i] = wire[i + ReadMax]
<1> DEFINE p == PerPoll
           n == Len(wire)
           read == SubSeq(wire, 1, p)
           rest == SubSeq(wire, p + 1, n)
<1>1. /\ n \in Nat /\ p \in 0 .. n /\ (p = n \/ p = ReadMax)
      /\ ReadMax \in Nat \ {0}
  BY LinkAssumption DEF PerPoll
<1>2. \A i \in 1 .. n : wire[i] \in Reply
  OBVIOUS
<1> HIDE DEF n, p
<1>3. /\ read \in Seq(Reply) /\ Len(read) = IF 1 <= p THEN p - 1 + 1 ELSE 0
      /\ \A i \in 1 .. p - 1 + 1 : read[i] = wire[1 + i - 1]
  <2>1. \A i \in 1 .. p : wire[i] \in Reply
    BY <1>1, <1>2
  <2> QED
    BY <1>1, <2>1, SubSeqProperties
<1>4. /\ rest \in Seq(Reply) /\ Len(rest) = IF p + 1 <= n THEN n - (p + 1) + 1 ELSE 0
      /\ \A i \in 1 .. n - (p + 1) + 1 : rest[i] = wire[p + 1 + i - 1]
  <2>1. \A i \in p + 1 .. n : wire[i] \in Reply
    BY <1>1, <1>2
  <2> QED
    BY <1>1, <2>1, SubSeqProperties
<1> HIDE DEF read, rest
<1>5. Len(read) = p /\ \A i \in 1 .. p : i \in 1 .. n /\ read[i] = wire[i]
  BY <1>1, <1>3
<1>6. Len(rest) = n - p /\ \A i \in 1 .. n - p : rest[i] = wire[i + p]
  BY <1>1, <1>4
<1>7. ASSUME NEW i \in 1 .. Len(rest)
      PROVE  i + ReadMax \in 1 .. n /\ rest[i] = wire[i + ReadMax]
  <2>1. p = ReadMax
    BY <1>1, <1>6
  <2> QED
    BY <1>1, <1>6, <2>1
<1>8. Len(rest) <= n
  BY <1>1, <1>6
<1> QED
  BY <1>3, <1>4, <1>5, <1>7, <1>8 DEF n, p, read, rest

(* A reply that a poll reads once it has caught up is at most Lag old.     *)
LEMMA ReadInTime ==
  ASSUME IInv, Active, node.catchUp = 0, NEW i \in 1 .. Len(wire)
  PROVE  wire[i].age <= Lag
<1>1. wire[i].age \in Nat
  BY WaitingAge DEF IInv, TypeOK
<1>2. ReadMax \in Nat \ {0} /\ Capacity \in Nat /\ i \in Nat \ {0}
  BY LinkAssumption
<1>3. Timely(i) \/ Leftover(i)
  BY DEF IInv, QueueMoves
<1>4. ~Leftover(i)
  <2>1. ReadMax * (Lag + 1 - node.catchUp) = ReadMax * Lag + ReadMax
    BY <1>2, LagReads
  <2> QED
    BY <1>2, <2>1, LagReads DEF Leftover
<1>5. ReadMax * (wire[i].age - 1) < ReadMax * Lag
  <2> DEFINE a == wire[i].age - (IF ticked THEN 0 ELSE 1)
  <2>1. i + ReadMax * a <= Capacity
    BY <1>3, <1>4 DEF Timely
  <2>2. ReadMax * (wire[i].age - 1) <= ReadMax * a
    BY <1>1, <1>2
  <2>3. a \in Int
    BY <1>1
  <2> HIDE DEF a
  <2>4. ReadMax * a \in Int /\ ReadMax * (wire[i].age - 1) \in Int /\ ReadMax * Lag \in Int
    BY <1>1, <1>2, <2>3, LagReads
  <2> QED
    BY <1>2, <2>1, <2>2, <2>4, LagReads
<1>6. wire[i].age - 1 < Lag
  BY <1>1, <1>2, <1>5, LagReads
<1> QED
  BY <1>1, <1>6, LagReads

(* A poll moves what it leaves in the port up by a read's length.          *)
LEMMA RestMoves ==
  ASSUME IInv, Active, wire' = SubSeq(wire, PerPoll + 1, Len(wire)), ticked' = TRUE,
         node'.catchUp = IF node.catchUp > 0 THEN node.catchUp - 1 ELSE 0
  PROVE  QueueMoves'
<1> SUFFICES ASSUME NEW i \in 1 .. Len(wire') PROVE Timely(i)' \/ Leftover(i)'
  BY DEF QueueMoves
<1> DEFINE j == i + ReadMax
<1>1. /\ wire' \in Seq(Reply) /\ j \in 1 .. Len(wire) /\ wire'[i] = wire[j]
  BY ReadSplits DEF IInv, TypeOK
<1>2. /\ ReadMax \in Nat \ {0} /\ Capacity \in Nat /\ i \in Nat \ {0}
      /\ node.catchUp \in 0 .. Lag + 1 /\ wire[j].age \in Nat
  <2>1. node.catchUp \in 0 .. Lag + 1
    BY DEF IInv, TypeOK, Node
  <2>2. wire[j].age \in Nat
    BY <1>1, WaitingAge DEF IInv, TypeOK
  <2> QED
    BY <2>1, <2>2, LinkAssumption
<1>3. CASE Timely(j)
  <2>1. ReadMax * (wire[j].age - 1) = ReadMax * wire[j].age - ReadMax
    BY <1>2
  <2>2. ReadMax * (wire[j].age - 0) = ReadMax * wire[j].age
    BY <1>2
  <2>3. ReadMax * wire[j].age \in Int
    BY <1>2
  <2>4. i + ReadMax * wire[j].age <= Capacity
    BY <1>2, <1>3, <2>1, <2>2, <2>3 DEF Timely
  <2>5. Timely(i)'
    BY <1>1, <2>2, <2>4 DEF Timely
  <2> QED
    BY <2>5
<1>4. CASE Leftover(j)
  <2> DEFINE k == Lag + 1 - node.catchUp
  <2>1. k \in Int /\ ReadMax * k \in Int /\ ReadMax * (k + 1) = ReadMax * k + ReadMax
    <3>1. k \in Int
      BY <1>2, LagReads
    <3> HIDE DEF k
    <3> QED
      BY <1>2, <3>1
  <2>2. CASE node.catchUp > 0
    <3>1. Lag + 1 - node'.catchUp = k + 1
      BY <1>2, <2>2, LagReads
    <3>2. j + ReadMax * k <= Capacity
      BY <1>4 DEF Leftover
    <3> HIDE DEF k
    <3>3. i + ReadMax * (k + 1) <= Capacity
      BY <1>2, <2>1, <3>2
    <3> QED
      BY <3>1, <3>3 DEF Leftover
  <2>3. CASE node.catchUp = 0
    <3>1. ReadMax * (Lag + 1 - node.catchUp) = ReadMax * Lag + ReadMax
      BY <1>2, <2>3, LagReads
    <3> QED
      BY <1>2, <1>4, <3>1, LagReads DEF Leftover
  <2> QED
    BY <1>2, <2>2, <2>3
<1> QED
  BY <1>1, <1>3, <1>4 DEF IInv, QueueMoves

(* The poll of one control cycle.                                          *)
LEMMA PolledStep ==
  ASSUME IInv, Active, link.open, Polled, ticked' = TRUE, UNCHANGED simulate PROVE IInv'
<1> DEFINE read == SubSeq(wire, 1, PerPoll)
           b == node.catchUp > 0
           l == Dispatched(link, read, b)
<1>1. /\ wire' = SubSeq(wire, PerPoll + 1, Len(wire))
      /\ link' = [l EXCEPT !.fresh = FALSE]
      /\ node' = [node EXCEPT !.stampAge = IF l.fresh THEN 0 ELSE @,
                              !.catchUp = IF @ > 0 THEN @ - 1 ELSE 0]
      /\ said' = Nothing
  BY DEF Polled
<1>2. /\ read \in Seq(Reply) /\ Len(read) = PerPoll
      /\ \A i \in 1 .. PerPoll : i \in 1 .. Len(wire) /\ read[i] = wire[i]
      /\ wire' \in Seq(Reply) /\ Len(wire') <= Len(wire)
  BY <1>1, ReadSplits DEF IInv, TypeOK
<1>3. /\ node.catchUp \in 0 .. Lag + 1 /\ b \in BOOLEAN /\ node.stampAge \in Ages
      /\ link \in Link /\ Len(wire) <= Capacity
  BY DEF IInv, TypeOK, Node
<1> HIDE DEF read, b
<1>4. /\ l \in Link /\ l.open = link.open /\ OwnReplies(l) /\ KeptFrom(link, l, read, b)
  BY <1>2, <1>3, DispatchedKeeps DEF IInv
<1> HIDE DEF l
<1>5. /\ link' \in Link /\ link'.fresh = FALSE /\ link'.open
      /\ link'.haveRealtime = l.haveRealtime /\ link'.realtime = l.realtime
      /\ link'.haveIdentity = l.haveIdentity /\ link'.identityOwn = l.identityOwn
  BY <1>1, <1>4 DEF Link
<1>6. /\ node' \in Node
      /\ node'.stampAge = IF l.fresh THEN 0 ELSE node.stampAge
      /\ node'.catchUp = IF node.catchUp > 0 THEN node.catchUp - 1 ELSE 0
  <2>1. 0 \in Ages /\ (IF node.catchUp > 0 THEN node.catchUp - 1 ELSE 0) \in 0 .. Lag + 1
    BY <1>3, LagReads, LinkAssumption DEF Ages
  <2> QED
    BY <1>1, <2>1 DEF IInv, TypeOK, Node
<1>7. TypeOK'
  <2>1. Len(wire') <= Capacity
    BY <1>2, <1>3, LinkAssumption
  <2> QED
    BY <1>1, <1>2, <1>5, <1>6, <2>1 DEF IInv, TypeOK, Nothing
<1>8. QueueMoves'
  BY <1>1, <1>6, RestMoves
<1>9. ASSUME link'.haveRealtime, ~link'.realtime.backlog
      PROVE  link'.realtime.age <= node'.stampAge + Lag
  <2>1. CASE /\ l.realtime = link.realtime /\ l.haveRealtime = link.haveRealtime
             /\ l.fresh = link.fresh
    <3>1. ~l.fresh
      BY <1>5, <1>9, <2>1 DEF IInv, StampTells
    <3> QED
      BY <1>5, <1>6, <1>9, <2>1, <3>1 DEF IInv, StampTells
  <2>2. CASE /\ l.fresh /\ l.realtime.backlog = b
             /\ \E i \in 1 .. Len(read) : l.realtime.age = read[i].age
    <3>1. node.catchUp = 0
      <4>1. ~b
        BY <1>5, <1>9, <2>2
      <4>2. node.catchUp \in Nat /\ ~(node.catchUp > 0)
        BY <1>3, <4>1, LagReads DEF b
      <4> QED
        BY <4>2
    <3>2. PICK i \in 1 .. Len(wire) : l.realtime.age = wire[i].age
      BY <1>2, <2>2
    <3>3. l.realtime.age <= Lag
      BY <3>1, <3>2, ReadInTime
    <3> QED
      BY <1>5, <1>6, <2>2, <3>3, LagReads
  <2> QED
    BY <1>4, <2>1, <2>2 DEF KeptFrom
<1>10. OwnReplies(link)' /\ StampTells'
  BY <1>4, <1>5, <1>9 DEF OwnReplies, StampTells
<1>11. said'.what = "nothing"
  BY <1>1 DEF Nothing
<1> QED
  BY <1>5, <1>7, <1>8, <1>10, <1>11, SilentStep DEF IInv

(* An attempt to open the port, due or not due yet.                        *)
LEMMA RetryStep ==
  ASSUME IInv, Retry, ticked' = TRUE, UNCHANGED simulate PROVE IInv'
<1>1. PICK attempt \in Attempts :
        /\ link' = LinkAfter(attempt) /\ wire' = <<>>
        /\ node' = [node EXCEPT
             !.fault = FaultAfter(attempt),
             !.retryIn = IF attempt = "opened" THEN @ ELSE ReconnectDelay]
        /\ said' = [what |-> "attempt"]
  BY DEF Retry
<1>2. simulate \in BOOLEAN /\ attempt \in {"no port", "cannot open", "opened"}
  BY LinkAssumption DEF IInv, TypeOK, Attempts
<1>3. /\ link' \in Link /\ OwnReplies(link')
      /\ link' = link \/ (~link'.haveRealtime /\ ~link'.fresh)
  BY <1>1, <1>2, AttemptKeeps DEF IInv, TypeOK
<1>4. node' \in Node /\ node'.stampAge = node.stampAge
  <2>1. FaultAfter(attempt) \in Faults
    BY <1>2 DEF FaultAfter, Faults
  <2>2. ReconnectDelay \in 0 .. ReconnectDelay
    BY LinkAssumption
  <2> QED
    BY <1>1, <2>1, <2>2 DEF IInv, TypeOK, Node
<1>5. said'.what = "attempt"
  BY <1>1
<1>6. TypeOK'
  BY <1>1, <1>3, <1>4, <1>5, EmptyWire DEF IInv, TypeOK
<1>7. StampTells' /\ QueueMoves' /\ OwnReplies(link)'
  BY <1>1, <1>3, <1>4, EmptyWire DEF IInv, StampTells, QueueMoves, OwnReplies
<1> QED
  BY <1>1, <1>5, <1>6, <1>7, SilentStep DEF IInv

(* A control callback that still waits for its next attempt touches        *)
(* nothing but the clock.                                                  *)
LEMMA WaitStep ==
  ASSUME IInv, Wait, ~link.open, ticked' = TRUE, UNCHANGED simulate PROVE IInv'
<1>1. /\ wire = <<>> /\ said' = Nothing /\ UNCHANGED <<wire, link, node>>
  BY DEF Wait, IInv
<1>2. TypeOK' /\ said'.what = "nothing"
  BY <1>1 DEF IInv, TypeOK, Nothing
<1>3. StampTells' /\ QueueMoves' /\ OwnReplies(link)'
  BY <1>1, EmptyWire DEF IInv, StampTells, QueueMoves, OwnReplies
<1> QED
  BY <1>1, <1>2, <1>3, SilentStep DEF IInv

(* noteLinkLost leaves a node with a reason and a delay.                   *)
LEMMA LostStep ==
  ASSUME IInv, NoteLinkLost, said' = Nothing, ticked' \in BOOLEAN, UNCHANGED simulate
  PROVE  IInv'
<1>1. node' \in Node
  <2>1. "lost" \in Faults /\ ReconnectDelay \in 0 .. ReconnectDelay
    BY LinkAssumption DEF Faults
  <2> QED
    BY <2>1 DEF NoteLinkLost, IInv, TypeOK, Node
<1> QED
  BY <1>1, CloseStep DEF NoteLinkLost

(* controlTick as a whole.                                                 *)
LEMMA ControlTickStep ==
  ASSUME IInv, NEW ok \in BOOLEAN, ControlTick(ok) PROVE IInv'
<1>1. Active /\ ticked' = TRUE /\ UNCHANGED simulate
  BY DEF ControlTick
<1>2. \/ ~link.open /\ Retry
      \/ ~link.open /\ Wait
      \/ link.open /\ Polled
      \/ NoteLinkLost /\ said' = Nothing
  BY DEF ControlTick
<1> QED
  BY <1>1, <1>2, RetryStep, WaitStep, PolledStep, LostStep

(* A step that leaves the link, the port and the clock as they are keeps   *)
(* what the invariant says of them.                                        *)
LEMMA AsideStep ==
  ASSUME IInv, UNCHANGED <<simulate, wire, link, ticked>>, node' \in Node,
         node'.life = node.life, node'.stampAge = node.stampAge,
         node'.catchUp = node.catchUp,
         said'.what \in {"nothing", "attempt", "identity", "status"}
  PROVE  /\ TypeOK' /\ (link.open \/ wire = <<>>)' /\ OwnReplies(link)'
         /\ StampTells' /\ QueueMoves'
<1>1. TypeOK' /\ (link.open \/ wire = <<>>)' /\ OwnReplies(link)'
  BY DEF IInv, TypeOK, OwnReplies
<1>2. StampTells'
  BY DEF IInv, StampTells
<1>3. QueueMoves'
  BY DEF IInv, QueueMoves, Active, Timely, Leftover
<1> QED
  BY <1>1, <1>2, <1>3

(* boardInfoTick publishes an identity.                                    *)
LEMMA BoardInfoStep ==
  ASSUME IInv, BoardInfoTick PROVE IInv'
<1>1. /\ node' = [node EXCEPT !.infoPublished = TRUE]
      /\ said' = [what |-> "identity", own |-> link.identityOwn]
      /\ link.haveIdentity /\ UNCHANGED <<simulate, wire, link, ticked>>
  BY DEF BoardInfoTick
<1>2. /\ node' \in Node /\ node'.life = node.life
      /\ node'.stampAge = node.stampAge /\ node'.catchUp = node.catchUp
  BY <1>1 DEF IInv, TypeOK, Node
<1>3. said'.what = "identity" /\ said'.own = link.identityOwn /\ link.identityOwn
  BY <1>1 DEF IInv, OwnReplies
<1>4. /\ TypeOK' /\ (link.open \/ wire = <<>>)' /\ OwnReplies(link)'
      /\ StampTells' /\ QueueMoves'
  BY <1>1, <1>2, <1>3, AsideStep
<1>5. RespondingIsRecent' /\ NothingFromBefore' /\ FaultReachesDiagnostics'
  BY <1>3, <1>4 DEF OwnReplies, RespondingIsRecent, NothingFromBefore,
                    FaultReachesDiagnostics
<1> QED
  BY <1>4, <1>5 DEF IInv

(* statusTick has a reason to give.                                        *)
Reasoned == FaultNow # ""

(* The diagnostics repeat the reason the status gives, whenever diagnose   *)
(* reads the clock.                                                        *)
LEMMA DiagnosisRepeats ==
  ASSUME link \in Link, node \in Node, NEW later \in {0, 1}, Reasoned
  PROVE  /\ Diagnosis(FaultNow, later).level # "OK"
         /\ Diagnosis(FaultNow, later).message = FaultNow
<1>1. node.stampAge \in Int /\ Fresh \in Int
  <2>1. node.stampAge \in Ages
    BY DEF Node
  <2>2. node.stampAge \in Int
    BY <2>1 DEF Ages
  <2>3. Fresh \in Int
    BY LinkAssumption
  <2> QED
    BY <2>2, <2>3
<1>2. CASE ~link.open
  BY <1>2 DEF Diagnosis
<1>3. CASE link.open /\ link.haveRealtime /\ link.realtime.faulty
  BY <1>3 DEF Diagnosis
<1>4. CASE link.open /\ ~(link.haveRealtime /\ link.realtime.faulty)
  <2>1. ~Responding /\ FaultNow = "not answering"
    BY <1>4 DEF FaultNow, Reasoned
  <2>2. ~link.haveRealtime \/ ~(node.stampAge <= Fresh)
    BY <2>1 DEF Responding
  <2>3. ~(node.stampAge <= Fresh) => node.stampAge + later > Fresh
    <3>1. later \in Int /\ later >= 0
      OBVIOUS
    <3> QED
      BY <1>1, <3>1
  <2> QED
    BY <1>4, <2>1, <2>2, <2>3 DEF Diagnosis
<1> QED
  BY <1>2, <1>3, <1>4

(* statusTick: what it says of the link is what the link can vouch for.    *)
LEMMA StatusStep ==
  ASSUME IInv, NEW later \in {0, 1}, StatusTick(later) PROVE IInv'
<1> DEFINE o == node.infoPublished \/ ~link.haveIdentity \/ link.identityOwn
           d == Diagnosis(FaultNow, later)
<1>1. /\ node' = [node EXCEPT !.fault = FaultNow,
                              !.infoPublished = @ \/ link.haveIdentity]
      /\ said' = [what |-> "status", responding |-> Responding, fault |-> FaultNow,
                  diagnosis |-> d, own |-> o]
      /\ UNCHANGED <<simulate, wire, link, ticked>>
  BY DEF StatusTick
<1>2. node \in Node /\ link \in Link
  BY DEF IInv, TypeOK
<1>3. FaultNow \in Faults
  BY <1>2 DEF FaultNow, Faults, Node
<1>4. /\ node' \in Node /\ node'.life = node.life
      /\ node'.stampAge = node.stampAge /\ node'.catchUp = node.catchUp
  BY <1>1, <1>2, <1>3 DEF Node, Link
<1>5. /\ said'.what = "status" /\ said'.responding = Responding
      /\ said'.fault = FaultNow /\ said'.diagnosis = d /\ said'.own = o
  BY <1>1
<1>6. o
  BY DEF IInv, OwnReplies
<1> HIDE DEF d, o
<1>7. /\ TypeOK' /\ (link.open \/ wire = <<>>)' /\ OwnReplies(link)'
      /\ StampTells' /\ QueueMoves'
  BY <1>1, <1>4, <1>5, AsideStep
<1>8. RespondingIsRecent'
  <2> SUFFICES ASSUME Responding, ~link.realtime.backlog
               PROVE  link.realtime.age <= Fresh + Lag
    BY <1>1, <1>5 DEF RespondingIsRecent
  <2>1. link.realtime.age <= node.stampAge + Lag /\ node.stampAge <= Fresh
    BY DEF IInv, StampTells, Responding
  <2>2. link.realtime.age \in Int /\ node.stampAge \in Int /\ Fresh \in Int
    BY <1>2, LinkAssumption DEF Link, Node, Ages
  <2> QED
    BY <2>1, <2>2, LagReads
<1>9. NothingFromBefore'
  BY <1>5, <1>6, <1>7 DEF OwnReplies, NothingFromBefore
<1>10. FaultReachesDiagnostics'
  BY <1>2, <1>5, DiagnosisRepeats DEF FaultReachesDiagnostics, Reasoned, d
<1> QED
  BY <1>7, <1>8, <1>9, <1>10 DEF IInv

-----------------------------------------------------------------------------
(* The far end, and time. *)

(* A reply that arrives is the last in the port.                           *)
LEMMA BoardStep ==
  ASSUME IInv, NEW kind \in Kinds, BoardSends(kind) PROVE IInv'
<1> DEFINE r == [kind |-> kind, age |-> 0]
<1>1. /\ Len(wire) < Capacity /\ wire' = Append(wire, r) /\ said' = Nothing
      /\ link.open /\ UNCHANGED <<simulate, link, node, ticked>>
  BY DEF BoardSends
<1>2. r \in Reply /\ r.age = 0
  BY LinkAssumption DEF Reply, Ages
<1> HIDE DEF r
<1>3. wire \in Seq(Reply) /\ Len(wire) \in Nat
  BY DEF IInv, TypeOK
<1>4. /\ wire' \in Seq(Reply) /\ Len(wire') = Len(wire) + 1
      /\ wire'[Len(wire) + 1] = r /\ \A i \in 1 .. Len(wire) : wire'[i] = wire[i]
  BY <1>1, <1>2, <1>3, AppendProperties
<1>5. TypeOK' /\ said'.what = "nothing"
  BY <1>1, <1>3, <1>4, LinkAssumption DEF IInv, TypeOK, Nothing
<1>6. QueueMoves'
  <2> SUFFICES ASSUME Active, NEW i \in 1 .. Len(wire')
               PROVE  Timely(i)' \/ Leftover(i)'
    BY <1>1 DEF QueueMoves, Active
  <2>1. CASE i \in 1 .. Len(wire)
    BY <1>1, <1>4, <2>1 DEF IInv, QueueMoves, Timely, Leftover
  <2>2. CASE i = Len(wire) + 1
    <3>1. wire'[i].age = 0 /\ i <= Capacity /\ i \in Nat
      BY <1>1, <1>2, <1>3, <1>4, <2>2, LinkAssumption
    <3>2. ReadMax * (0 - 0) = 0 /\ ReadMax * (0 - 1) <= 0 /\ ReadMax * (0 - 1) \in Int
      BY LinkAssumption
    <3> QED
      BY <1>1, <3>1, <3>2, LinkAssumption DEF Timely
  <2> QED
    BY <1>3, <1>4, <2>1, <2>2
<1>7. OwnReplies(link)' /\ StampTells'
  BY <1>1 DEF IInv, OwnReplies, StampTells
<1> QED
  BY <1>1, <1>5, <1>6, <1>7, SilentStep DEF IInv

(* Everything grows older together.                                        *)
LEMMA AdvanceStep ==
  ASSUME IInv, Advance PROVE IInv'
<1> DEFINE t == [link.realtime EXCEPT !.age = Older(@)]
<1>1. /\ Active => ticked
      /\ wire' = [i \in 1 .. Len(wire) |-> [wire[i] EXCEPT !.age = Older(@)]]
      /\ link' = [link EXCEPT !.realtime.age = Older(@)]
      /\ node' = [node EXCEPT !.stampAge = Older(@),
                              !.retryIn = IF @ > 0 THEN @ - 1 ELSE 0]
      /\ ticked' = FALSE /\ said' = Nothing /\ UNCHANGED simulate
  BY DEF Advance
<1>2. /\ wire \in Seq(Reply) /\ link \in Link /\ node \in Node /\ Len(wire) \in Nat
  BY DEF IInv, TypeOK
<1>3. ASSUME NEW i \in 1 .. Len(wire)
      PROVE  /\ [wire[i] EXCEPT !.age = Older(@)] \in Reply
             /\ [wire[i] EXCEPT !.age = Older(@)].age = Older(wire[i].age)
  BY <1>2, WaitingAge, OlderType DEF Reply
<1>4. /\ wire' \in Seq(Reply) /\ Len(wire') = Len(wire)
      /\ \A i \in 1 .. Len(wire) : wire'[i].age = Older(wire[i].age)
  <2>1. wire' \in [1 .. Len(wire) -> Reply]
    BY <1>1, <1>3
  <2>2. wire' \in Seq(Reply) /\ Len(wire') = Len(wire)
    BY <1>2, <2>1
  <2> QED
    BY <1>1, <1>3, <2>2
<1>5. link.realtime.age \in Ages /\ Older(link.realtime.age) \in Ages
  BY <1>2, OlderType DEF Link
<1>6. t \in [faulty : BOOLEAN, age : Ages, own : BOOLEAN, backlog : BOOLEAN]
      /\ t.age = Older(link.realtime.age) /\ t.own = link.realtime.own
      /\ t.backlog = link.realtime.backlog
  BY <1>2, <1>5 DEF Link
<1>7. link' = [link EXCEPT !.realtime = t]
  BY <1>1, <1>2 DEF Link
<1> HIDE DEF t
<1>8. /\ link' \in Link /\ link'.realtime = t /\ link'.open = link.open
      /\ link'.haveRealtime = link.haveRealtime /\ link'.fresh = link.fresh
      /\ link'.haveIdentity = link.haveIdentity /\ link'.identityOwn = link.identityOwn
  BY <1>2, <1>6, <1>7 DEF Link
<1>9. /\ node' \in Node /\ node'.stampAge = Older(node.stampAge)
      /\ node'.catchUp = node.catchUp /\ node'.life = node.life
  <2>1. Older(node.stampAge) \in Ages
    BY <1>2, OlderType DEF Node
  <2>2. (IF node.retryIn > 0 THEN node.retryIn - 1 ELSE 0) \in 0 .. ReconnectDelay
    BY <1>2, LinkAssumption DEF Node
  <2> QED
    BY <1>1, <1>2, <2>1, <2>2 DEF Node
<1>10. TypeOK' /\ said'.what = "nothing"
  BY <1>1, <1>4, <1>8, <1>9 DEF IInv, TypeOK, Nothing
<1>11. (link.open \/ wire = <<>>)'
  <2>1. CASE wire = <<>>
    <3>1. Len(wire') = 0
      BY <1>4, <2>1
    <3> QED
      BY <1>4, <3>1
  <2> QED
    BY <1>8, <2>1 DEF IInv
<1>12. OwnReplies(link)'
  BY <1>6, <1>8 DEF IInv, OwnReplies
<1>13. StampTells'
  <2> SUFFICES ASSUME link.haveRealtime, ~link.realtime.backlog
               PROVE  Older(link.realtime.age) <= Older(node.stampAge) + Lag
    BY <1>6, <1>8, <1>9 DEF IInv, StampTells
  <2>1. link.realtime.age <= node.stampAge + Lag
    BY DEF IInv, StampTells
  <2>2. node.stampAge \in 0 .. MaxAge /\ link.realtime.age \in 0 .. MaxAge /\ MaxAge \in Nat
    BY <1>2, <1>5, LinkAssumption DEF Node, Ages
  <2> QED
    BY <2>1, <2>2, LagReads DEF Older
<1>14. QueueMoves'
  <2> SUFFICES ASSUME Active, NEW i \in 1 .. Len(wire)
               PROVE  Timely(i)' \/ Leftover(i)'
    BY <1>4, <1>9 DEF QueueMoves, Active
  <2>1. wire[i].age \in Ages /\ wire[i].age \in Nat
    BY <1>2, WaitingAge
  <2>2. Older(wire[i].age) \in Nat /\ Older(wire[i].age) - 1 <= wire[i].age
    <3>1. Older(wire[i].age) \in Ages /\ Older(wire[i].age) <= wire[i].age + 1
      BY <2>1, OlderType
    <3>2. Older(wire[i].age) \in Nat
      BY <3>1, LinkAssumption DEF Ages
    <3> QED
      BY <2>1, <3>1, <3>2
  <2>3. CASE Timely(i)
    <3> DEFINE a == wire[i].age
               b == Older(wire[i].age)
    <3>1. i + ReadMax * (a - 0) <= Capacity
      BY <1>1, <2>3 DEF Timely
    <3>2. ReadMax * (b - 1) <= ReadMax * (a - 0)
      <4>1. a \in Nat /\ b \in Nat /\ b - 1 <= a - 0 /\ ReadMax \in Nat
        BY <2>1, <2>2, LinkAssumption
      <4> HIDE DEF a, b
      <4> QED
        BY <4>1
    <3>3. ReadMax * (b - 1) \in Int /\ ReadMax * (a - 0) \in Int
      <4>1. a \in Nat /\ b \in Nat /\ ReadMax \in Nat
        BY <2>1, <2>2, LinkAssumption
      <4> HIDE DEF a, b
      <4> QED
        BY <4>1
    <3>4. wire'[i].age = b
      BY <1>4
    <3> HIDE DEF a, b
    <3>5. i + ReadMax * (b - 1) <= Capacity
      BY <3>1, <3>2, <3>3, LinkAssumption
    <3> QED
      BY <1>1, <3>4, <3>5 DEF Timely
  <2>4. CASE Leftover(i)
    BY <1>9, <2>4 DEF Leftover
  <2> QED
    BY <2>3, <2>4 DEF IInv, QueueMoves
<1> QED
  BY <1>10, <1>11, <1>12, <1>13, <1>14, SilentStep DEF IInv

-----------------------------------------------------------------------------
(* Every step keeps the invariant.                                         *)
LEMMA StepIInv == IInv /\ [Next]_vars => IInv'
<1> SUFFICES ASSUME IInv, [Next]_vars PROVE IInv'
  OBVIOUS
<1>1. CASE \E attempt \in Attempts, answers \in Answers : OnConfigure(attempt, answers)
  BY <1>1, ConfigureStep
<1>2. CASE OnActivate
  BY <1>2, ActivateStep
<1>3. CASE OnDeactivate
  BY <1>3, DeactivateStep
<1>4. CASE OnCleanup \/ OnShutdown
  BY <1>4, CleanUpStep
<1>5. CASE \E ok \in BOOLEAN : ControlTick(ok)
  BY <1>5, ControlTickStep
<1>6. CASE TelemetryTickFails
  <2>1. ticked' \in BOOLEAN
    BY <1>6 DEF TelemetryTickFails, IInv, TypeOK
  <2> QED
    BY <1>6, <2>1, LostStep DEF TelemetryTickFails
<1>7. CASE BoardInfoTick
  BY <1>7, BoardInfoStep
<1>8. CASE \E later \in {0, 1} : StatusTick(later)
  BY <1>8, StatusStep
<1>9. CASE \E kind \in Kinds : BoardSends(kind)
  BY <1>9, BoardStep
<1>10. CASE Advance
  BY <1>10, AdvanceStep
<1>11. CASE UNCHANGED vars
  BY <1>11
     DEF vars, IInv, TypeOK, OwnReplies, StampTells, QueueMoves, Active, Timely,
         Leftover, RespondingIsRecent, NothingFromBefore, FaultReachesDiagnostics
<1> QED
  BY <1>1, <1>2, <1>3, <1>4, <1>5, <1>6, <1>7, <1>8, <1>9, <1>10, <1>11 DEF Next

(* The link, the port and the stamp agree in every state.                  *)
THEOREM Inductive == Spec => []IInv
  BY InitIInv, StepIInv, PTL DEF Spec

(* The link and what is reported of it keep their types, for any size of   *)
(* the buffer and of a read: no reply is lost track of.                    *)
THEOREM LinkTypeCorrect == Spec => []TypeOK
<1>1. IInv => TypeOK
  BY DEF IInv
<1> QED
  BY <1>1, Inductive, PTL

(* A board that is reported as responding sent its last reply within       *)
(* angle_fresh_timeout and the periods it takes to read a full buffer.     *)
THEOREM RespondingMeansRecent == Spec => []RespondingIsRecent
<1>1. IInv => RespondingIsRecent
  BY DEF IInv
<1> QED
  BY <1>1, Inductive, PTL

(* Nothing is vouched for, and no identity published, that came over an    *)
(* earlier connection.                                                     *)
THEOREM NothingSurvivesReconnect == Spec => []NothingFromBefore
<1>1. IInv => NothingFromBefore
  BY DEF IInv
<1> QED
  BY <1>1, Inductive, PTL

(* A fault in the status message is what the diagnostics say.              *)
THEOREM FaultIsDiagnosed == Spec => []FaultReachesDiagnostics
<1>1. IInv => FaultReachesDiagnostics
  BY DEF IInv
<1> QED
  BY <1>1, Inductive, PTL
=============================================================================
