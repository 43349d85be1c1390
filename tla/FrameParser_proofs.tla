------------------------- MODULE FrameParser_proofs -------------------------
(***************************************************************************)
(* Proofs about FrameParser, for any number of values of a byte and any    *)
(* messages.                                                               *)
(***************************************************************************)
EXTENDS FrameParser, Recursion_proofs, SequenceTheorems

-----------------------------------------------------------------------------
(* Bytes and sums. *)

(* The largest frame is a header of four, a payload, and its checksum;     *)
(* sums modulo Base are bytes.                                             *)
LEMMA ByteFacts ==
  /\ Base \in Nat /\ Base > 1 /\ Start \in Byte
  /\ MaxFrame = Base + 4
  /\ \A a, c \in Byte : (a + c) % Base \in Byte
<1>1. Base \in Nat /\ Base > 1 /\ Start \in Byte
  BY FrameAssumption
<1>2. ASSUME NEW a \in Byte, NEW c \in Byte PROVE (a + c) % Base \in Byte
  <2>1. a + c \in Int
    BY <1>1 DEF Byte
  <2> QED
    BY <1>1, <2>1 DEF Byte
<1> QED
  BY <1>1, <1>2 DEF MaxFrame, MaxPayload

(* Two runs of bytes joined.                                               *)
LEMMA Joined ==
  ASSUME NEW s \in Seq(Byte), NEW t \in Seq(Byte)
  PROVE  s \o t \in Seq(Byte) /\ Len(s \o t) = Len(s) + Len(t)
  OBVIOUS

(* A run of bytes is empty when its length is zero.                        *)
LEMMA EmptyBytes ==
  ASSUME NEW s \in Seq(Byte)
  PROVE  s = <<>> <=> Len(s) = 0
  OBVIOUS

(* Byte by byte: d is s and then t.                                        *)
Join(s, t, d) ==
  /\ d \in Seq(Byte) /\ Len(d) = Len(s) + Len(t)
  /\ \A k \in 1 .. Len(s) : d[k] = s[k]
  /\ \A k \in 1 .. Len(t) : d[Len(s) + k] = t[k]

(* Concatenation is that run.                                              *)
LEMMA JoinedParts ==
  ASSUME NEW s \in Seq(Byte), NEW t \in Seq(Byte)
  PROVE  Join(s, t, s \o t)
<1> DEFINE d == s \o t
<1>1. d \in Seq(Byte) /\ Len(d) = Len(s) + Len(t)
  BY Joined
<1>2. Len(s) \in Nat /\ Len(t) \in Nat
  OBVIOUS
<1>3. \A k \in 1 .. Len(s) + Len(t) : d[k] = IF k <= Len(s) THEN s[k] ELSE t[k - Len(s)]
  BY ConcatProperties
<1> HIDE DEF d
<1>4. ASSUME NEW k \in 1 .. Len(s) PROVE d[k] = s[k]
  BY <1>2, <1>3
<1>5. ASSUME NEW k \in 1 .. Len(t) PROVE d[Len(s) + k] = t[k]
  <2>1. /\ Len(s) + k \in 1 .. Len(s) + Len(t) /\ ~(Len(s) + k <= Len(s))
        /\ Len(s) + k - Len(s) = k
    BY <1>2
  <2> QED
    BY <1>3, <2>1
<1>6. Join(s, t, d)
  BY <1>1, <1>4, <1>5 DEF Join
<1> QED
  BY <1>6 DEF d

(* sum_mod256 gives a byte.                                                *)
LEMMA SumType ==
  ASSUME NEW bytes \in Seq(Byte)
  PROVE  Sum(bytes) \in Byte
<1> DEFINE N == Len(bytes)
           Plus(x, n) == (x + bytes[n]) % Base
           turn == [n \in 1 .. N |-> [x \in Byte |-> Plus(x, n)]]
           Runs(f) == f = [n \in 0 .. N |-> IF n = 0 THEN 0 ELSE Plus(f[n - 1], n)]
           g == CHOOSE f : Runs(f)
<1>1. N \in Nat /\ \A n \in 1 .. N : bytes[n] \in Byte
  OBVIOUS
<1> HIDE DEF N
<1>2. 0 \in Byte /\ \A n \in 1 .. N, x \in Byte : Plus(x, n) \in Byte
  <2>1. 0 \in Byte
    BY ByteFacts DEF Byte
  <2> QED
    BY <1>1, <2>1, ByteFacts
<1>c. Sum(bytes) = (CHOOSE f : Runs(f))[Len(bytes)]
  BY DEF Sum, N
<1> HIDE DEF Plus
<1>t. Turns(N, Byte, turn)
  BY <1>2 DEF Turns
<1>3. PICK f : Run(N, Byte, 0, turn, f)
  <2> HIDE DEF turn
  <2> QED
    BY <1>1, <1>2, <1>t, RunExists
<1>4. f \in [0 .. N -> Byte] /\ f[0] = 0
  BY <1>3 DEF Run
<1>5. Runs(f)
  <2>1. ASSUME NEW n \in 1 .. N
        PROVE  f[n] = Plus(f[n - 1], n)
    <3>1. n - 1 \in 0 .. N
      BY <1>1
    <3>2. f[n - 1] \in Byte
      BY <1>4, <3>1
    <3> QED
      BY <1>3, <3>2 DEF Run
  <2> HIDE DEF turn
  <2>2. f = [n \in 0 .. N |-> f[n]]
    BY <1>4
  <2>3. ASSUME NEW n \in 0 .. N
        PROVE  f[n] = IF n = 0 THEN 0 ELSE Plus(f[n - 1], n)
    <3>1. n = 0 \/ n \in 1 .. N
      BY <1>1
    <3> QED
      BY <1>4, <2>1, <3>1
  <2> QED
    BY <2>2, <2>3
<1>6. Runs(g)
  <2> HIDE DEF Runs
  <2> QED
    BY <1>5
<1>7. Sum(bytes) = g[N]
  BY <1>c DEF N
<1>8. g[0] = 0 /\ \A n \in 1 .. N : g[n] = Plus(g[n - 1], n)
  <2> HIDE DEF g
  <2> QED
    BY <1>1, <1>6
<1> HIDE DEF g, turn, Runs
<1> DEFINE T == {n \in 0 .. N : g[n] \in Byte}
<1>9. 0 \in T
  BY <1>1, <1>2, <1>8
<1>10. ASSUME NEW n \in 1 .. N, n - 1 \in T PROVE n \in T
  BY <1>1, <1>2, <1>8, <1>10
<1> HIDE DEF T
<1>11. N \in T
  <2>1. \A n \in 0 .. N : n \in T
    BY <1>1, <1>9, <1>10, Counting
  <2> QED
    BY <1>1, <2>1
<1> QED
  BY <1>7, <1>11 DEF T

(* What the far end sends are bytes.                                       *)
LEMMA EncodeType ==
  ASSUME NEW m \in Messages
  PROVE  Encode(m) \in Seq(Byte) /\ Len(Encode(m)) = Len(m.payload) + 5
<1> DEFINE pay  == m.payload
           n    == Len(pay)
           head == <<Start, m.id, n, HeaderSum(m.id, n)>>
           tail == <<Sum(pay)>>
<1>1. m.id \in Byte /\ pay \in Seq(Byte) /\ n \in Nat /\ n <= MaxPayload
  BY FrameAssumption
<1>2. n \in Byte
  BY <1>1, ByteFacts DEF Byte, MaxPayload
<1>3. head \in Seq(Byte)
  <2>1. HeaderSum(m.id, n) \in Byte
    BY <1>1, <1>2, ByteFacts DEF HeaderSum
  <2> QED
    BY <1>1, <1>2, <2>1, ByteFacts
<1>4. tail \in Seq(Byte)
  BY <1>1, SumType
<1>5. Encode(m) = (head \o pay) \o tail /\ Len(head) = 4 /\ Len(tail) = 1
  BY DEF Encode
<1> HIDE DEF head, tail, pay
<1>6. head \o pay \in Seq(Byte) /\ Len(head \o pay) = Len(head) + Len(pay)
  BY <1>1, <1>3, Joined
<1>7. /\ (head \o pay) \o tail \in Seq(Byte)
      /\ Len((head \o pay) \o tail) = Len(head \o pay) + Len(tail)
  BY <1>4, <1>6, Joined
<1>8. Encode(m) \in Seq(Byte) /\ Len(Encode(m)) = n + 5
  BY <1>1, <1>5, <1>6, <1>7
<1> QED
  BY <1>8 DEF pay

-----------------------------------------------------------------------------
(* The types. *)

Rest   == [bytes : Seq(Byte), msg : Messages \cup {<<>>}]
Supply == line \in Seq(Byte) /\ rest \in Rest

(* The buffer with one byte more.                                          *)
LEMMA Longer ==
  ASSUME NEW b \in Seq(Byte), NEW byte \in Byte
  PROVE  /\ Append(b, byte) \in Seq(Byte)
         /\ Len(Append(b, byte)) = Len(b) + 1
         /\ Append(b, byte)[Len(b) + 1] = byte
         /\ \A k \in 1 .. Len(b) : Append(b, byte)[k] = b[k]
  BY AppendProperties

(* What a header says does not change when bytes are added behind it.      *)
LEMMA HeaderStays ==
  ASSUME NEW b \in Seq(Byte), NEW byte \in Byte, Len(b) >= 4
  PROVE  /\ HeaderHolds(Append(b, byte)) <=> HeaderHolds(b)
         /\ Append(b, byte)[1] = b[1] /\ Append(b, byte)[2] = b[2]
         /\ Append(b, byte)[3] = b[3] /\ b[2] \in Byte /\ b[3] \in Byte
<1> DEFINE c == Append(b, byte)
<1>1. \A k \in 1 .. Len(b) : c[k] = b[k]
  BY Longer
<1> HIDE DEF c
<1>2. c[1] = b[1] /\ c[2] = b[2] /\ c[3] = b[3] /\ c[4] = b[4]
  BY <1>1
<1>3. b[2] \in Byte /\ b[3] \in Byte
  OBVIOUS
<1> QED
  BY <1>2, <1>3 DEF HeaderHolds, c

(* A byte of a sequence.                                                   *)
LEMMA AnyByte ==
  ASSUME NEW b \in Seq(Byte), NEW k \in 1 .. Len(b)
  PROVE  b[k] \in Byte
  OBVIOUS

(* What TypeOK says of a buffer and of the length it waits for.            *)
Short(b, e) == Len(b) < 4 => e = 0
Known(b, e) == Len(b) >= 4 => HeaderHolds(b) /\ e = 4 + b[3] + 1 /\ Len(b) < e
Buffer(b, e) ==
  /\ b \in Seq(Byte) /\ Len(b) < MaxFrame
  /\ b # <<>> => b[1] = Start
  /\ Short(b, e) /\ Known(b, e)

(* TypeOK says that of the parser's buffer, before a step and after it.    *)
LEMMA TypedBuffer ==
  /\ TypeOK <=> Buffer(buf, expect)
  /\ TypeOK' <=> Buffer(buf', expect')
<1>1. ASSUME NEW b, NEW e, b \in Seq(Byte)
      PROVE  (IF Len(b) < 4 THEN e = 0
              ELSE HeaderHolds(b) /\ e = 4 + b[3] + 1 /\ Len(b) < e)
             <=> Short(b, e) /\ Known(b, e)
  <2>1. Len(b) \in Nat
    BY <1>1
  <2> QED
    BY <2>1 DEF Short, Known
<1>2. TypeOK <=> Buffer(buf, expect)
  BY <1>1 DEF TypeOK, Buffer
<1>3. TypeOK' <=> Buffer(buf', expect')
  BY <1>1 DEF TypeOK, Buffer
<1> QED
  BY <1>2, <1>3

(* One byte more.                                                          *)
LEMMA PushTypes ==
  ASSUME TypeOK, line \in Seq(Byte), NEW byte \in Byte, Push(byte)
  PROVE  TypeOK' /\ line' \in Seq(Byte)
<1> DEFINE b == Append(buf, byte)
<1>1. line' \in Seq(Byte)
  BY DEF Push
<1> SUFFICES Buffer(buf', expect')
  BY <1>1, TypedBuffer
<1>2. buf \in Seq(Byte) /\ Len(buf) < MaxFrame /\ Len(buf) \in Nat
      /\ (buf # <<>> => buf[1] = Start)
      /\ Short(buf, expect) /\ Known(buf, expect)
  BY TypedBuffer DEF Buffer
<1>3. b \in Seq(Byte) /\ Len(b) = Len(buf) + 1 /\ \A k \in 1 .. Len(buf) : b[k] = buf[k]
  BY <1>2, Longer
<1>4. buf # <<>> => Len(buf) > 0 /\ b[1] = Start
  BY <1>2, <1>3
<1>5. /\ <<>> \in Seq(Byte) /\ Len(<<>>) = 0 /\ MaxFrame > 5 /\ Base \in Nat
      /\ MaxFrame = Base + 4
  BY ByteFacts
<1> HIDE DEF b
<1>6. ASSUME Leaves(<<>>, 0) PROVE Buffer(buf', expect')
  BY <1>5, <1>6 DEF Leaves, Buffer, Short, Known
<1>7. CASE Hunt(byte)
  <2>1. CASE byte = Start
    <3>1. <<byte>> \in Seq(Byte) /\ Len(<<byte>>) = 1 /\ <<byte>>[1] = Start
      BY <2>1
    <3>2. buf' = <<byte>> /\ expect' = 0
      BY <1>7, <2>1 DEF Hunt, Leaves
    <3> QED
      BY <1>5, <3>1, <3>2 DEF Buffer, Short, Known
  <2>2. CASE byte # Start
    <3>1. buf = <<>> /\ buf' = <<>> /\ expect' = expect
      BY <1>7, <2>2 DEF Hunt, Leaves
    <3>2. expect = 0
      BY <1>2, <1>5, <3>1 DEF Short
    <3> QED
      BY <1>5, <3>1, <3>2 DEF Buffer, Short, Known
  <2> QED
    BY <2>1, <2>2
<1>8. CASE Collect(byte)
  <2>1. buf # <<>> /\ Len(b) # 4 /\ Len(b) # expect
    BY <1>8 DEF Collect, b
  <2>2. CASE Len(b) >= MaxFrame
    BY <1>6, <1>8, <2>2 DEF Collect, b
  <2>3. CASE Len(b) < MaxFrame
    <3>1. buf' = b /\ expect' = expect
      BY <1>3, <1>5, <1>8, <2>3 DEF Collect, Leaves, b
    <3>2. CASE Len(buf) < 4
      <4>1. expect = 0 /\ Len(b) < 4
        BY <1>2, <1>3, <2>1, <3>2 DEF Short
      <4>2. b[1] = Start
        BY <1>4, <2>1
      <4>3. Short(b, expect) /\ Known(b, expect)
        BY <1>2, <1>3, <4>1 DEF Short, Known
      <4> QED
        BY <1>3, <2>3, <3>1, <4>2, <4>3 DEF Buffer
    <3>3. CASE Len(buf) >= 4
      <4>1. HeaderHolds(buf) /\ expect = 4 + buf[3] + 1 /\ Len(buf) < expect
        BY <1>2, <3>3 DEF Buffer, Short, Known
      <4>2. HeaderHolds(b) /\ b[3] = buf[3] /\ buf[3] \in Byte
        BY <1>2, <3>3, <4>1, HeaderStays DEF b
      <4>3. expect \in Int
        BY <4>1, <4>2, <1>5 DEF Byte
      <4>4. Len(b) < expect
        BY <1>2, <1>3, <2>1, <4>1, <4>3
      <4> QED
        BY <1>2, <1>3, <1>4, <2>1, <2>3, <3>1, <3>3, <4>1, <4>2, <4>4
           DEF Buffer, Short, Known
    <3> QED
      BY <1>2, <3>2, <3>3
  <2> QED
    BY <1>2, <1>3, <1>5, <2>2, <2>3
<1>9. CASE AcceptHeader(byte)
  <2>1. Len(b) = 4 /\ HeaderHolds(b) /\ buf' = b /\ expect' = 4 + b[3] + 1
    BY <1>9 DEF AcceptHeader, Leaves, b
  <2>2. b[3] \in Byte /\ b[1] = Start
    <3>1. 3 \in 1 .. Len(b)
      BY <2>1
    <3>2. buf # <<>>
      <4>1. buf = <<>> => Len(b) = 1
        BY <1>3
      <4> QED
        BY <2>1, <4>1
    <3> QED
      BY <1>3, <1>4, <3>1, <3>2, AnyByte
  <2>3. 4 < 4 + b[3] + 1
    BY <1>5, <2>2 DEF Byte
  <2> QED
    <3>1. Short(b, 4 + b[3] + 1) /\ Known(b, 4 + b[3] + 1)
      BY <2>1, <2>3 DEF Short, Known
    <3>2. Len(b) < MaxFrame
      BY <1>5, <2>1
    <3> QED
      BY <1>3, <2>1, <2>2, <3>1, <3>2 DEF Buffer
<1>10. CASE RejectHeader(byte)
  <2> DEFINE starts == {i \in 2 .. 4 : b[i] = Start}
             i == CHOOSE i \in starts : \A j \in starts : i <= j
  <2>1. Len(b) = 4
    BY <1>10 DEF RejectHeader, b
  <2>2. CASE starts = {}
    BY <1>6, <1>10, <2>2 DEF RejectHeader, b
  <2>3. CASE starts # {}
    <3>1. i \in starts
      <4>1. \E x \in starts : \A j \in starts : x <= j
        BY <2>3, LeastNumber
      <4> QED
        BY <4>1
    <3>2. buf' = SubSeq(b, i, 4) /\ expect' = 0
      BY <1>10, <2>3 DEF RejectHeader, Leaves, b
    <3>3. i \in 2 .. 4 /\ b[i] = Start
      BY <3>1
    <3> HIDE DEF i
    <3>4. \A k \in i .. 4 : b[k] \in Byte
      <4>1. ASSUME NEW k \in i .. 4 PROVE k \in 1 .. Len(b)
        BY <2>1, <3>3
      <4> QED
        BY <1>3, <4>1, AnyByte
    <3> DEFINE c == SubSeq(b, i, 4)
    <3>5. c \in Seq(Byte) /\ Len(c) = 5 - i /\ \A k \in 1 .. 5 - i : c[k] = b[i + k - 1]
      BY <3>3, <3>4, SubSeqProperties
    <3> HIDE DEF c
    <3>6. c[1] = Start
      BY <3>3, <3>5
    <3> QED
      BY <1>5, <3>2, <3>3, <3>5, <3>6 DEF Buffer, Short, Known, c
  <2> QED
    BY <2>2, <2>3
<1>11. CASE Finish(byte)
  BY <1>6, <1>11 DEF Finish
<1> QED
  BY <1>1, <1>7, <1>8, <1>9, <1>10, <1>11 DEF Push

-----------------------------------------------------------------------------
(* The reference.                                                          *)

Returned == [at : Nat, id : Byte, payload : Seq(Byte)]

(* One turn of it at place i, with what it finds behind that place in f.   *)
Turn(s, f, i) ==
  IF i > Len(s) THEN <<>>
  ELSE IF ~Begins(s, i) THEN f[i + 1]
  ELSE IF ~Whole(s, i) THEN <<>>
  ELSE FrameAt(s, i) \o f[EndOf(s, i) + 1]

(* A whole frame ends behind its header and on the line.                   *)
LEMMA WholeFrame ==
  ASSUME NEW s \in Seq(Byte), NEW i \in 1 .. Len(s), Whole(s, i)
  PROVE  /\ EndOf(s, i) \in i + 4 .. Len(s)
         /\ EndOf(s, i) + 1 \in i + 1 .. Len(s) + 1
         /\ FrameAt(s, i) \in Seq(Returned)
<1> DEFINE e == EndOf(s, i)
           frame == SubSeq(s, i, e)
<1>1. i \in Nat /\ i >= 1 /\ i + 3 <= Len(s) /\ e <= Len(s) /\ Len(s) \in Nat
  BY DEF Whole
<1>2. s[i + 1] \in Byte /\ s[i + 2] \in Byte
  <2>1. i + 1 \in 1 .. Len(s) /\ i + 2 \in 1 .. Len(s)
    BY <1>1
  <2> QED
    BY <2>1, AnyByte
<1>3. e \in i + 4 .. Len(s)
  <2> DEFINE x == s[i + 2]
  <2>1. x \in Nat
    BY <1>2, ByteFacts DEF Byte
  <2>2. e = i + 4 + x
    BY DEF EndOf
  <2> HIDE DEF x, e
  <2> QED
    BY <1>1, <2>1, <2>2
<1>4. FrameAt(s, i) = IF BodyHolds(frame)
                      THEN <<[at |-> e, id |-> s[i + 1], payload |-> PayloadOf(frame)]>>
                      ELSE <<>>
  BY DEF FrameAt
<1> HIDE DEF e
<1>5. frame \in Seq(Byte) /\ Len(frame) \in Nat
  <2>1. ASSUME NEW k \in i .. e PROVE s[k] \in Byte
    BY <1>1, <1>3
  <2> QED
    BY <1>1, <1>3, <2>1, SubSeqProperties
<1> HIDE DEF frame
<1>6. PayloadOf(frame) \in Seq(Byte)
  <2>1. ASSUME NEW k \in 5 .. Len(frame) - 1 PROVE frame[k] \in Byte
    <3>1. k \in 1 .. Len(frame)
      BY <1>5
    <3> QED
      BY <1>5, <3>1, AnyByte
  <2>2. SubSeq(frame, 5, Len(frame) - 1) \in Seq(Byte)
    BY <1>5, <2>1, SubSeqProperties
  <2> QED
    BY <2>2 DEF PayloadOf
<1>7. [at |-> e, id |-> s[i + 1], payload |-> PayloadOf(frame)] \in Returned
  BY <1>1, <1>2, <1>3, <1>6 DEF Returned
<1>8. FrameAt(s, i) \in Seq(Returned)
  BY <1>4, <1>7
<1> QED
  BY <1>1, <1>3, <1>8 DEF e

(* A turn gives frames when what is behind it does.                        *)
LEMMA TurnType ==
  ASSUME NEW s \in Seq(Byte), NEW i \in 1 .. Len(s) + 1, NEW f,
         \A j \in i + 1 .. Len(s) + 1 : f[j] \in Seq(Returned)
  PROVE  Turn(s, f, i) \in Seq(Returned)
<1>1. <<>> \in Seq(Returned)
  OBVIOUS
<1>2. CASE i > Len(s)
  BY <1>1, <1>2 DEF Turn
<1>3. CASE i <= Len(s)
  <2>1. i \in 1 .. Len(s) /\ i + 1 \in i + 1 .. Len(s) + 1
    BY <1>3
  <2>2. CASE ~Begins(s, i)
    BY <1>3, <2>1, <2>2 DEF Turn
  <2>3. CASE Begins(s, i) /\ ~Whole(s, i)
    BY <1>1, <1>3, <2>3 DEF Turn
  <2>4. CASE Begins(s, i) /\ Whole(s, i)
    <3> DEFINE a == FrameAt(s, i)
               c == f[EndOf(s, i) + 1]
    <3>1. a \in Seq(Returned) /\ c \in Seq(Returned)
      BY <2>1, <2>4, WholeFrame
    <3>2. Turn(s, f, i) = a \o c
      BY <1>3, <2>4 DEF Turn
    <3> HIDE DEF a, c
    <3> QED
      BY <3>1, <3>2
  <2> QED
    BY <2>2, <2>3, <2>4
<1> QED
  BY <1>2, <1>3

(* It looks behind its place only.                                         *)
LEMMA TurnLooksBehind ==
  ASSUME NEW s \in Seq(Byte), NEW i \in 1 .. Len(s) + 1, NEW f, NEW g,
         \A j \in i + 1 .. Len(s) + 1 : f[j] = g[j]
  PROVE  Turn(s, f, i) = Turn(s, g, i)
<1>1. CASE i > Len(s)
  BY <1>1 DEF Turn
<1>2. CASE i <= Len(s)
  <2>1. i \in 1 .. Len(s) /\ i + 1 \in i + 1 .. Len(s) + 1
    BY <1>2
  <2>2. Whole(s, i) => f[EndOf(s, i) + 1] = g[EndOf(s, i) + 1]
    BY <2>1, WholeFrame
  <2> QED
    BY <2>1, <2>2 DEF Turn
<1> QED
  BY <1>1, <1>2

(* So there is a function whose value at every place is a turn over it.    *)
Solves(s, f, k) == \A i \in k .. Len(s) + 1 : f[i] = Turn(s, f, i)

(* By least counterexample over how many places from the end are solved.   *)
LEMMA ReferenceExists ==
  ASSUME NEW s \in Seq(Byte)
  PROVE  \E f \in [1 .. Len(s) + 1 -> Seq(Returned)] : Solves(s, f, 1)
<1> DEFINE N == Len(s)
           D == [1 .. N + 1 -> Seq(Returned)]
           T == {k \in 0 .. N : \E f \in D : Solves(s, f, N + 1 - k)}
<1>1. N \in Nat
  OBVIOUS
<1>2. 0 \in T
  <2> DEFINE f == [i \in 1 .. N + 1 |-> <<>>]
  <2>1. f \in D /\ f[N + 1] = <<>>
    BY <1>1
  <2>2. Turn(s, f, N + 1) = <<>>
    BY <1>1 DEF Turn
  <2> HIDE DEF f
  <2>3. \A i \in N + 1 .. N + 1 : i = N + 1
    BY <1>1
  <2>4. Solves(s, f, N + 1)
    BY <2>1, <2>2, <2>3 DEF Solves
  <2>5. N + 1 - 0 = N + 1 /\ 0 \in 0 .. N
    BY <1>1
  <2> HIDE DEF D
  <2> QED
    BY <2>1, <2>4, <2>5
<1>3. ASSUME NEW k \in 1 .. N, k - 1 \in T PROVE k \in T
  <2> DEFINE p == N + 1 - k
  <2>1. p \in 1 .. N + 1 /\ p \in 1 .. N /\ N + 1 - (k - 1) = p + 1 /\ k \in 0 .. N
    BY <1>1
  <2>2. PICK f \in D : Solves(s, f, p + 1)
    BY <1>3, <2>1
  <2> HIDE DEF p
  <2> DEFINE v == Turn(s, f, p)
             g == [f EXCEPT ![p] = v]
  <2>3. v \in Seq(Returned)
    <3>1. \A j \in p + 1 .. N + 1 : f[j] \in Seq(Returned)
      BY <1>1, <2>1, <2>2
    <3> QED
      BY <2>1, <3>1, TurnType
  <2> HIDE DEF v
  <2>4. g \in D /\ g[p] = v /\ \A j \in p + 1 .. N + 1 : g[j] = f[j]
    BY <1>1, <2>1, <2>2, <2>3
  <2> HIDE DEF g
  <2>5. ASSUME NEW i \in p .. N + 1 PROVE g[i] = Turn(s, g, i)
    <3>1. i \in 1 .. N + 1 /\ \A j \in i + 1 .. N + 1 : g[j] = f[j]
      BY <1>1, <2>1, <2>4
    <3>2. Turn(s, g, i) = Turn(s, f, i)
      BY <3>1, TurnLooksBehind
    <3>3. CASE i = p
      BY <2>4, <3>2, <3>3 DEF v
    <3>4. CASE i \in p + 1 .. N + 1
      BY <2>2, <2>4, <3>2, <3>4 DEF Solves
    <3> QED
      BY <1>1, <2>1, <3>3, <3>4
  <2>6. Solves(s, g, p)
    BY <2>5 DEF Solves
  <2> HIDE DEF D
  <2> QED
    BY <2>1, <2>4, <2>6 DEF p
<1>4. N \in T
  <2> HIDE DEF T
  <2>1. \A k \in 0 .. N : k \in T
    BY <1>1, <1>2, <1>3, Counting
  <2> QED
    BY <1>1, <2>1
<1>5. N + 1 - N = 1
  BY <1>1
<1> QED
  BY <1>4, <1>5

(* Frames is one.                                                          *)
LEMMA FramesUnfold ==
  ASSUME NEW s \in Seq(Byte), NEW i \in 1 .. Len(s) + 1
  PROVE  /\ Frames(s)[i] \in Seq(Returned)
         /\ Frames(s)[i] = Turn(s, Frames(s), i)
<1> DEFINE N == Len(s)
           Equals(f) == f = [k \in 1 .. N + 1 |-> Turn(s, f, k)]
           g == CHOOSE f : Equals(f)
<1>1. N \in Nat
  OBVIOUS
<1>2. Frames(s) = g
  BY DEF Frames, Turn
<1>3. PICK f \in [1 .. N + 1 -> Seq(Returned)] : Solves(s, f, 1)
  BY ReferenceExists
<1>4. Equals(f)
  BY <1>3 DEF Solves
<1>5. Equals(g)
  <2> HIDE DEF Equals
  <2> QED
    BY <1>4
<1>6. \A k \in 1 .. N + 1 : g[k] = Turn(s, g, k)
  <2> HIDE DEF g
  <2> QED
    BY <1>5
<1> HIDE DEF g, Equals
<1> DEFINE T == {n \in 0 .. N : \A k \in N + 1 - n .. N + 1 : g[k] \in Seq(Returned)}
<1>7. 0 \in T
  <2>1. Turn(s, g, N + 1) = <<>> /\ <<>> \in Seq(Returned)
    BY <1>1 DEF Turn
  <2>2. N + 1 \in 1 .. N + 1 /\ 0 \in 0 .. N /\ \A k \in N + 1 - 0 .. N + 1 : k = N + 1
    BY <1>1
  <2> QED
    BY <1>6, <2>1, <2>2
<1>8. ASSUME NEW n \in 1 .. N, n - 1 \in T PROVE n \in T
  <2> DEFINE p == N + 1 - n
  <2>1. p \in 1 .. N + 1 /\ N + 1 - (n - 1) = p + 1 /\ n \in 0 .. N
    BY <1>1
  <2>2. \A k \in p + 1 .. N + 1 : g[k] \in Seq(Returned)
    BY <1>8, <2>1
  <2> HIDE DEF p
  <2>3. g[p] \in Seq(Returned)
    BY <1>6, <2>1, <2>2, TurnType
  <2>4. \A k \in p .. N + 1 : g[k] \in Seq(Returned)
    BY <1>1, <2>1, <2>2, <2>3
  <2> QED
    BY <2>1, <2>4 DEF p
<1>9. N \in T
  <2> HIDE DEF T
  <2>1. \A n \in 0 .. N : n \in T
    BY <1>1, <1>7, <1>8, Counting
  <2> QED
    BY <1>1, <2>1
<1>10. N + 1 - N = 1
  BY <1>1
<1> QED
  BY <1>2, <1>6, <1>9, <1>10

(* Where no header holds the reader moves on by one byte.                  *)
LEMMA Nowhere ==
  ASSUME NEW s \in Seq(Byte), NEW p \in 1 .. Len(s), ~Begins(s, p)
  PROVE  Frames(s)[p] = Frames(s)[p + 1]
<1>1. p \in 1 .. Len(s) + 1 /\ ~(p > Len(s))
  OBVIOUS
<1>2. Frames(s)[p] = Turn(s, Frames(s), p)
  BY <1>1, FramesUnfold
<1> QED
  BY <1>1, <1>2 DEF Turn

(* Where a whole frame stands it is read and the reader moves on behind    *)
(* it.                                                                     *)
LEMMA Stepped ==
  ASSUME NEW s \in Seq(Byte), NEW p \in 1 .. Len(s), Begins(s, p), Whole(s, p)
  PROVE  Frames(s)[p] = FrameAt(s, p) \o Frames(s)[EndOf(s, p) + 1]
<1>1. p \in 1 .. Len(s) + 1 /\ ~(p > Len(s))
  OBVIOUS
<1>2. Frames(s)[p] = Turn(s, Frames(s), p)
  BY <1>1, FramesUnfold
<1> QED
  BY <1>1, <1>2 DEF Turn

(* Nothing is to be found behind the end of the line.                      *)
LEMMA PastEnd ==
  ASSUME NEW s \in Seq(Byte), NEW p \in 1 .. Len(s) + 1, p > Len(s)
  PROVE  Frames(s)[p] = <<>>
<1>1. Frames(s)[p] = Turn(s, Frames(s), p)
  BY FramesUnfold
<1> QED
  BY <1>1 DEF Turn

(* At a header whose frame has not arrived whole the reader stops.         *)
LEMMA Stopped ==
  ASSUME NEW s \in Seq(Byte), NEW p \in 1 .. Len(s) + 1, Begins(s, p), ~Whole(s, p)
  PROVE  Frames(s)[p] = <<>>
<1>1. Frames(s)[p] = Turn(s, Frames(s), p)
  BY FramesUnfold
<1> QED
  BY <1>1 DEF Turn

-----------------------------------------------------------------------------
(* Bytes on the line.                                                      *)

(* The bytes b are at place p of s.                                        *)
Window(s, p, b) ==
  /\ p \in Nat \ {0} /\ p + Len(b) - 1 <= Len(s)
  /\ \A k \in 1 .. Len(b) : s[p + k - 1] = b[k]

(* Then they are the subsequence that starts there.                        *)
LEMMA WindowIsCopy ==
  ASSUME NEW s \in Seq(Byte), NEW b \in Seq(Byte), NEW p, Window(s, p, b)
  PROVE  SubSeq(s, p, p + Len(b) - 1) = b
<1> DEFINE e == p + Len(b) - 1
           c == SubSeq(s, p, e)
<1>1. p \in Int /\ e \in Int /\ e <= Len(s) /\ p >= 1 /\ Len(b) \in Nat
  BY DEF Window
<1>2. e - p + 1 = Len(b) /\ (p <= e <=> Len(b) > 0)
  BY <1>1
<1> HIDE DEF e
<1>3. \A k \in p .. e : s[k] \in Byte
  BY <1>1
<1>4. /\ c \in Seq(Byte) /\ Len(c) = Len(b)
      /\ \A k \in 1 .. e - p + 1 : c[k] = s[p + k - 1]
  BY <1>1, <1>2, <1>3, SubSeqProperties
<1> HIDE DEF c
<1>5. \A k \in 1 .. Len(b) : c[k] = b[k]
  BY <1>2, <1>4 DEF Window
<1>6. c = b
  BY <1>4, <1>5
<1> QED
  BY <1>6 DEF c, e

(* A frame begins at a window that begins like one.                        *)
LEMMA WindowBegins ==
  ASSUME NEW s \in Seq(Byte), NEW b \in Seq(Byte), NEW p, Window(s, p, b), b # <<>>
  PROVE  /\ p \in 1 .. Len(s) /\ s[p] = b[1]
         /\ b[1] # Start => ~Begins(s, p)
         /\ Len(b) >= 4 => (Begins(s, p) <=> b[1] = Start /\ HeaderHolds(b))
<1>1. p \in Nat /\ p >= 1 /\ Len(b) \in Nat /\ Len(b) > 0 /\ p + Len(b) - 1 <= Len(s)
  BY DEF Window
<1>2. p \in 1 .. Len(s)
  BY <1>1
<1>3. 1 \in 1 .. Len(b) /\ p + 1 - 1 = p
  BY <1>1
<1>4. s[p] = b[1]
  BY <1>3 DEF Window
<1>5. ASSUME Len(b) >= 4
      PROVE  p + 3 <= Len(s) /\ (HeaderHolds(SubSeq(s, p, p + 3)) <=> HeaderHolds(b))
  <2> DEFINE c == SubSeq(s, p, p + 3)
  <2>1. \A k \in p .. p + 3 : s[k] \in Byte
    BY <1>1, <1>5
  <2>2. p + 3 - p + 1 = 4 /\ p \in Int /\ p + 3 \in Int
    BY <1>1
  <2>3. \A k \in 1 .. 4 : c[k] = s[p + k - 1]
    BY <2>1, <2>2, SubSeqProperties
  <2>4. \A k \in 1 .. 4 : s[p + k - 1] = b[k]
    BY <1>1, <1>5 DEF Window
  <2> HIDE DEF c
  <2>5. c[2] = b[2] /\ c[3] = b[3] /\ c[4] = b[4]
    BY <2>3, <2>4
  <2> QED
    BY <1>1, <1>5, <2>5 DEF HeaderHolds, c
<1> QED
  BY <1>2, <1>4, <1>5 DEF Begins

(* A window on bytes that are followed by others.                          *)
LEMMA WindowGrows ==
  ASSUME NEW s \in Seq(Byte), NEW t \in Seq(Byte), NEW b \in Seq(Byte),
         NEW p, Window(s, p, b)
  PROVE  Window(s \o t, p, b)
<1>1. Len(s \o t) = Len(s) + Len(t) /\ \A k \in 1 .. Len(s) : (s \o t)[k] = s[k]
  OBVIOUS
<1>2. p \in Nat /\ p >= 1 /\ Len(b) \in Nat /\ p + Len(b) - 1 <= Len(s)
  BY DEF Window
<1>3. ASSUME NEW k \in 1 .. Len(b) PROVE (s \o t)[p + k - 1] = b[k]
  <2>1. p + k - 1 \in 1 .. Len(s)
    BY <1>2
  <2> QED
    BY <1>1, <2>1 DEF Window
<1>4. p + Len(b) - 1 <= Len(s \o t)
  BY <1>1, <1>2
<1> QED
  BY <1>2, <1>3, <1>4 DEF Window

(* The last bytes of a window.                                             *)
LEMMA WindowRest ==
  ASSUME NEW s \in Seq(Byte), NEW b \in Seq(Byte), NEW p, Window(s, p, b),
         NEW i \in 1 .. Len(b)
  PROVE  /\ SubSeq(b, i, Len(b)) \in Seq(Byte)
         /\ Len(SubSeq(b, i, Len(b))) = Len(b) - i + 1
         /\ SubSeq(b, i, Len(b))[1] = b[i]
         /\ Window(s, p + i - 1, SubSeq(b, i, Len(b)))
<1> DEFINE c == SubSeq(b, i, Len(b))
           q == p + i - 1
<1>1. p \in Nat /\ p >= 1 /\ Len(b) \in Nat /\ p + Len(b) - 1 <= Len(s)
  BY DEF Window
<1>2. \A k \in i .. Len(b) : b[k] \in Byte
  OBVIOUS
<1>3. /\ c \in Seq(Byte) /\ Len(c) = Len(b) - i + 1
      /\ \A k \in 1 .. Len(b) - i + 1 : c[k] = b[i + k - 1]
  BY <1>1, <1>2, SubSeqProperties
<1> HIDE DEF c
<1>4. c[1] = b[i]
  BY <1>1, <1>3
<1>5. ASSUME NEW k \in 1 .. Len(c) PROVE s[q + k - 1] = c[k]
  <2>1. i + k - 1 \in 1 .. Len(b) /\ q + k - 1 = p + (i + k - 1) - 1
    BY <1>1, <1>3
  <2> QED
    BY <1>3, <2>1 DEF Window
<1>6. q \in Nat \ {0} /\ q + Len(c) - 1 <= Len(s)
  BY <1>1, <1>3
<1>7. Window(s, q, c)
  BY <1>5, <1>6 DEF Window
<1> QED
  BY <1>3, <1>4, <1>7 DEF c

-----------------------------------------------------------------------------
(* The parser reads on from the place on the line where its buffer begins. *)

Place == Len(line) - Len(buf) + 1

(* What it has returned and what is to be found on s from q on.            *)
ReadsOn(s, q, frames) ==
  /\ got' \in Seq(Returned) /\ Window(s, q, buf')
  /\ got' \o Frames(s)[q] = frames

(* Frames found one after the other, in any grouping.                      *)
LEMMA Associative ==
  ASSUME NEW s \in Seq(Returned), NEW t \in Seq(Returned), NEW u \in Seq(Returned)
  PROVE  (s \o t) \o u = s \o (t \o u)
  BY ConcatAssociative

(* It keeps the bytes, and the place with them.                            *)
LEMMA KeepReads ==
  ASSUME NEW s \in Seq(Byte), NEW p, NEW b \in Seq(Byte), Window(s, p, b),
         got \in Seq(Returned), buf' = b, Returns(<<>>)
  PROVE  ReadsOn(s, p, got \o Frames(s)[p])
<1>1. got' = got
  BY DEF Returns
<1> QED
  BY <1>1 DEF ReadsOn

(* It drops bytes at which no frame begins.                                *)
LEMMA DropReads ==
  ASSUME NEW s \in Seq(Byte), NEW p, NEW q, NEW c \in Seq(Byte), Window(s, q, c),
         Frames(s)[p] = Frames(s)[q],
         got \in Seq(Returned), buf' = c, Returns(<<>>)
  PROVE  ReadsOn(s, q, got \o Frames(s)[p])
<1>1. got' = got
  BY DEF Returns
<1> QED
  BY <1>1 DEF ReadsOn

(* An empty buffer is a window anywhere.                                   *)
LEMMA EmptyWindow ==
  ASSUME NEW s \in Seq(Byte), NEW q \in 1 .. Len(s) + 1
  PROVE  Window(s, q, <<>>)
<1>1. Len(<<>>) = 0 /\ 1 .. 0 = {} /\ q \in Nat \ {0} /\ q + 0 - 1 <= Len(s)
  OBVIOUS
<1> QED
  BY <1>1 DEF Window

(* Hunt.                                                                   *)
LEMMA HuntReads ==
  ASSUME NEW byte \in Byte, Hunt(byte), NEW s \in Seq(Byte), NEW p,
         Window(s, p, <<byte>>), got \in Seq(Returned)
  PROVE  ReadsOn(s, p + 1 - Len(buf'), got \o Frames(s)[p])
<1>1. Returns(<<>>) /\ <<byte>> \in Seq(Byte) /\ Len(<<byte>>) = 1 /\ <<byte>>[1] = byte
  BY DEF Hunt
<1>2. p \in Nat /\ p >= 1 /\ p + 1 - 1 <= Len(s) /\ p \in 1 .. Len(s)
  BY <1>1 DEF Window
<1>3. CASE byte = Start
  <2>1. buf' = <<byte>>
    BY <1>3 DEF Hunt, Leaves
  <2>2. p + 1 - Len(buf') = p
    BY <1>1, <1>2, <2>1
  <2> QED
    BY <1>1, <2>1, <2>2, KeepReads
<1>4. CASE byte # Start
  <2>1. buf' = <<>> /\ Len(buf') = 0
    BY <1>4 DEF Hunt, Leaves
  <2>2. p + 1 - Len(buf') = p + 1 /\ p + 1 \in 1 .. Len(s) + 1
    BY <1>2, <2>1
  <2>3. ~Begins(s, p)
    <3>1. <<byte>> # <<>> /\ <<byte>>[1] # Start
      BY <1>1, <1>4
    <3> QED
      BY <1>1, <3>1, WindowBegins
  <2>4. Frames(s)[p] = Frames(s)[p + 1]
    BY <1>2, <2>3, Nowhere
  <2>5. Window(s, p + 1, <<>>) /\ <<>> \in Seq(Byte)
    BY <2>2, EmptyWindow
  <2> QED
    BY <1>1, <2>1, <2>2, <2>4, <2>5, DropReads
<1> QED
  BY <1>3, <1>4

(* Collect; a buffer that waits for a frame is never full.                 *)
LEMMA CollectReads ==
  ASSUME Buffer(buf, expect), NEW byte \in Byte, Collect(byte),
         NEW s \in Seq(Byte), NEW p,
         Window(s, p, Append(buf, byte)), got \in Seq(Returned)
  PROVE  ReadsOn(s, p + Len(buf) + 1 - Len(buf'), got \o Frames(s)[p])
<1> DEFINE b == Append(buf, byte)
<1>1. buf \in Seq(Byte) /\ Short(buf, expect) /\ Known(buf, expect) /\ Len(buf) \in Nat
  BY DEF Buffer
<1>2. b \in Seq(Byte) /\ Len(b) = Len(buf) + 1
  BY <1>1, Longer
<1>3. Len(b) # 4 /\ Len(b) # expect /\ Returns(<<>>)
  BY DEF Collect
<1>4. Base \in Nat /\ Base > 1 /\ MaxFrame = Base + 4
  BY ByteFacts
<1>5. Len(b) < MaxFrame
  <2>1. CASE Len(buf) < 4
    <3> HIDE DEF b
    <3> QED
      BY <1>1, <1>2, <1>3, <1>4, <2>1
  <2>2. CASE Len(buf) >= 4
    <3>1. expect = 4 + buf[3] + 1 /\ Len(buf) < expect
      BY <1>1, <2>2 DEF Known
    <3>2. buf[3] \in Byte
      BY <1>1, <2>2, HeaderStays
    <3> DEFINE x == buf[3]
    <3>3. x \in Nat /\ x < Base
      BY <1>4, <3>2 DEF Byte
    <3> HIDE DEF b, x
    <3> QED
      BY <1>1, <1>2, <1>3, <1>4, <3>1, <3>3 DEF x
  <2> QED
    BY <1>1, <2>1, <2>2
<1>6. buf' = b
  <2>1. ~(Len(b) >= MaxFrame)
    BY <1>1, <1>2, <1>4, <1>5
  <2> QED
    BY <2>1 DEF Collect, Leaves
<1>7. p \in Nat
  BY DEF Window
<1> HIDE DEF b
<1>8. p + Len(buf) + 1 - Len(buf') = p
  BY <1>1, <1>2, <1>6, <1>7
<1>9. Window(s, p, b)
  BY DEF b
<1> QED
  BY <1>2, <1>3, <1>6, <1>8, <1>9, KeepReads

(* AcceptHeader.                                                           *)
LEMMA AcceptReads ==
  ASSUME buf \in Seq(Byte), NEW byte \in Byte, AcceptHeader(byte),
         NEW s \in Seq(Byte), NEW p,
         Window(s, p, Append(buf, byte)), got \in Seq(Returned)
  PROVE  ReadsOn(s, p + Len(buf) + 1 - Len(buf'), got \o Frames(s)[p])
<1> DEFINE b == Append(buf, byte)
<1>1. b \in Seq(Byte) /\ Len(b) = Len(buf) + 1 /\ Len(buf) \in Nat
  BY Longer
<1>2. buf' = b /\ Returns(<<>>)
  BY DEF AcceptHeader, Leaves
<1>3. p \in Nat
  BY DEF Window
<1>4. Window(s, p, b)
  OBVIOUS
<1> HIDE DEF b
<1>5. p + Len(buf) + 1 - Len(buf') = p
  <2> DEFINE m == Len(buf)
             n == Len(buf')
  <2>1. m \in Nat /\ n = m + 1
    BY <1>1, <1>2
  <2> HIDE DEF m, n
  <2>2. p + m + 1 - n = p
    BY <1>3, <2>1
  <2> QED
    BY <2>2 DEF m, n
<1> QED
  BY <1>1, <1>2, <1>4, <1>5, KeepReads

(* RejectHeader.                                                           *)
LEMMA RejectReads ==
  ASSUME buf \in Seq(Byte), NEW byte \in Byte, RejectHeader(byte),
         NEW s \in Seq(Byte), NEW p,
         Window(s, p, Append(buf, byte)), got \in Seq(Returned)
  PROVE  ReadsOn(s, p + Len(buf) + 1 - Len(buf'), got \o Frames(s)[p])
<1> DEFINE b == Append(buf, byte)
           starts == {i \in 2 .. 4 : b[i] = Start}
           first == CHOOSE i \in starts : \A j \in starts : i <= j
<1>1. b \in Seq(Byte) /\ Len(b) = Len(buf) + 1 /\ Len(buf) \in Nat
  BY Longer
<1>2. Len(b) = 4
  BY DEF RejectHeader
<1>r. ~HeaderHolds(b) /\ Returns(<<>>) /\ b # <<>>
  BY DEF RejectHeader
<1>3. buf' = IF starts = {} THEN <<>> ELSE SubSeq(b, first, 4)
  BY DEF RejectHeader, Leaves
<1>4. Window(s, p, b)
  OBVIOUS
<1>5. p \in Nat /\ p >= 1 /\ p + 4 - 1 <= Len(s) /\ Len(s) \in Nat
  BY <1>2, <1>4 DEF Window
<1> HIDE DEF b
<1>6. ~Begins(s, p)
  <2>1. Len(b) >= 4
    BY <1>2
  <2> QED
    BY <1>1, <1>r, <1>4, <2>1, WindowBegins
<1>7. Len(buf) + 1 = 4
  BY <1>1, <1>2
<1>8. ASSUME NEW i \in 2 .. 4, b[i] # Start PROVE ~Begins(s, p + i - 1)
  <2> DEFINE c == SubSeq(b, i, Len(b))
  <2>1. i \in 1 .. Len(b)
    BY <1>2
  <2>2. c \in Seq(Byte) /\ Len(c) = Len(b) - i + 1 /\ c[1] = b[i] /\ Window(s, p + i - 1, c)
    BY <1>1, <1>4, <2>1, WindowRest
  <2> HIDE DEF c
  <2>3. c # <<>>
    <3>1. Len(c) > 0 /\ Len(<<>>) = 0
      BY <1>2, <2>2
    <3> QED
      BY <3>1
  <2> QED
    BY <1>8, <2>2, <2>3, WindowBegins
<1>9. ASSUME NEW i \in 2 .. 5, \A j \in 2 .. 4 : j < i => b[j] # Start
      PROVE  Frames(s)[p] = Frames(s)[p + i - 1]
  <2>1. /\ p \in 1 .. Len(s) /\ p + 1 \in 1 .. Len(s) /\ p + 2 \in 1 .. Len(s)
        /\ p + 3 \in 1 .. Len(s)
    BY <1>5
  <2>2. Frames(s)[p] = Frames(s)[p + 1]
    BY <1>6, <2>1, Nowhere
  <2>3. i > 2 => Frames(s)[p + 1] = Frames(s)[p + 2]
    <3>1. i > 2 => b[2] # Start
      BY <1>9
    <3>2. p + 2 - 1 = p + 1 /\ p + 1 + 1 = p + 2
      BY <1>5
    <3> QED
      BY <1>8, <2>1, <3>1, <3>2, Nowhere
  <2>4. i > 3 => Frames(s)[p + 2] = Frames(s)[p + 3]
    <3>1. i > 3 => b[3] # Start
      BY <1>9
    <3>2. p + 3 - 1 = p + 2 /\ p + 2 + 1 = p + 3
      BY <1>5
    <3> QED
      BY <1>8, <2>1, <3>1, <3>2, Nowhere
  <2>5. i > 4 => Frames(s)[p + 3] = Frames(s)[p + 4]
    <3>1. i > 4 => b[4] # Start
      BY <1>9
    <3>2. p + 4 - 1 = p + 3 /\ p + 3 + 1 = p + 4
      BY <1>5
    <3> QED
      BY <1>8, <2>1, <3>1, <3>2, Nowhere
  <2>6. /\ i = 2 => p + i - 1 = p + 1
        /\ i = 3 => p + i - 1 = p + 2
        /\ i = 4 => p + i - 1 = p + 3
        /\ i = 5 => p + i - 1 = p + 4
    BY <1>5
  <2>7. i = 2 \/ i = 3 \/ i = 4 \/ i = 5
    OBVIOUS
  <2> QED
    BY <2>2, <2>3, <2>4, <2>5, <2>6, <2>7
<1>10. CASE starts = {}
  <2>1. buf' = <<>> /\ Len(buf') = 0
    BY <1>3, <1>10
  <2>2. p + Len(buf) + 1 - Len(buf') = p + 4 /\ p + 4 \in 1 .. Len(s) + 1 /\ p + 5 - 1 = p + 4
    BY <1>1, <1>5, <1>7, <2>1
  <2>3. \A j \in 2 .. 4 : b[j] # Start
    BY <1>10
  <2>4. Frames(s)[p] = Frames(s)[p + 4]
    BY <1>9, <2>2, <2>3
  <2>5. Window(s, p + 4, <<>>) /\ <<>> \in Seq(Byte)
    BY <2>2, EmptyWindow
  <2> QED
    BY <1>r, <2>1, <2>2, <2>4, <2>5, DropReads
<1>11. CASE starts # {}
  <2>1. first \in starts /\ \A j \in starts : first <= j
    <3>1. \E x \in starts : \A j \in starts : x <= j
      BY <1>11, LeastNumber
    <3> QED
      BY <3>1
  <2>2. first \in 2 .. 4 /\ \A j \in 2 .. 4 : j < first => b[j] # Start
    BY <2>1
  <2> HIDE DEF first
  <2> DEFINE c == SubSeq(b, first, Len(b))
  <2>3. buf' = c
    BY <1>2, <1>3, <1>11
  <2>4. c \in Seq(Byte) /\ Len(c) = Len(b) - first + 1 /\ Window(s, p + first - 1, c)
    <3>1. first \in 1 .. Len(b)
      BY <1>2, <2>2
    <3> QED
      BY <1>1, <1>4, <3>1, WindowRest
  <2> HIDE DEF c
  <2>5. p + Len(buf) + 1 - Len(buf') = p + first - 1
    <3>1. Len(buf') = Len(b) - first + 1
      BY <2>3, <2>4
    <3>2. Len(buf) \in Nat /\ Len(b) = Len(buf) + 1 /\ first \in Nat /\ p \in Nat
      BY <1>1, <1>5, <2>2
    <3> QED
      BY <3>1, <3>2
  <2>6. Frames(s)[p] = Frames(s)[p + first - 1]
    BY <1>9, <2>2
  <2> QED
    BY <1>r, <2>3, <2>4, <2>5, <2>6, DropReads
<1> QED
  BY <1>10, <1>11

(* Finish.                                                                 *)
LEMMA FinishReads ==
  ASSUME Buffer(buf, expect), NEW byte \in Byte, Finish(byte),
         NEW s \in Seq(Byte), NEW p, line \in Seq(Byte),
         Window(s, p, Append(buf, byte)), p + Len(buf) = Len(line) + 1,
         got \in Seq(Returned)
  PROVE  ReadsOn(s, p + Len(buf) + 1 - Len(buf'), got \o Frames(s)[p])
<1> DEFINE b == Append(buf, byte)
           e == p + Len(b) - 1
           frame == IF BodyHolds(b)
                    THEN <<[at |-> Len(line) + 1, id |-> b[2], payload |-> PayloadOf(b)]>>
                    ELSE <<>>
<1>1. buf \in Seq(Byte) /\ Len(buf) \in Nat /\ (buf # <<>> => buf[1] = Start)
      /\ Short(buf, expect) /\ Known(buf, expect)
  BY DEF Buffer
<1>2. b \in Seq(Byte) /\ Len(b) = Len(buf) + 1
  BY <1>1, Longer
<1>3. Len(b) = expect /\ Len(b) # 4 /\ buf' = <<>> /\ got' = got \o frame
  BY DEF Finish, Leaves, Returns
<1>4. Window(s, p, b)
  OBVIOUS
<1>5. Len(buf) >= 4
  <2> HIDE DEF b
  <2> QED
    BY <1>1, <1>2, <1>3 DEF Short
<1>6. /\ HeaderHolds(b) /\ b[1] = Start /\ b[3] = buf[3] /\ buf[3] \in Byte
      /\ expect = 4 + buf[3] + 1
  <2>1. HeaderHolds(buf) /\ expect = 4 + buf[3] + 1 /\ buf # <<>>
    BY <1>1, <1>5 DEF Known
  <2> QED
    BY <1>1, <1>5, <2>1, HeaderStays
<1> HIDE DEF b
<1>7. p \in Nat /\ p >= 1 /\ e <= Len(s)
  BY <1>4 DEF Window
<1>8. Begins(s, p) /\ p \in 1 .. Len(s)
  <2>1. Len(b) >= 4 /\ b # <<>>
    BY <1>1, <1>2, <1>5
  <2> QED
    BY <1>2, <1>4, <1>6, <2>1, WindowBegins
<1>9. s[p + 1] = b[2] /\ s[p + 2] = b[3]
  <2>1. 2 \in 1 .. Len(b) /\ 3 \in 1 .. Len(b) /\ p + 2 - 1 = p + 1 /\ p + 3 - 1 = p + 2
    BY <1>1, <1>2, <1>5, <1>7
  <2> QED
    BY <1>4, <2>1 DEF Window
<1>10. EndOf(s, p) = e /\ e = Len(line) + 1
  <2> DEFINE x == buf[3]
             y == s[p + 2]
  <2>1. x \in Nat /\ y = x
    BY <1>6, <1>9, ByteFacts DEF Byte
  <2>2. Len(b) = 4 + x + 1
    BY <1>3, <1>6
  <2>3. EndOf(s, p) = p + 4 + y
    BY DEF EndOf
  <2>4. Len(line) \in Nat
    OBVIOUS
  <2> HIDE DEF x, y, e
  <2>5. e = p + Len(b) - 1
    BY DEF e
  <2>6. EndOf(s, p) = e
    BY <1>7, <2>1, <2>2, <2>3, <2>5
  <2>7. e = Len(line) + 1
    <3>1. p + Len(buf) = Len(line) + 1
      OBVIOUS
    <3> QED
      BY <1>1, <1>2, <1>7, <2>4, <2>5, <3>1
  <2> QED
    BY <2>6, <2>7
<1>11. Whole(s, p)
  BY <1>1, <1>2, <1>5, <1>7, <1>10 DEF Whole
<1>12. FrameAt(s, p) = frame
  <2>1. SubSeq(s, p, EndOf(s, p)) = b
    BY <1>2, <1>4, <1>10, WindowIsCopy
  <2> QED
    BY <1>9, <1>10, <2>1 DEF FrameAt
<1> HIDE DEF frame, e
<1>13. frame \in Seq(Returned) /\ e + 1 \in 1 .. Len(s) + 1
  BY <1>8, <1>10, <1>11, <1>12, WholeFrame
<1>14. Frames(s)[p] = frame \o Frames(s)[e + 1]
  BY <1>8, <1>10, <1>11, <1>12, Stepped
<1>15. Frames(s)[e + 1] \in Seq(Returned)
  BY <1>13, FramesUnfold
<1>16. (got \o frame) \o Frames(s)[e + 1] = got \o (frame \o Frames(s)[e + 1])
  BY <1>13, <1>15, Associative
<1>17. got' \in Seq(Returned) /\ got' \o Frames(s)[e + 1] = got \o Frames(s)[p]
  BY <1>3, <1>13, <1>14, <1>16
<1>18. Window(s, e + 1, buf')
  BY <1>3, <1>13, EmptyWindow
<1>19. p + Len(buf) + 1 - Len(buf') = e + 1
  <2>1. Len(buf') = 0
    BY <1>3
  <2> QED
    BY <1>1, <1>2, <1>7, <2>1 DEF e
<1> QED
  BY <1>17, <1>18, <1>19 DEF ReadsOn

(* Every way through the function.                                         *)
LEMMA PushReads ==
  ASSUME Buffer(buf, expect), line \in Seq(Byte), NEW byte \in Byte, Push(byte),
         NEW s \in Seq(Byte), NEW p,
         Window(s, p, Append(buf, byte)), p + Len(buf) = Len(line) + 1,
         got \in Seq(Returned)
  PROVE  ReadsOn(s, p + Len(buf) + 1 - Len(buf'), got \o Frames(s)[p])
<1>1. buf \in Seq(Byte)
  BY DEF Buffer
<1>2. CASE Hunt(byte)
  <2>1. buf = <<>> /\ Append(buf, byte) = <<byte>>
    BY <1>2 DEF Hunt
  <2>2. p \in Nat /\ Len(buf) = 0
    BY <2>1 DEF Window
  <2>3. p + Len(buf) + 1 - Len(buf') = p + 1 - Len(buf')
    BY <2>2
  <2>4. Window(s, p, <<byte>>)
    BY <2>1
  <2> QED
    BY <1>2, <2>3, <2>4, HuntReads
<1>3. CASE Collect(byte)
  BY <1>3, CollectReads
<1>4. CASE AcceptHeader(byte)
  BY <1>1, <1>4, AcceptReads
<1>5. CASE RejectHeader(byte)
  BY <1>1, <1>5, RejectReads
<1>6. CASE Finish(byte)
  BY <1>6, FinishReads
<1> QED
  BY <1>2, <1>3, <1>4, <1>5, <1>6 DEF Push

-----------------------------------------------------------------------------
(* The inductive invariant. *)

(* Whatever comes next, a reader of the whole line finds first what the    *)
(* parser has returned, and then what begins at the place it reads on from.*)
Future ==
  \A t \in Seq(Byte) : Frames(line \o t)[1] = got \o Frames(line \o t)[Place]

IInv ==
  /\ TypeOK /\ Supply
  /\ got \in Seq(Returned) /\ Window(line, Place, buf)
  /\ Future

(* An empty parser at the start of an empty line.                          *)
LEMMA InitKeeps == Init => IInv
<1> SUFFICES ASSUME Init PROVE IInv
  OBVIOUS
<1>1. /\ buf = <<>> /\ expect = 0 /\ line = <<>> /\ got = <<>> /\ rest \in Rest
      /\ Len(<<>>) = 0 /\ <<>> \in Seq(Byte) /\ <<>> \in Seq(Returned)
  BY DEF Init, Rest
<1>2. TypeOK
  BY <1>1, ByteFacts DEF TypeOK
<1>3. Place = 1 /\ 1 \in 1 .. Len(<<>>) + 1
  BY <1>1 DEF Place
<1>4. Window(line, Place, buf)
  BY <1>1, <1>3, EmptyWindow
<1>5. ASSUME NEW t \in Seq(Byte)
      PROVE  Frames(line \o t)[1] = got \o Frames(line \o t)[Place]
  <2>1. line \o t = t
    BY <1>1
  <2>2. 1 \in 1 .. Len(t) + 1
    OBVIOUS
  <2>3. Frames(t)[1] \in Seq(Returned)
    BY <2>2, FramesUnfold
  <2>4. <<>> \o Frames(t)[1] = Frames(t)[1]
    BY <2>3
  <2> QED
    BY <1>1, <1>3, <2>1, <2>4
<1> QED
  BY <1>1, <1>2, <1>4, <1>5 DEF IInv, Supply, Future

(* A byte that is pushed, from wherever it comes: what is returned and     *)
(* what is to be found from the new place on is what was to be found from  *)
(* the old, whatever bytes follow.                                         *)
LEMMA PushKeeps ==
  ASSUME IInv, NEW byte \in Byte, Push(byte), rest' \in Rest
  PROVE  IInv'
<1> DEFINE p == Place
<1>1. /\ TypeOK /\ line \in Seq(Byte) /\ got \in Seq(Returned) /\ buf \in Seq(Byte)
      /\ Window(line, p, buf) /\ Future /\ Buffer(buf, expect)
  BY TypedBuffer DEF IInv, Supply, TypeOK
<1>2. TypeOK' /\ line' \in Seq(Byte) /\ buf' \in Seq(Byte)
  BY <1>1, PushTypes DEF TypeOK
<1>3. /\ line' = Append(line, byte) /\ Len(line') = Len(line) + 1
      /\ Len(line) \in Nat /\ Len(buf) \in Nat /\ Len(buf') \in Nat
  BY <1>1, <1>2 DEF Push
<1>4. p + Len(buf) = Len(line) + 1 /\ p \in Nat /\ p >= 1
  BY <1>1, <1>3 DEF Place, Window
<1>5. p + Len(buf) + 1 - Len(buf') = Place'
  BY <1>3 DEF Place
<1> HIDE DEF p
<1>6. Window(line', p, Append(buf, byte))
  <2> DEFINE b == Append(buf, byte)
             d == Append(line, byte)
  <2>1. /\ Len(b) = Len(buf) + 1 /\ b[Len(buf) + 1] = byte
        /\ \A k \in 1 .. Len(buf) : b[k] = buf[k]
    BY <1>1, Longer
  <2>2. /\ Len(d) = Len(line) + 1 /\ d[Len(line) + 1] = byte
        /\ \A k \in 1 .. Len(line) : d[k] = line[k]
    BY <1>1, Longer
  <2> HIDE DEF b, d
  <2>3. ASSUME NEW k \in 1 .. Len(b) PROVE d[p + k - 1] = b[k]
    <3>1. CASE k = Len(buf) + 1
      <4>1. p + k - 1 = Len(line) + 1
        BY <1>3, <1>4, <3>1
      <4> QED
        BY <2>1, <2>2, <3>1, <4>1
    <3>2. CASE k \in 1 .. Len(buf)
      <4>1. p + k - 1 \in 1 .. Len(line)
        BY <1>3, <1>4, <3>2
      <4>2. line[p + k - 1] = buf[k]
        BY <1>1, <3>2 DEF Window
      <4> QED
        BY <2>1, <2>2, <3>2, <4>1, <4>2
    <3> QED
      BY <1>3, <2>1, <3>1, <3>2
  <2>4. p \in Nat \ {0} /\ p + Len(b) - 1 <= Len(d)
    BY <1>3, <1>4, <2>1, <2>2
  <2>5. Window(d, p, b)
    BY <2>3, <2>4 DEF Window
  <2> QED
    BY <1>3, <2>5 DEF b, d
<1>7. ReadsOn(line', Place', got \o Frames(line')[p])
  BY <1>1, <1>2, <1>4, <1>5, <1>6, PushReads
<1>8. ASSUME NEW t \in Seq(Byte)
      PROVE  Frames(line' \o t)[1] = got' \o Frames(line' \o t)[Place']
  <2> DEFINE s == line' \o t
             u == <<byte>> \o t
  <2>1. s \in Seq(Byte) /\ u \in Seq(Byte)
    BY <1>2, Joined
  <2>2. s = line \o u
    BY <1>1, <1>3
  <2>3. Window(s, p, Append(buf, byte))
    BY <1>1, <1>2, <1>6, Longer, WindowGrows
  <2>4. Frames(s)[1] = got \o Frames(s)[p]
    BY <1>1, <2>1, <2>2 DEF Future, p
  <2> HIDE DEF s
  <2>5. ReadsOn(s, Place', got \o Frames(s)[p])
    BY <1>1, <1>4, <1>5, <2>1, <2>3, PushReads
  <2> QED
    BY <2>4, <2>5 DEF ReadsOn, s
<1>9. got' \in Seq(Returned) /\ Window(line', Place', buf')
  BY <1>7 DEF ReadsOn
<1> QED
  BY <1>2, <1>8, <1>9 DEF IInv, Supply, Future

(* Noise and frames push a byte; the start of a frame and a cut push none. *)
LEMMA StepKeeps == IInv /\ [Next]_vars => IInv'
<1> SUFFICES ASSUME IInv, [Next]_vars PROVE IInv'
  OBVIOUS
<1>1. rest \in Rest
  BY DEF IInv, Supply
<1>2. ASSUME UNCHANGED <<buf, expect, line, got>>, rest' \in Rest
      PROVE  IInv'
  BY <1>2 DEF IInv, Supply, TypeOK, Place, Future
<1>3. ASSUME NEW byte \in Byte, Noise(byte) PROVE IInv'
  BY <1>1, <1>3, PushKeeps DEF Noise
<1>4. ASSUME NEW m \in Messages, StartFrame(m) PROVE IInv'
  <2>1. rest' = [bytes |-> Encode(m), msg |-> m] /\ Encode(m) \in Seq(Byte)
    BY <1>4, EncodeType DEF StartFrame
  <2>2. rest' \in Rest
    BY <2>1 DEF Rest
  <2> QED
    BY <1>2, <1>4, <2>2 DEF StartFrame
<1>5. CASE SendByte
  <2>1. rest.bytes # <<>> /\ rest' = [rest EXCEPT !.bytes = Tail(@)] /\ Push(Head(rest.bytes))
    BY <1>5 DEF SendByte, Idle
  <2>2. Head(rest.bytes) \in Byte /\ Tail(rest.bytes) \in Seq(Byte)
    <3>1. rest.bytes \in Seq(Byte)
      BY <1>1 DEF Rest
    <3> QED
      BY <2>1, <3>1, HeadTailProperties
  <2>3. rest' \in Rest
    BY <1>1, <2>1, <2>2 DEF Rest
  <2> QED
    BY <2>1, <2>2, <2>3, PushKeeps
<1>6. CASE CutShort
  <2>1. rest' = [rest EXCEPT !.bytes = <<>>] /\ <<>> \in Seq(Byte)
    BY <1>6 DEF CutShort
  <2>2. rest' \in Rest
    BY <1>1, <2>1 DEF Rest
  <2> QED
    BY <1>2, <1>6, <2>2 DEF CutShort
<1>7. CASE UNCHANGED vars
  BY <1>1, <1>2, <1>7 DEF vars
<1> QED
  BY <1>3, <1>4, <1>5, <1>6, <1>7 DEF Next

-----------------------------------------------------------------------------
(* The theorems. *)

(* IInv holds in every state of every behaviour.                           *)
THEOREM Inductive == Spec => []IInv
  BY InitKeeps, StepKeeps, PTL DEF Spec

(* The buffer holds the beginning of one frame and has room for the next   *)
(* byte: sbgc_parser_push never writes past p->buf, and the last test of   *)
(* the function, that drops a full buffer, is never met.                   *)
THEOREM ParserTypeCorrect == Spec => []TypeOK
<1>1. IInv => TypeOK
  BY DEF IInv
<1> QED
  BY <1>1, Inductive, PTL

(* When the line ends here nothing is left to find.                        *)
LEMMA NothingLeft ==
  ASSUME IInv
  PROVE  Frames(line)[Place] = <<>>
<1> DEFINE p == Place
<1>1. /\ line \in Seq(Byte) /\ buf \in Seq(Byte) /\ Window(line, p, buf)
      /\ Buffer(buf, expect)
  BY TypedBuffer DEF IInv, Supply, TypeOK
<1>2. /\ p \in Nat /\ p >= 1 /\ Len(line) \in Nat /\ Len(buf) \in Nat
      /\ p + Len(buf) = Len(line) + 1
  BY <1>1 DEF Window, Place
<1> HIDE DEF p
<1>3. p \in 1 .. Len(line) + 1
  BY <1>2
<1>4. CASE buf = <<>>
  <2>1. Len(buf) = 0
    BY <1>4
  <2>2. p > Len(line)
    BY <1>2, <2>1
  <2>3. line \in Seq(Byte)
    BY <1>1
  <2>4. Frames(line)[p] = <<>>
    BY <1>3, <2>2, <2>3, PastEnd
  <2> QED
    BY <2>4 DEF p
<1>5. CASE buf # <<>>
  <2>1. buf[1] = Start /\ p \in 1 .. Len(line) /\ line[p] = buf[1]
    BY <1>1, <1>5, WindowBegins DEF Buffer
  <2>2. CASE Len(buf) < 4
    <3>1. ~(p + 3 <= Len(line))
      BY <1>2, <2>2
    <3> QED
      BY <1>1, <1>3, <2>1, <3>1, Stopped DEF Begins, Whole, p
  <2>3. CASE Len(buf) >= 4
    <3>1. HeaderHolds(buf) /\ expect = 4 + buf[3] + 1 /\ Len(buf) < expect
      BY <1>1, <2>3 DEF Buffer, Known
    <3>2. Begins(line, p)
      BY <1>1, <1>5, <2>1, <2>3, <3>1, WindowBegins
    <3>3. buf[3] \in Nat /\ line[p + 2] = buf[3]
      <4>1. 3 \in 1 .. Len(buf) /\ p + 3 - 1 = p + 2
        BY <1>2, <2>3
      <4>2. buf[3] \in Byte
        BY <1>1, <4>1, AnyByte
      <4> QED
        BY <1>1, <4>1, <4>2, ByteFacts DEF Byte, Window
    <3>4. EndOf(line, p) > Len(line)
      <4> DEFINE x == buf[3]
                 y == line[p + 2]
      <4>1. x \in Nat /\ y = x /\ EndOf(line, p) = p + 4 + y
        BY <3>3 DEF EndOf
      <4>2. Len(buf) < 4 + x + 1
        BY <3>1
      <4> HIDE DEF x, y
      <4> QED
        BY <1>2, <4>1, <4>2
    <3>5. ~Whole(line, p)
      <4>1. EndOf(line, p) \in Int
        <5> DEFINE y == line[p + 2]
        <5>1. y \in Nat
          BY <3>3
        <5>2. EndOf(line, p) = p + 4 + y
          BY DEF EndOf
        <5> HIDE DEF y
        <5> QED
          BY <1>2, <5>1, <5>2
      <4> QED
        BY <1>2, <3>4, <4>1 DEF Whole
    <3> QED
      BY <1>1, <1>3, <3>2, <3>5, Stopped DEF p
  <2> QED
    BY <1>2, <2>2, <2>3
<1> QED
  BY <1>4, <1>5

(* Byte by byte sbgc_parser_push returns exactly the frames that a reader  *)
(* of the whole line finds, each at the byte that completes it, whatever   *)
(* noise and false headers are on the line: what its memmove keeps after a *)
(* false header is exactly what has still to be read.                      *)
THEOREM ParserIsScan == Spec => []ParserScans
<1>1. IInv => ParserScans
  <2> SUFFICES ASSUME IInv PROVE got = Frames(line)[1]
    BY DEF ParserScans, Scan
  <2>1. /\ line \in Seq(Byte) /\ got \in Seq(Returned) /\ Future
        /\ <<>> \in Seq(Byte)
    BY DEF IInv, Supply
  <2>2. line \o <<>> = line /\ got \o <<>> = got
    BY <2>1
  <2>3. Frames(line)[1] = got \o Frames(line)[Place]
    BY <2>1, <2>2 DEF Future
  <2> QED
    BY <2>2, <2>3, NothingLeft
<1> QED
  BY <1>1, Inductive, PTL

-----------------------------------------------------------------------------
(* Where the parser stands when whole frames come.                         *)

(* The parts of a frame.                                                   *)
LEMMA EncodeParts ==
  ASSUME NEW m \in Messages
  PROVE  LET e == Encode(m)
             n == Len(m.payload)
         IN  /\ n \in Byte
             /\ e[1] = Start /\ e[2] = m.id /\ e[3] = n /\ e[4] = HeaderSum(m.id, n)
             /\ SubSeq(e, 5, n + 4) = m.payload
             /\ e[n + 5] = Sum(m.payload)
<1> DEFINE pay  == m.payload
           n    == Len(pay)
           head == <<Start, m.id, n, HeaderSum(m.id, n)>>
           tail == <<Sum(pay)>>
           both == head \o pay
           e    == Encode(m)
<1>1. m.id \in Byte /\ pay \in Seq(Byte) /\ n \in Nat /\ n <= MaxPayload
  BY FrameAssumption
<1>2. n \in Byte
  BY <1>1, ByteFacts DEF Byte, MaxPayload
<1>3. head \in Seq(Byte)
  <2>1. HeaderSum(m.id, n) \in Byte
    BY <1>1, <1>2, ByteFacts DEF HeaderSum
  <2> QED
    BY <1>1, <1>2, <2>1, ByteFacts
<1>4. tail \in Seq(Byte) /\ Len(tail) = 1 /\ tail[1] = Sum(pay)
  BY <1>1, SumType
<1>5. /\ e = both \o tail /\ Len(head) = 4
      /\ head[1] = Start /\ head[2] = m.id /\ head[3] = n
      /\ head[4] = HeaderSum(m.id, n)
  BY DEF Encode
<1>6. e \in Seq(Byte) /\ Len(e) = n + 5
  BY EncodeType
<1> HIDE DEF head, tail, pay, e
<1>7. /\ both \in Seq(Byte) /\ Len(both) = Len(head) + Len(pay)
      /\ \A k \in 1 .. Len(head) : both[k] = head[k]
      /\ \A k \in 1 .. Len(pay) : both[Len(head) + k] = pay[k]
  BY <1>1, <1>3
<1> HIDE DEF both
<1>8. /\ \A k \in 1 .. Len(both) : e[k] = both[k]
      /\ \A k \in 1 .. Len(tail) : e[Len(both) + k] = tail[k]
  <2>1. both \in Seq(Byte) /\ tail \in Seq(Byte) /\ e = both \o tail
    BY <1>4, <1>5, <1>7
  <2> HIDE DEF tail, both
  <2> QED
    BY <2>1
<1>9. Len(both) = n + 4 /\ \A k \in 1 .. n : both[4 + k] = pay[k]
  BY <1>1, <1>5, <1>7
<1>10. \A k \in 1 .. 4 : e[k] = head[k]
  <2>1. ASSUME NEW k \in 1 .. 4 PROVE k \in 1 .. Len(head) /\ k \in 1 .. Len(both)
    BY <1>1, <1>5, <1>9
  <2> QED
    BY <1>7, <1>8, <2>1
<1>11. e[n + 5] = Sum(pay)
  <2>1. 1 \in 1 .. Len(tail)
    BY <1>4
  <2>2. e[Len(both) + 1] = tail[1] /\ Len(both) + 1 = n + 5
    BY <1>1, <1>8, <1>9, <2>1
  <2> QED
    BY <1>4, <2>2
<1>12. SubSeq(e, 5, n + 4) = pay
  <2> DEFINE c == SubSeq(e, 5, n + 4)
  <2>1. ASSUME NEW k \in 5 .. n + 4 PROVE e[k] \in Byte
    BY <1>1, <1>6
  <2>2. 5 \in Int /\ n + 4 \in Int /\ n + 4 - 5 + 1 = n /\ (5 <= n + 4 <=> n > 0)
    BY <1>1
  <2>3. c \in Seq(Byte) /\ Len(c) = n /\ \A k \in 1 .. n : c[k] = e[5 + k - 1]
    BY <1>1, <2>1, <2>2, SubSeqProperties
  <2> HIDE DEF c
  <2>4. ASSUME NEW k \in 1 .. n PROVE c[k] = pay[k]
    <3>1. 5 + k - 1 = 4 + k /\ 4 + k \in 1 .. Len(both)
      BY <1>1, <1>9
    <3> QED
      BY <1>8, <1>9, <2>3, <3>1
  <2>5. c = pay
    BY <1>1, <2>3, <2>4
  <2> QED
    BY <2>5 DEF c
<1>13. e[1] = Start /\ e[2] = m.id /\ e[3] = n /\ e[4] = HeaderSum(m.id, n)
  <2>1. e[1] = head[1] /\ e[2] = head[2] /\ e[3] = head[3] /\ e[4] = head[4]
    BY <1>10
  <2> QED
    BY <1>5, <2>1
<1> QED
  BY <1>2, <1>11, <1>12, <1>13 DEF pay, e

(* The beginning b of a frame with a byte more of it.                      *)
Grows(b, more, e) ==
  LET c == Append(b, Head(more))
  IN  /\ Head(more) \in Byte /\ Tail(more) \in Seq(Byte)
      /\ Len(Tail(more)) = Len(more) - 1 /\ Len(more) \in Nat /\ Len(more) > 0
      /\ c \in Seq(Byte) /\ c # <<>> /\ Len(c) = Len(b) + 1
      /\ Len(e) = Len(b) + Len(more)
      /\ c \o Tail(more) = e
      /\ \A k \in 1 .. Len(c) : c[k] = e[k]
      /\ Tail(more) = <<>> => c = e

(* The first byte of what is missing added to what is there.               *)
LEMMA FrameGrows ==
  ASSUME NEW b \in Seq(Byte), NEW more \in Seq(Byte), more # <<>>, NEW e,
         b \o more = e
  PROVE  Grows(b, more, e)
<1> DEFINE byte == Head(more)
           t    == Tail(more)
           c    == Append(b, byte)
<1>1. /\ byte \in Byte /\ t \in Seq(Byte) /\ Len(t) = Len(more) - 1
      /\ Len(more) \in Nat /\ Len(more) > 0 /\ Len(b) \in Nat
      /\ \A k \in 1 .. Len(t) : t[k] = more[k + 1]
      /\ more[1] = byte
  BY HeadTailProperties
<1> HIDE DEF byte, t
<1>2. /\ c \in Seq(Byte) /\ Len(c) = Len(b) + 1 /\ c # <<>>
      /\ c[Len(b) + 1] = byte /\ \A k \in 1 .. Len(b) : c[k] = b[k]
  BY <1>1, AppendProperties
<1> HIDE DEF c
<1>3. /\ e \in Seq(Byte) /\ Len(e) = Len(b) + Len(more)
      /\ \A k \in 1 .. Len(b) : e[k] = b[k]
      /\ \A k \in 1 .. Len(more) : e[Len(b) + k] = more[k]
  <2>1. Join(b, more, e)
    BY JoinedParts
  <2> QED
    BY <2>1 DEF Join
<1> DEFINE d == c \o t
<1>4. /\ d \in Seq(Byte) /\ Len(d) = Len(c) + Len(t)
      /\ \A k \in 1 .. Len(c) : d[k] = c[k]
      /\ \A k \in 1 .. Len(t) : d[Len(c) + k] = t[k]
  <2>1. Join(c, t, d)
    BY <1>1, <1>2, JoinedParts
  <2> HIDE DEF d
  <2> QED
    BY <2>1 DEF Join
<1>5. ASSUME NEW k \in 1 .. Len(c) PROVE c[k] = e[k]
  <2>1. CASE k \in 1 .. Len(b)
    BY <1>2, <1>3, <2>1
  <2>2. CASE k = Len(b) + 1
    <3>1. 1 \in 1 .. Len(more)
      BY <1>1
    <3> QED
      BY <1>1, <1>2, <1>3, <2>2, <3>1
  <2> QED
    BY <1>1, <1>2, <2>1, <2>2
<1> HIDE DEF d
<1>6. Len(d) = Len(e)
  BY <1>1, <1>2, <1>3, <1>4
<1>7. ASSUME NEW k \in 1 .. Len(d) PROVE d[k] = e[k]
  <2>1. CASE k \in 1 .. Len(c)
    BY <1>4, <1>5, <2>1
  <2>2. CASE k \notin 1 .. Len(c)
    <3> DEFINE j == k - Len(c)
    <3>1. /\ j \in 1 .. Len(t) /\ k = Len(c) + j
          /\ j + 1 \in 1 .. Len(more) /\ k = Len(b) + (j + 1)
      BY <1>1, <1>2, <1>4, <2>2
    <3> HIDE DEF j
    <3>2. d[k] = t[j] /\ t[j] = more[j + 1] /\ e[k] = more[j + 1]
      BY <1>1, <1>3, <1>4, <3>1
    <3> QED
      BY <3>2
  <2> QED
    BY <2>1, <2>2
<1>8. d = e
  BY <1>3, <1>4, <1>6, <1>7
<1>9. t = <<>> => c = d
  BY <1>2 DEF d
<1> QED
  BY <1>1, <1>2, <1>3, <1>5, <1>8, <1>9 DEF Grows, byte, t, c, d

(* A parser that is inside a frame stays in it to its end.                 *)
LEMMA FollowsOn ==
  ASSUME Buffer(buf, expect), buf # <<>>, NEW m \in Messages,
         NEW more \in Seq(Byte), more # <<>>, buf \o more = Encode(m),
         Push(Head(more))
  PROVE  /\ Tail(more) # <<>> => buf' # <<>> /\ buf' \o Tail(more) = Encode(m)
         /\ Tail(more) = <<>> =>
              /\ buf' = <<>>
              /\ got' = got \o <<[at |-> Len(line) + 1, id |-> m.id,
                                  payload |-> m.payload]>>
<1> DEFINE byte == Head(more)
           t    == Tail(more)
           b    == Append(buf, byte)
           e    == Encode(m)
           n    == Len(m.payload)
           rec  == [at |-> Len(line) + 1, id |-> m.id, payload |-> m.payload]
<1>1. /\ buf \in Seq(Byte) /\ Short(buf, expect) /\ Known(buf, expect) /\ Len(buf) \in Nat
      /\ Len(buf) > 0
  BY DEF Buffer
<1>g. Grows(buf, more, e)
  BY <1>1, FrameGrows
<1>2. /\ byte \in Byte /\ t \in Seq(Byte) /\ Len(t) = Len(more) - 1
      /\ Len(more) \in Nat /\ Len(more) > 0
      /\ b \in Seq(Byte) /\ b # <<>> /\ Len(b) = Len(buf) + 1
      /\ Len(e) = Len(buf) + Len(more)
      /\ b \o t = e /\ (t = <<>> => b = e)
  BY <1>g DEF Grows
<1>3. \A k \in 1 .. Len(b) : b[k] = e[k]
  BY <1>g DEF Grows
<1>4. /\ n \in Byte /\ e[1] = Start /\ e[2] = m.id /\ e[3] = n
      /\ e[4] = HeaderSum(m.id, n) /\ SubSeq(e, 5, n + 4) = m.payload
      /\ e[n + 5] = Sum(m.payload) /\ Len(e) = n + 5
  BY EncodeParts, EncodeType
<1>5. Push(byte)
  OBVIOUS
<1>6. n \in Nat /\ n < Base /\ Base \in Nat /\ MaxFrame = Base + 4
  BY <1>4, ByteFacts DEF Byte
<1>7. t = <<>> <=> Len(b) = Len(e)
  <2>1. Len(t) = 0 <=> t = <<>>
    <3>1. t \in Seq(Byte)
      BY <1>2
    <3> HIDE DEF t
    <3> QED
      BY <3>1
  <2> HIDE DEF t, b, e
  <2> QED
    BY <1>1, <1>2, <2>1
<1> HIDE DEF byte, t, b, e, n
<1>8. Len(buf) >= 4 => expect = Len(e)
  <2> SUFFICES ASSUME Len(buf) >= 4 PROVE expect = Len(e)
    OBVIOUS
  <2>1. expect = 4 + buf[3] + 1
    BY <1>1 DEF Known
  <2>2. b[3] = buf[3]
    BY <1>1, <1>2, HeaderStays DEF b
  <2>3. b[3] = n
    <3>1. 3 \in 1 .. Len(b)
      BY <1>1, <1>2
    <3> QED
      BY <1>3, <1>4, <3>1
  <2>4. expect = 4 + n + 1
    BY <2>1, <2>2, <2>3
  <2>5. expect = n + 5
    BY <1>6, <2>4
  <2> QED
    BY <1>4, <2>5
<1>9. Len(buf) < 4 => Len(b) # expect
  BY <1>1, <1>2 DEF Short
<1>10. ~Hunt(byte)
  BY DEF Hunt
<1>11. Len(b) = 4 => HeaderHolds(b)
  <2> SUFFICES ASSUME Len(b) = 4 PROVE HeaderHolds(b)
    OBVIOUS
  <2>1. 2 \in 1 .. Len(b) /\ 3 \in 1 .. Len(b) /\ 4 \in 1 .. Len(b)
    OBVIOUS
  <2> QED
    BY <1>3, <1>4, <2>1 DEF HeaderHolds
<1>12. CASE Collect(byte)
  <2>1. Len(b) # 4 /\ Len(b) # expect
    BY <1>12 DEF Collect, b
  <2>2. t # <<>>
    BY <1>1, <1>2, <1>4, <1>6, <1>7, <1>8, <2>1
  <2>3. ~(Len(b) >= MaxFrame)
    <3>1. Len(b) < Len(e)
      <4>1. Len(t) > 0
        BY <1>2, <2>2
      <4> QED
        BY <1>1, <1>2, <4>1
    <3> QED
      BY <1>1, <1>2, <1>4, <1>6, <3>1
  <2>4. buf' = b
    BY <1>12, <2>3 DEF Collect, Leaves, b
  <2> QED
    BY <1>2, <2>2, <2>4 DEF t, e
<1>13. CASE AcceptHeader(byte)
  <2>1. Len(b) = 4 /\ buf' = b
    BY <1>13 DEF AcceptHeader, Leaves, b
  <2>2. t # <<>>
    <3>1. Len(b) # Len(e)
      BY <1>4, <1>6, <2>1
    <3> QED
      BY <1>7, <3>1
  <2> QED
    BY <1>2, <2>1, <2>2 DEF t, e
<1>14. CASE RejectHeader(byte)
  BY <1>11, <1>14 DEF RejectHeader, b
<1>15. CASE Finish(byte)
  <2>1. /\ Len(b) = expect /\ buf' = <<>>
        /\ got' = got \o (IF BodyHolds(b)
                          THEN <<[at |-> Len(line) + 1, id |-> b[2],
                                  payload |-> PayloadOf(b)]>>
                          ELSE <<>>)
    BY <1>15 DEF Finish, Leaves, Returns, b
  <2>2. t = <<>> /\ b = e
    BY <1>1, <1>2, <1>7, <1>8, <1>9, <2>1
  <2>3. PayloadOf(b) = m.payload
    <3>1. Len(e) - 1 = n + 4
      BY <1>4, <1>6
    <3> QED
      BY <1>4, <2>2, <3>1 DEF PayloadOf
  <2>4. BodyHolds(b)
    BY <1>4, <2>2, <2>3 DEF BodyHolds
  <2>5. b[2] = m.id
    BY <1>4, <2>2
  <2>6. got' = got \o <<rec>>
    BY <2>1, <2>3, <2>4, <2>5
  <2> QED
    BY <2>1, <2>2, <2>6 DEF t
<1> QED
  BY <1>5, <1>10, <1>12, <1>13, <1>14, <1>15 DEF Push

(* The place on the line where the frame the far end is in begins, or the  *)
(* next one will.                                                          *)
Begun == IF Idle THEN Len(line) + 1
         ELSE Len(line) + Len(rest.bytes) - Len(Encode(rest.msg)) + 1

AllClean ==
  /\ \A i \in 1 .. Len(sent) : Clean(sent[i])
  /\ Idle \/ Clean(rest.msg)

(* With what has still to come of it that frame is on the line.            *)
Carried ==
  /\ noise \in Nat /\ Begun \in Nat /\ noise < Begun
  /\ sent \in Seq(Returned)
  /\ \A i \in 1 .. Len(sent) : Len(Encode(sent[i])) \in Nat
  /\ ~Idle => /\ rest.msg \in Messages /\ Len(rest.bytes) <= Len(Encode(rest.msg))
              /\ Window(line \o rest.bytes, Begun, Encode(rest.msg))

(* Behind the noise a start byte begins a frame, and a frame has at least  *)
(* five bytes.                                                             *)
Tidy ==
  AllClean => \A q \in noise + 1 .. Begun - 1 : line[q] = Start => q + 5 <= Begun

(* The parser is between frames, or in the frame the far end is in.        *)
Follows == buf # <<>> => ~Idle /\ buf \o rest.bytes = Encode(rest.msg)

(* So it is when it reads on from behind the noise.                        *)
InSync == noise = 0 \/ (AllClean /\ Place > noise) => Follows

(* It has not missed the beginning of a frame far enough behind the noise. *)
Caught ==
  ~Idle /\ (noise = 0 \/ (AllClean /\ Begun >= noise + MaxFrame))
    => buf \o rest.bytes = Encode(rest.msg)

Resync == Carried /\ Tidy /\ InSync /\ Caught /\ Resynchronises

(* What a frame is does not depend on where it is.                         *)
LEMMA SameFrame ==
  ASSUME NEW f, NEW m, f.id = m.id, f.payload = m.payload
  PROVE  Encode(f) = Encode(m) /\ (Clean(f) <=> Clean(m))
  BY DEF Encode, Clean

(* What has been returned stays.                                           *)
LEMMA GotGrows ==
  ASSUME got \in Seq(Returned), NEW byte, Push(byte)
  PROVE  \A j \in 1 .. Len(got) : j \in 1 .. Len(got') /\ got'[j] = got[j]
<1>1. ASSUME NEW x, NEW r, x = <<>> \/ x = <<r>>, Returns(x)
      PROVE  \A j \in 1 .. Len(got) : j \in 1 .. Len(got') /\ got'[j] = got[j]
  <2> DEFINE S == Returned \cup {r}
  <2>1. got \in Seq(S)
    OBVIOUS
  <2>r. r \in S
    OBVIOUS
  <2> HIDE DEF S
  <2>s. <<>> \in Seq(S) /\ <<r>> \in Seq(S)
    BY <2>r
  <2>2. x \in Seq(S) /\ Len(x) \in Nat /\ Len(got) \in Nat
    <3>1. x \in Seq(S)
      BY <1>1, <2>s
    <3> QED
      BY <2>1, <3>1
  <2>3. /\ Len(got \o x) = Len(got) + Len(x)
        /\ \A i \in 1 .. Len(got) + Len(x) :
             (got \o x)[i] = IF i <= Len(got) THEN got[i] ELSE x[i - Len(got)]
    BY <2>1, <2>2, ConcatProperties
  <2>4. got' = got \o x
    BY <1>1 DEF Returns
  <2>5. ASSUME NEW j \in 1 .. Len(got) PROVE j \in 1 .. Len(got') /\ got'[j] = got[j]
    <3>1. j \in 1 .. Len(got) + Len(x) /\ j <= Len(got)
      BY <2>2
    <3> QED
      BY <2>3, <2>4, <3>1
  <2> QED
    BY <2>5
<1>2. CASE Hunt(byte) \/ Collect(byte) \/ AcceptHeader(byte) \/ RejectHeader(byte)
  <2>1. Returns(<<>>)
    BY <1>2 DEF Hunt, Collect, AcceptHeader, RejectHeader
  <2> QED
    BY <1>1, <2>1
<1>3. CASE Finish(byte)
  <2> DEFINE r == [at |-> Len(line) + 1, id |-> Append(buf, byte)[2],
                   payload |-> PayloadOf(Append(buf, byte))]
  <2>1. PICK x : Returns(x) /\ (x = <<>> \/ x = <<r>>)
    BY <1>3 DEF Finish
  <2> HIDE DEF r
  <2> QED
    BY <1>1, <2>1
<1> QED
  BY <1>2, <1>3 DEF Push

(* A buffer that does not begin where the one before it began is short.    *)
LEMMA Restarts ==
  ASSUME Buffer(buf, expect), line \in Seq(Byte), NEW byte \in Byte, Push(byte),
         buf' # <<>>, buf = <<>> \/ Place' # Place
  PROVE  Len(buf') <= 3
<1> DEFINE b == Append(buf, byte)
<1>1. buf \in Seq(Byte) /\ Len(buf) \in Nat /\ Len(line) \in Nat
  BY DEF Buffer
<1>2. b \in Seq(Byte) /\ Len(b) = Len(buf) + 1
  BY <1>1, Longer
<1>3. Len(line') = Len(line) + 1
  BY DEF Push
<1>4. buf' = b => Place' = Place
  BY <1>1, <1>2, <1>3 DEF Place
<1> HIDE DEF b
<1>5. buf = <<>> => Len(b) = 1
  BY <1>2
<1>6. CASE Hunt(byte)
  <2>1. buf' = <<byte>>
    BY <1>6 DEF Hunt, Leaves
  <2> QED
    BY <2>1
<1>7. CASE Collect(byte)
  <2>1. buf # <<>> /\ buf' = b
    BY <1>7 DEF Collect, Leaves, b
  <2> QED
    BY <1>4, <2>1
<1>8. CASE AcceptHeader(byte)
  <2>1. Len(b) = 4 /\ buf' = b
    BY <1>8 DEF AcceptHeader, Leaves, b
  <2> QED
    BY <1>4, <1>5, <2>1
<1>9. CASE RejectHeader(byte)
  <2> DEFINE starts == {i \in 2 .. 4 : b[i] = Start}
             first == CHOOSE i \in starts : \A j \in starts : i <= j
  <2>1. Len(b) = 4 /\ starts # {} /\ buf' = SubSeq(b, first, 4)
    BY <1>9 DEF RejectHeader, Leaves, b
  <2>2. first \in starts
    <3>1. \E x \in starts : \A j \in starts : x <= j
      BY <2>1, LeastNumber
    <3> QED
      BY <3>1
  <2>3. first \in 2 .. 4
    BY <2>2
  <2> HIDE DEF first
  <2>4. ASSUME NEW k \in first .. 4 PROVE b[k] \in Byte
    <3>1. k \in 1 .. Len(b)
      BY <2>1, <2>3
    <3> QED
      BY <1>2, <3>1, AnyByte
  <2>5. Len(SubSeq(b, first, 4)) = 4 - first + 1
    BY <2>3, <2>4, SubSeqProperties
  <2> QED
    BY <2>1, <2>3, <2>5
<1>10. CASE Finish(byte)
  BY <1>10 DEF Finish, Leaves
<1> QED
  BY <1>6, <1>7, <1>8, <1>9, <1>10 DEF Push

(* Bytes that stand where the frame e begins on the line, with what has    *)
(* still to come of it, are the frame.                                     *)
LEMMA WindowCompletes ==
  ASSUME NEW s \in Seq(Byte), NEW t \in Seq(Byte), NEW e \in Seq(Byte),
         NEW b \in Seq(Byte), NEW p,
         Window(s, p, b), p + Len(b) - 1 = Len(s),
         Window(s \o t, p, e), p + Len(e) - 1 = Len(s) + Len(t)
  PROVE  b \o t = e
<1> DEFINE st == s \o t
           bt == b \o t
<1>1. /\ p \in Nat /\ p >= 1 /\ Len(s) \in Nat /\ Len(t) \in Nat /\ Len(b) \in Nat
      /\ Len(e) \in Nat
  BY DEF Window
<1>2. Join(s, t, st) /\ Join(b, t, bt)
  BY JoinedParts
<1>3. Window(st, p, e)
  OBVIOUS
<1> HIDE DEF st, bt
<1>4. /\ bt \in Seq(Byte) /\ Len(bt) = Len(b) + Len(t)
      /\ \A k \in 1 .. Len(b) : bt[k] = b[k]
      /\ \A k \in 1 .. Len(t) : bt[Len(b) + k] = t[k]
  BY <1>2 DEF Join
<1>5. /\ \A k \in 1 .. Len(s) : st[k] = s[k]
      /\ \A k \in 1 .. Len(t) : st[Len(s) + k] = t[k]
  BY <1>2 DEF Join
<1>6. Len(bt) = Len(e)
  BY <1>1, <1>4
<1>7. ASSUME NEW k \in 1 .. Len(e) PROVE bt[k] = e[k]
  <2>1. st[p + k - 1] = e[k]
    BY <1>3 DEF Window
  <2>2. CASE k \in 1 .. Len(b)
    <3>1. p + k - 1 \in 1 .. Len(s)
      BY <1>1, <2>2
    <3>2. s[p + k - 1] = b[k]
      BY <2>2 DEF Window
    <3> QED
      BY <1>4, <1>5, <2>1, <2>2, <3>1, <3>2
  <2>3. CASE k \notin 1 .. Len(b)
    <3> DEFINE j == k - Len(b)
    <3>1. /\ Len(e) = Len(b) + Len(t) /\ Len(b) \in Nat /\ Len(t) \in Nat
          /\ k \in Nat /\ k <= Len(e) /\ k > Len(b) /\ p \in Nat
      BY <1>1, <1>4, <1>6, <2>3
    <3>2. j \in 1 .. Len(t) /\ k = Len(b) + j
      BY <3>1
    <3>3. p + k - 1 = Len(s) + j
      <4> DEFINE x == Len(b)
                 y == Len(s)
      <4>1. /\ x \in Nat /\ y \in Nat /\ p \in Nat /\ k \in Nat
            /\ p + x - 1 = y /\ j = k - x
        BY <1>1, <3>1
      <4> HIDE DEF x, y, j
      <4>2. p + k - 1 = y + j
        BY <4>1
      <4> QED
        BY <4>2 DEF y
    <3> HIDE DEF j
    <3> QED
      BY <1>4, <1>5, <2>1, <3>2, <3>3
  <2> QED
    BY <2>2, <2>3
<1>8. bt = e
  BY <1>4, <1>6, <1>7
<1> QED
  BY <1>8 DEF bt

(* SendByte.                                                               *)
More  == Tail(rest.bytes)
Frame == Encode(rest.msg)

Sends ==
  /\ rest.msg \in Messages /\ Frame \in Seq(Byte) /\ Len(Frame) \in Nat
  /\ Len(Frame) >= 5
  /\ rest.bytes \in Seq(Byte) /\ rest.bytes # <<>>
  /\ Head(rest.bytes) \in Byte /\ More \in Seq(Byte)
  /\ Len(rest.bytes) \in Nat /\ Len(More) = Len(rest.bytes) - 1
  /\ rest'.bytes = More /\ rest'.msg = rest.msg
  /\ Push(Head(rest.bytes))
  /\ line \in Seq(Byte) /\ line' = Append(line, Head(rest.bytes)) /\ line' \in Seq(Byte)
  /\ Len(line) \in Nat /\ Len(line') = Len(line) + 1
  /\ line' \o More = line \o rest.bytes
  /\ Begun \in Nat /\ Begun >= 1 /\ noise < Begun /\ noise \in Nat
  /\ Begun + Len(Frame) - 1 = Len(line) + Len(rest.bytes)
  /\ Window(line \o rest.bytes, Begun, Frame)
  /\ Len(rest.bytes) <= Len(Frame)
  /\ noise' = noise

(* What the invariants say of a step that sends a byte, in one place.      *)
LEMMA SendFacts ==
  ASSUME IInv, Carried, SendByte
  PROVE  Sends
<1>1. /\ line \in Seq(Byte) /\ rest \in Rest
  BY DEF IInv, Supply
<1>2. /\ ~Idle /\ rest.bytes # <<>> /\ rest' = [rest EXCEPT !.bytes = More]
      /\ Push(Head(rest.bytes)) /\ noise' = noise
  BY DEF SendByte, Idle, More
<1>3. rest.bytes \in Seq(Byte) /\ rest'.bytes = More /\ rest'.msg = rest.msg
  BY <1>1, <1>2 DEF Rest
<1>4. /\ rest.msg \in Messages /\ noise < Begun /\ noise \in Nat /\ Begun \in Nat
      /\ Len(rest.bytes) <= Len(Frame) /\ Window(line \o rest.bytes, Begun, Frame)
  BY <1>2 DEF Carried, Frame
<1>5. Frame \in Seq(Byte) /\ Len(Frame) \in Nat /\ Len(Frame) >= 5
  <2>1. /\ Frame \in Seq(Byte) /\ Len(Frame) = Len(rest.msg.payload) + 5
        /\ rest.msg.payload \in Seq(Byte)
    BY <1>4, EncodeType, FrameAssumption DEF Frame
  <2> DEFINE n == Len(rest.msg.payload)
  <2>2. n \in Nat
    BY <2>1
  <2> HIDE DEF n
  <2>3. Len(Frame) = n + 5
    BY <2>1 DEF n
  <2> QED
    BY <2>1, <2>2, <2>3
<1>6. /\ Head(rest.bytes) \in Byte /\ More \in Seq(Byte)
      /\ Len(rest.bytes) \in Nat /\ Len(More) = Len(rest.bytes) - 1
  BY <1>2, <1>3, HeadTailProperties DEF More
<1>7. line' = Append(line, Head(rest.bytes))
  BY <1>2 DEF Push
<1>8. line' \in Seq(Byte) /\ Len(line) \in Nat /\ Len(line') = Len(line) + 1
  BY <1>1, <1>6, <1>7
<1>9. line' \o More = line \o rest.bytes
  <2>1. Grows(line, rest.bytes, line \o rest.bytes)
    BY <1>1, <1>2, <1>3, FrameGrows
  <2> QED
    BY <1>7, <2>1 DEF Grows, More
<1>10. Begun = Len(line) + Len(rest.bytes) - Len(Frame) + 1
  BY <1>2 DEF Begun, Frame
<1>11. Begun >= 1 /\ Begun + Len(Frame) - 1 = Len(line) + Len(rest.bytes)
  BY <1>4, <1>5, <1>6, <1>8, <1>10
<1> QED
  BY <1>1, <1>2, <1>3, <1>4, <1>5, <1>6, <1>7, <1>8, <1>9, <1>11 DEF Sends

Record == [at |-> Len(line) + 1, id |-> rest.msg.id, payload |-> rest.msg.payload]

(* The frame goes on, or the next will begin behind it.                    *)
GoesOn ==
  ~Idle /\ ~Idle' /\ Begun' = Begun /\ sent' = sent /\ Frame' = Frame
Ends ==
  /\ ~Idle /\ Idle' /\ Begun' = Begun + Len(Frame) /\ Begun' = Len(line') + 1
  /\ sent' = Append(sent, Record)

(* It goes on while bytes are left and ends with the last.                 *)
LEMMA SendGoesOn ==
  ASSUME Sends, SendByte
  PROVE  /\ More # <<>> => GoesOn
         /\ More = <<>> => Ends
<1>1. /\ rest'.bytes = More /\ rest'.msg = rest.msg /\ rest.bytes # <<>>
      /\ Len(line') = Len(line) + 1 /\ Len(line) \in Nat /\ Len(More) = Len(rest.bytes) - 1
      /\ Len(rest.bytes) \in Nat /\ Len(Frame) \in Nat /\ Begun \in Nat
      /\ Begun + Len(Frame) - 1 = Len(line) + Len(rest.bytes)
      /\ rest.bytes \in Seq(Byte) /\ More \in Seq(Byte)
  BY DEF Sends
<1>2. ~Idle /\ (Idle' <=> More = <<>>)
  BY <1>1 DEF Idle
<1>3. More = <<>> <=> ~(Len(rest.bytes) > 1)
  <2>1. More = <<>> <=> Len(More) = 0
    <3>1. More \in Seq(Byte)
      BY <1>1
    <3> QED
      BY <3>1, EmptyBytes
  <2>2. Len(rest.bytes) > 0
    BY <1>1
  <2> QED
    BY <1>1, <2>1, <2>2
<1>4. Frame' = Frame
  BY <1>1 DEF Frame
<1>5. sent' = IF Len(rest.bytes) > 1 THEN sent ELSE Append(sent, Record)
  BY DEF SendByte, Record
<1>6. Begun' = IF Idle' THEN Len(line') + 1
               ELSE Len(line') + Len(More) - Len(Frame) + 1
  BY <1>1 DEF Begun, Frame
<1>7. CASE More # <<>>
  <2>1. Begun' = Len(line') + Len(More) - Len(Frame) + 1
    BY <1>2, <1>6, <1>7
  <2>2. /\ Len(line') = Len(line) + 1 /\ Len(line) \in Nat
        /\ Len(More) = Len(rest.bytes) - 1 /\ Len(rest.bytes) \in Nat
        /\ Len(Frame) \in Nat /\ Begun \in Nat
        /\ Begun + Len(Frame) - 1 = Len(line) + Len(rest.bytes)
    BY <1>1
  <2> DEFINE l == Len(line)
             k == Len(line')
             r == Len(rest.bytes)
             t == Len(More)
             f == Len(Frame)
  <2>3. /\ Begun' = k + t - f + 1 /\ k = l + 1 /\ t = r - 1 /\ Begun + f - 1 = l + r
        /\ l \in Nat /\ r \in Nat /\ f \in Nat /\ Begun \in Nat
    BY <2>1, <2>2
  <2> HIDE DEF l, k, r, t, f
  <2>4. Begun' = Begun
    BY <2>3
  <2> QED
    BY <1>2, <1>3, <1>4, <1>5, <1>7, <2>4 DEF GoesOn
<1>8. CASE More = <<>>
  <2>1. Begun' = Len(line') + 1 /\ Len(rest.bytes) = 1
    <3>1. ~(Len(rest.bytes) > 1) /\ Len(rest.bytes) > 0
      BY <1>1, <1>3, <1>8
    <3> QED
      BY <1>1, <1>2, <1>6, <1>8, <3>1
  <2>2. Begun' = Begun + Len(Frame)
    BY <1>1, <2>1
  <2> QED
    BY <1>2, <1>3, <1>5, <1>8, <2>1, <2>2 DEF Ends
<1> QED
  BY <1>7, <1>8

(* What a byte leaves clean was clean.                                     *)
LEMMA SendClean ==
  ASSUME Sends, SendByte, sent \in Seq(Returned), AllClean'
  PROVE  AllClean /\ Clean(rest.msg)
<1>1. CASE More # <<>>
  <2>1. ~Idle' /\ sent' = sent /\ rest'.msg = rest.msg
    BY <1>1, SendGoesOn DEF Sends, GoesOn
  <2> QED
    BY <2>1 DEF AllClean
<1>2. CASE More = <<>>
  <2>1. sent' = Append(sent, Record)
    BY <1>2, SendGoesOn DEF Ends
  <2> DEFINE S == Returned \cup {Record}
             n == Len(sent)
  <2>2. sent \in Seq(S) /\ n \in Nat
    OBVIOUS
  <2>3. Record \in S
    OBVIOUS
  <2> HIDE DEF S
  <2>4. /\ Len(sent') = n + 1 /\ sent'[n + 1] = Record
        /\ \A i \in 1 .. n : sent'[i] = sent[i]
    BY <2>1, <2>2, <2>3, AppendProperties
  <2>5. Clean(Record) <=> Clean(rest.msg)
    <3>1. Record.id = rest.msg.id /\ Record.payload = rest.msg.payload
      BY DEF Record
    <3> QED
      BY <3>1, SameFrame
  <2>6. \A i \in 1 .. n + 1 : Clean(sent'[i])
    BY <2>4 DEF AllClean
  <2>7. n + 1 \in 1 .. n + 1 /\ \A i \in 1 .. n : i \in 1 .. n + 1
    BY <2>2
  <2>8. Clean(rest.msg) /\ \A i \in 1 .. n : Clean(sent[i])
    BY <2>4, <2>5, <2>6, <2>7
  <2> QED
    BY <2>8 DEF AllClean
<1> QED
  BY <1>1, <1>2

(* Where the start bytes are.                                              *)
LEMMA SendStarts ==
  ASSUME Sends, Clean(rest.msg), NEW q \in Nat, Begun <= q, q <= Len(line'),
         line'[q] = Start
  PROVE  q = Begun
<1> DEFINE whole == line \o rest.bytes
           k     == q - Begun + 1
<1>1. /\ line' \in Seq(Byte) /\ More \in Seq(Byte) /\ whole = line' \o More
      /\ Window(whole, Begun, Frame) /\ Begun \in Nat /\ Begun >= 1
      /\ Begun + Len(Frame) - 1 = Len(line) + Len(rest.bytes)
      /\ Len(rest.bytes) \in Nat /\ Len(More) = Len(rest.bytes) - 1 /\ Len(Frame) \in Nat
      /\ Len(line') = Len(line) + 1 /\ Len(line) \in Nat
  BY DEF Sends
<1>0. Len(More) \in Nat
  BY <1>1
<1>2. Join(line', More, whole)
  BY <1>1, JoinedParts
<1> HIDE DEF whole
<1>3. q \in 1 .. Len(line') /\ k \in 1 .. Len(Frame) /\ Begun + k - 1 = q
  <2>1. q \in 1 .. Len(line') /\ k \in Nat /\ k >= 1 /\ Begun + k - 1 = q
    BY <1>1
  <2>2. q <= Begun + Len(Frame) - 1
    BY <1>0, <1>1
  <2> QED
    BY <1>1, <2>1, <2>2
<1>4. whole[q] = line'[q]
  BY <1>2, <1>3 DEF Join
<1>5. whole[q] = Frame[k]
  BY <1>1, <1>3 DEF Window
<1>6. Frame[k] = Start
  BY <1>4, <1>5
<1>7. ~(k \in 2 .. Len(Frame))
  BY <1>6 DEF Clean, Frame
<1> QED
  BY <1>1, <1>3, <1>7

(* The start bytes on the line keep their places.                          *)
LEMMA SendTidy ==
  ASSUME Sends, SendByte, sent \in Seq(Returned), Tidy
  PROVE  Tidy'
<1> SUFFICES ASSUME AllClean', NEW q \in noise' + 1 .. Begun' - 1, line'[q] = Start
             PROVE  q + 5 <= Begun'
  BY DEF Tidy
<1>1. AllClean /\ Clean(rest.msg)
  BY SendClean
<1>2. /\ noise' = noise /\ noise \in Nat /\ Begun \in Nat /\ Begun >= 1
      /\ Len(line') = Len(line) + 1 /\ Len(line) \in Nat /\ Len(Frame) \in Nat
      /\ Len(Frame) >= 5 /\ Len(rest.bytes) \in Nat /\ Len(rest.bytes) <= Len(Frame)
      /\ Begun + Len(Frame) - 1 = Len(line) + Len(rest.bytes)
  BY DEF Sends
<1>3. \A i \in 1 .. Len(line) : line'[i] = line[i]
  <2>1. line \in Seq(Byte) /\ Head(rest.bytes) \in Byte /\ line' = Append(line, Head(rest.bytes))
    BY DEF Sends
  <2> QED
    BY <2>1, Longer
<1>4. Begun <= Len(line) + 1
  BY <1>2
<1>5. Begun' = Begun \/ (Begun' = Begun + Len(Frame) /\ Begun' = Len(line') + 1)
  <2>1. GoesOn \/ Ends
    BY SendGoesOn
  <2> QED
    BY <2>1 DEF GoesOn, Ends
<1>6. q \in Nat /\ q >= noise + 1 /\ q <= Begun' - 1 /\ Begun' \in Nat /\ Begun' >= Begun
  BY <1>2, <1>5
<1>7. CASE q < Begun
  <2>1. q \in noise + 1 .. Begun - 1 /\ q \in 1 .. Len(line)
    BY <1>2, <1>4, <1>6, <1>7
  <2>2. line[q] = Start
    BY <1>3, <2>1
  <2>3. q + 5 <= Begun
    BY <1>1, <2>1, <2>2 DEF Tidy
  <2> QED
    BY <1>2, <1>6, <2>3
<1>8. CASE q >= Begun
  <2>1. Begun' = Begun + Len(Frame) /\ Begun' = Len(line') + 1
    <3>1. Begun' # Begun
      <4>1. q <= Begun' - 1 /\ Begun \in Nat /\ q \in Nat
        BY <1>2, <1>6
      <4> QED
        BY <1>8, <4>1
    <3> QED
      BY <1>5, <3>1
  <2>2. q <= Len(line')
    BY <1>2, <1>6, <2>1
  <2>3. q = Begun
    BY <1>1, <1>6, <1>8, <2>2, SendStarts
  <2> QED
    BY <1>2, <2>1, <2>3
<1> QED
  BY <1>2, <1>6, <1>7, <1>8

(* A parser between frames is taken into the next one by its first byte.   *)
LEMMA HuntFollows ==
  ASSUME Buffer(buf, expect), buf = <<>>, NEW byte \in Byte, Push(byte)
  PROVE  buf' = IF byte = Start THEN <<byte>> ELSE <<>>
<1>1. Append(buf, byte) = <<byte>> /\ Len(<<byte>>) = 1
  OBVIOUS
<1>2. expect = 0
  <2>1. Len(buf) = 0 /\ Short(buf, expect)
    BY DEF Buffer
  <2> QED
    BY <2>1 DEF Short
<1>3. ~Collect(byte) /\ ~AcceptHeader(byte) /\ ~RejectHeader(byte) /\ ~Finish(byte)
  BY <1>1, <1>2 DEF Collect, AcceptHeader, RejectHeader, Finish
<1> QED
  BY <1>3 DEF Push, Hunt, Leaves

(* A parser that is where the far end is stays there.                      *)
LEMMA SendFollows ==
  ASSUME IInv, Sends, SendByte, buf \o rest.bytes = Frame
  PROVE  /\ More # <<>> => buf' # <<>> /\ buf' \o More = Frame
         /\ More = <<>> => buf' = <<>> /\ got' = got \o <<Record>>
<1>1. /\ Buffer(buf, expect) /\ buf \in Seq(Byte)
  BY TypedBuffer DEF IInv, TypeOK
<1>2. /\ rest.bytes \in Seq(Byte) /\ rest.bytes # <<>> /\ Head(rest.bytes) \in Byte
      /\ Push(Head(rest.bytes)) /\ rest.msg \in Messages /\ Len(Frame) >= 5
      /\ More \in Seq(Byte)
  BY DEF Sends
<1>3. CASE buf # <<>>
  BY <1>1, <1>2, <1>3, FollowsOn DEF Frame, More, Record
<1>4. CASE buf = <<>>
  <2> DEFINE byte == Head(rest.bytes)
  <2>1. Grows(buf, rest.bytes, Frame)
    BY <1>1, <1>2, FrameGrows
  <2>2. Append(buf, byte) = <<byte>>
    BY <1>4
  <2>3. /\ <<byte>> \o More = Frame /\ Len(<<byte>>) = 1
        /\ \A k \in 1 .. 1 : <<byte>>[k] = Frame[k]
        /\ More = <<>> => <<byte>> = Frame
    BY <2>1, <2>2 DEF Grows, More
  <2>4. Frame[1] = Start
    BY <1>2, EncodeParts DEF Frame
  <2>5. byte = Start
    BY <2>3, <2>4
  <2>6. buf' = <<byte>>
    BY <1>1, <1>2, <1>4, <2>5, HuntFollows
  <2>7. More # <<>>
    BY <1>2, <2>3
  <2> QED
    BY <2>3, <2>6, <2>7
<1> QED
  BY <1>3, <1>4

(* A frame that the parser holds the beginning of is held with one more    *)
(* byte, and is dropped by no branch of Push while it is whole.            *)
LEMMA SendCaught ==
  ASSUME IInv, Sends, SendByte, sent \in Seq(Returned), Caught
  PROVE  Caught'
<1> SUFFICES ASSUME ~Idle', noise' = 0 \/ (AllClean' /\ Begun' >= noise' + MaxFrame)
             PROVE  buf' \o rest'.bytes = Frame'
  BY DEF Caught, Frame
<1>1. More # <<>> /\ GoesOn
  BY SendGoesOn DEF Ends
<1>2. ~Idle /\ Begun' = Begun /\ Frame' = Frame
  BY <1>1 DEF GoesOn
<1>3. noise' = noise /\ rest'.bytes = More
  BY DEF Sends
<1>4. noise = 0 \/ (AllClean /\ Begun >= noise + MaxFrame)
  BY <1>2, <1>3, SendClean
<1>5. buf \o rest.bytes = Frame
  BY <1>2, <1>4 DEF Caught, Frame
<1> QED
  BY <1>1, <1>2, <1>3, <1>5, SendFollows

(* Behind the noise the parser starts over only where the frame begins     *)
(* that the far end is in.                                                 *)
LEMMA SendRestarts ==
  ASSUME IInv, Sends, SendByte, sent \in Seq(Returned), Tidy, IInv',
         AllClean', Place' > noise, buf' # <<>>, buf = <<>> \/ Place' # Place
  PROVE  More # <<>> /\ buf' \o More = Frame
<1>1. /\ Buffer(buf, expect) /\ Window(line', Place', buf') /\ buf' \in Seq(Byte)
      /\ buf'[1] = Start
  BY TypedBuffer DEF IInv, TypeOK
<1>2. /\ line \in Seq(Byte) /\ line' \in Seq(Byte) /\ Head(rest.bytes) \in Byte
      /\ Push(Head(rest.bytes)) /\ More \in Seq(Byte) /\ Frame \in Seq(Byte)
      /\ line' \o More = line \o rest.bytes /\ Window(line \o rest.bytes, Begun, Frame)
  BY DEF Sends
<1>3. /\ noise \in Nat /\ Begun \in Nat /\ Begun >= 1 /\ Len(line) \in Nat
      /\ Len(line') = Len(line) + 1 /\ Len(Frame) \in Nat /\ Len(Frame) >= 5
      /\ Begun + Len(Frame) - 1 = Len(line) + Len(rest.bytes)
      /\ Len(rest.bytes) \in Nat /\ Len(rest.bytes) <= Len(Frame)
      /\ Len(More) = Len(rest.bytes) - 1
  BY DEF Sends
<1>4. Len(buf') <= 3
  BY <1>1, <1>2, Restarts
<1>5. Len(buf') \in Nat /\ Len(buf') > 0 /\ Place' = Len(line') - Len(buf') + 1
  BY <1>1 DEF Place
<1>6. Place' \in 1 .. Len(line') /\ line'[Place'] = Start
  BY <1>1, <1>2, WindowBegins
<1> DEFINE q == Place'
<1>7. q \in Nat /\ q <= Len(line') /\ q >= Len(line') - 2 /\ q > noise
  BY <1>3, <1>4, <1>5, <1>6
<1> HIDE DEF q
<1>8. q >= Begun
  <2> SUFFICES ASSUME q < Begun PROVE FALSE
    BY <1>3, <1>7
  <2>1. q \in noise + 1 .. Begun - 1 /\ q \in 1 .. Len(line)
    BY <1>3, <1>7
  <2>2. line[q] = Start
    <3>1. \A i \in 1 .. Len(line) : line'[i] = line[i]
      <4>1. line' = Append(line, Head(rest.bytes))
        BY DEF Sends
      <4> QED
        BY <1>2, <4>1, Longer
    <3> QED
      BY <1>6, <2>1, <3>1 DEF q
  <2>3. AllClean
    BY SendClean
  <2>4. q + 5 <= Begun
    BY <2>1, <2>2, <2>3 DEF Tidy
  <2> QED
    BY <1>3, <1>7, <2>4
<1>9. q = Begun
  <2>1. Clean(rest.msg)
    BY SendClean
  <2>2. line'[q] = Start
    BY <1>6 DEF q
  <2> QED
    BY <1>7, <1>8, <2>1, <2>2, SendStarts
<1>10. /\ Window(line', q, buf') /\ q + Len(buf') - 1 = Len(line')
       /\ Window(line' \o More, q, Frame)
       /\ q + Len(Frame) - 1 = Len(line') + Len(More)
  <2>1. Window(line', q, buf')
    BY <1>1 DEF q
  <2>2. q + Len(buf') - 1 = Len(line')
    <3>1. q = Len(line') - Len(buf') + 1
      BY <1>5 DEF q
    <3> QED
      BY <1>3, <1>5, <3>1
  <2>3. Window(line' \o More, q, Frame)
    BY <1>2, <1>9
  <2>4. q + Len(Frame) - 1 = Len(line') + Len(More)
    <3> DEFINE l == Len(line)
               k == Len(line')
               r == Len(rest.bytes)
               t == Len(More)
               f == Len(Frame)
    <3>1. /\ k = l + 1 /\ t = r - 1 /\ Begun + f - 1 = l + r
          /\ l \in Nat /\ r \in Nat /\ f \in Nat /\ Begun \in Nat
      BY <1>3
    <3> HIDE DEF l, k, r, t, f
    <3>2. q + f - 1 = k + t
      BY <1>9, <3>1
    <3> QED
      BY <3>2 DEF k, t, f
  <2> QED
    BY <2>1, <2>2, <2>3, <2>4
<1>11. buf' \o More = Frame
  BY <1>1, <1>2, <1>10, WindowCompletes
<1>12. More # <<>>
  <2> SUFFICES ASSUME More = <<>> PROVE FALSE
    OBVIOUS
  <2>1. buf' = Frame
    BY <1>1, <1>11
  <2> QED
    BY <1>3, <1>4, <2>1
<1> QED
  BY <1>11, <1>12

(* A parser whose buffer begins behind the noise holds the beginning of    *)
(* the frame being sent and of no other.                                   *)
LEMMA SendInSync ==
  ASSUME IInv, Sends, SendByte, sent \in Seq(Returned), Tidy, IInv', InSync, Caught
  PROVE  InSync'
<1> SUFFICES ASSUME noise' = 0 \/ (AllClean' /\ Place' > noise'), buf' # <<>>
             PROVE  More # <<>> /\ buf' \o More = Frame
  <2>1. rest'.bytes = More /\ rest'.msg = rest.msg
    BY DEF Sends
  <2> QED
    BY <2>1 DEF InSync, Follows, Idle, Frame
<1>1. noise' = noise /\ ~Idle
  BY SendGoesOn DEF Sends, Idle
<1>2. CASE buf \o rest.bytes = Frame
  BY <1>2, SendFollows
<1>3. CASE noise = 0
  <2>1. buf \o rest.bytes = Frame
    BY <1>1, <1>3 DEF Caught, Frame
  <2> QED
    BY <1>2, <2>1
<1>4. CASE noise # 0 /\ (buf = <<>> \/ Place' # Place)
  BY <1>1, <1>4, SendRestarts
<1>5. CASE noise # 0 /\ buf # <<>> /\ Place' = Place
  <2>1. AllClean /\ Place > noise
    BY <1>1, <1>5, SendClean
  <2>2. buf \o rest.bytes = Frame
    BY <1>5, <2>1 DEF InSync, Follows, Frame
  <2> QED
    BY <1>2, <2>2
<1> QED
  BY <1>3, <1>4, <1>5

(* The frames that have been sent, with the one that ends.                 *)
SentGrows ==
  /\ Record \in Returned
  /\ Len(sent') = Len(sent) + 1 /\ Len(sent) \in Nat
  /\ sent' \in Seq(Returned) /\ sent'[Len(sent) + 1] = Record
  /\ \A i \in 1 .. Len(sent) : sent'[i] = sent[i]

(* The frame whose last byte is sent is recorded last.                     *)
LEMMA SendRecords ==
  ASSUME Sends, sent \in Seq(Returned), sent' = Append(sent, Record)
  PROVE  SentGrows
<1>1. Record \in Returned
  <2>1. rest.msg.id \in Byte /\ rest.msg.payload \in Seq(Byte) /\ Len(line) + 1 \in Nat
    BY FrameAssumption DEF Sends
  <2> QED
    BY <2>1 DEF Record, Returned
<1>2. /\ Append(sent, Record) \in Seq(Returned)
      /\ Len(Append(sent, Record)) = Len(sent) + 1
      /\ Append(sent, Record)[Len(sent) + 1] = Record
      /\ \A i \in 1 .. Len(sent) : Append(sent, Record)[i] = sent[i]
  BY <1>1, AppendProperties
<1>3. Len(sent) \in Nat
  OBVIOUS
<1> QED
  BY <1>1, <1>2, <1>3 DEF SentGrows

(* The frames sent, and the part of the current one that has been, stand   *)
(* on the line.                                                            *)
LEMMA SendCarried ==
  ASSUME Sends, SendByte, Carried
  PROVE  Carried'
<1>1. /\ sent \in Seq(Returned) /\ \A i \in 1 .. Len(sent) : Len(Encode(sent[i])) \in Nat
  BY DEF Carried
<1>2. /\ noise' = noise /\ noise \in Nat /\ Begun \in Nat /\ noise < Begun
      /\ Len(Frame) \in Nat /\ rest'.bytes = More /\ rest'.msg = rest.msg
      /\ rest.msg \in Messages /\ Len(More) = Len(rest.bytes) - 1
      /\ Len(rest.bytes) \in Nat /\ Len(rest.bytes) <= Len(Frame)
      /\ line' \o More = line \o rest.bytes
      /\ Window(line \o rest.bytes, Begun, Frame)
  BY DEF Sends
<1>3. CASE More # <<>>
  <2>1. Begun' = Begun /\ sent' = sent
    BY <1>3, SendGoesOn DEF GoesOn
  <2>2. Len(More) <= Len(Frame)
    BY <1>2
  <2>3. Window((line \o rest.bytes)', Begun', Encode(rest.msg)')
    BY <1>2, <2>1 DEF Frame
  <2>4. Len(rest'.bytes) <= Len(Encode(rest'.msg))
    BY <1>2, <2>2 DEF Frame
  <2> QED
    BY <1>1, <1>2, <2>1, <2>3, <2>4 DEF Carried
<1>4. CASE More = <<>>
  <2>1. Idle' /\ Begun' = Begun + Len(Frame) /\ sent' = Append(sent, Record)
    BY <1>4, SendGoesOn DEF Ends
  <2>2. SentGrows
    BY <1>1, <2>1, SendRecords
  <2>3. Len(Encode(Record)) \in Nat
    <3>1. Record.id = rest.msg.id /\ Record.payload = rest.msg.payload
      BY DEF Record
    <3> QED
      BY <1>2, <3>1, SameFrame DEF Frame
  <2>4. ASSUME NEW i \in 1 .. Len(sent') PROVE Len(Encode(sent'[i])) \in Nat
    <3>1. i \in 1 .. Len(sent) \/ i = Len(sent) + 1
      BY <2>2 DEF SentGrows
    <3>2. CASE i \in 1 .. Len(sent)
      BY <1>1, <2>2, <3>2 DEF SentGrows
    <3>3. CASE i = Len(sent) + 1
      BY <2>2, <2>3, <3>3 DEF SentGrows
    <3> QED
      BY <3>1, <3>2, <3>3
  <2>5. sent' \in Seq(Returned)
    BY <2>2 DEF SentGrows
  <2>6. Begun' \in Nat /\ noise' < Begun' /\ noise' \in Nat
    <3> DEFINE f == Len(Frame)
    <3>1. f \in Nat /\ Begun' = Begun + f
      BY <1>2, <2>1
    <3> HIDE DEF f
    <3> QED
      BY <1>2, <3>1
  <2> QED
    BY <2>1, <2>4, <2>5, <2>6 DEF Carried
<1> QED
  BY <1>3, <1>4

(* With its last byte a frame that the parser was held to catch is         *)
(* returned.                                                               *)
LEMMA SendResynchronises ==
  ASSUME IInv, Sends, SendByte, sent \in Seq(Returned), Caught, Resynchronises
  PROVE  Resynchronises'
<1> SUFFICES ASSUME \A i \in 1 .. Len(sent') : Clean(sent'[i]),
                    NEW i \in 1 .. Len(sent'),
                    noise' = 0 \/ BeginsAt(sent'[i]) >= noise' + MaxFrame
             PROVE  \E j \in 1 .. Len(got') : got'[j] = sent'[i]
  BY DEF Resynchronises
<1>1. /\ noise' = noise /\ Push(Head(rest.bytes)) /\ got \in Seq(Returned)
  BY DEF Sends, IInv
<1>2. \A j \in 1 .. Len(got) : j \in 1 .. Len(got') /\ got'[j] = got[j]
  BY <1>1, GotGrows
<1>3. ASSUME NEW k \in 1 .. Len(sent), sent'[k] = sent[k], k = i,
             \A n \in 1 .. Len(sent) : Clean(sent[n])
      PROVE  \E j \in 1 .. Len(got') : got'[j] = sent'[i]
  <2>1. noise = 0 \/ BeginsAt(sent[k]) >= noise + MaxFrame
    BY <1>1, <1>3
  <2>2. PICK j \in 1 .. Len(got) : got[j] = sent[k]
    BY <1>3, <2>1 DEF Resynchronises
  <2> QED
    BY <1>2, <1>3, <2>2
<1>4. CASE More # <<>>
  <2>1. sent' = sent
    BY <1>4, SendGoesOn DEF GoesOn
  <2> QED
    BY <1>3, <2>1
<1>5. CASE More = <<>>
  <2>1. Ends
    BY <1>5, SendGoesOn
  <2>2. SentGrows
    BY <2>1, SendRecords DEF Ends
  <2>3. AllClean'
    BY <2>1 DEF AllClean, Ends
  <2>4. AllClean
    BY <2>3, SendClean
  <2>5. i \in 1 .. Len(sent) \/ i = Len(sent) + 1
    BY <2>2 DEF SentGrows
  <2>6. CASE i \in 1 .. Len(sent)
    <3>1. sent'[i] = sent[i]
      BY <2>2, <2>6 DEF SentGrows
    <3>2. \A n \in 1 .. Len(sent) : Clean(sent[n])
      BY <2>4 DEF AllClean
    <3> QED
      BY <1>3, <2>6, <3>1, <3>2
  <2>7. CASE i = Len(sent) + 1
    <3>1. sent'[i] = Record
      BY <2>2, <2>7 DEF SentGrows
    <3>2. BeginsAt(Record) = Begun
      <4>1. Encode(Record) = Frame /\ Record.at = Len(line) + 1
        <5>1. Record.id = rest.msg.id /\ Record.payload = rest.msg.payload
          BY DEF Record
        <5> QED
          BY <5>1, SameFrame DEF Frame, Record
      <4> DEFINE f == Len(Frame)
                 l == Len(line)
                 k == Len(line')
      <4>2. BeginsAt(Record) = l + 1 - f + 1
        BY <4>1 DEF BeginsAt
      <4>3. /\ f \in Nat /\ l \in Nat /\ k = l + 1 /\ Begun \in Nat
            /\ Begun' = Begun + f /\ Begun' = k + 1
        BY <2>1 DEF Sends, Ends
      <4> HIDE DEF f, l, k
      <4> QED
        BY <4>2, <4>3
    <3>3. noise = 0 \/ (AllClean /\ Begun >= noise + MaxFrame)
      BY <1>1, <2>4, <3>1, <3>2
    <3>4. buf \o rest.bytes = Frame
      BY <2>1, <3>3 DEF Caught, Frame, Ends
    <3>5. got' = got \o <<Record>>
      BY <1>5, <3>4, SendFollows
    <3>6. got \in Seq(Returned) /\ <<Record>> \in Seq(Returned) /\ Len(<<Record>>) = 1
          /\ <<Record>>[1] = Record
      BY <1>1, <2>2 DEF SentGrows
    <3> DEFINE x == <<Record>>
    <3> HIDE DEF x
    <3>7. /\ Len(got \o x) = Len(got) + Len(x) /\ Len(got) \in Nat
          /\ \A j \in 1 .. Len(got) + Len(x) :
               (got \o x)[j] = IF j <= Len(got) THEN got[j] ELSE x[j - Len(got)]
      BY <3>6, ConcatProperties DEF x
    <3>8. Len(x) = 1 /\ x[1] = Record /\ got' = got \o x
      BY <3>5, <3>6 DEF x
    <3> DEFINE n == Len(got) + 1
    <3>9. n \in 1 .. Len(got') /\ ~(n <= Len(got)) /\ n - Len(got) = 1
      BY <3>7, <3>8
    <3>10. got'[n] = Record
      BY <3>7, <3>8, <3>9
    <3> QED
      BY <3>1, <3>9, <3>10
  <2> QED
    BY <2>5, <2>6, <2>7
<1> QED
  BY <1>4, <1>5

(* What lies m behind the later of two noises lies m behind the earlier.   *)
LEMMA Further ==
  ASSUME NEW a \in Nat, NEW c \in Nat, a <= c, NEW m \in Nat, NEW x \in Int,
         c = 0 \/ x >= c + m
  PROVE  a = 0 \/ x >= a + m
  OBVIOUS

(* When noise or a cut is put on the line a frame that lies behind it lay  *)
(* behind the noise there was.                                             *)
LEMMA NoiseGrows ==
  ASSUME Carried, Resynchronises, sent' = sent,
         \A j \in 1 .. Len(got) : j \in 1 .. Len(got') /\ got'[j] = got[j],
         noise' \in Nat, noise <= noise'
  PROVE  Resynchronises'
<1> SUFFICES ASSUME \A i \in 1 .. Len(sent) : Clean(sent[i]),
                    NEW i \in 1 .. Len(sent),
                    noise' = 0 \/ BeginsAt(sent[i]) >= noise' + MaxFrame
             PROVE  \E j \in 1 .. Len(got') : got'[j] = sent[i]
  BY DEF Resynchronises
<1>1. noise \in Nat /\ MaxFrame \in Nat
  BY ByteFacts DEF Carried
<1>2. BeginsAt(sent[i]) \in Int
  <2>1. sent[i] \in Returned /\ Len(Encode(sent[i])) \in Nat
    BY DEF Carried
  <2> DEFINE l == Len(Encode(sent[i]))
             a == sent[i].at
  <2>2. a \in Nat /\ l \in Nat /\ BeginsAt(sent[i]) = a - l + 1
    BY <2>1 DEF Returned, BeginsAt
  <2> HIDE DEF a, l
  <2> QED
    BY <2>2
<1>3. noise = 0 \/ BeginsAt(sent[i]) >= noise + MaxFrame
  <2> DEFINE x == BeginsAt(sent[i])
  <2>1. x \in Int /\ (noise' = 0 \/ x >= noise' + MaxFrame)
    BY <1>2
  <2> HIDE DEF x
  <2>2. noise = 0 \/ x >= noise + MaxFrame
    BY <1>1, <2>1, Further
  <2> QED
    BY <2>2 DEF x
<1>4. PICK j \in 1 .. Len(got) : got[j] = sent[i]
  BY <1>3 DEF Resynchronises
<1> QED
  BY <1>4

(* Between frames the line ends where the next one begins.                 *)
LEMMA IdleBegun ==
  /\ Idle => Begun = Len(line) + 1
  /\ Idle' => Begun' = Len(line') + 1
  BY DEF Begun

(* When the noise is the last there was, nothing of the buffer is behind   *)
(* it, and no byte either.                                                 *)
LEMMA NoiseIsLast ==
  ASSUME IInv', Idle', noise' = Len(line')
  PROVE  Tidy' /\ InSync' /\ Caught' /\ noise' \in Nat /\ Begun' \in Nat /\ noise' < Begun'
<1>1. /\ line' \in Seq(Byte) /\ buf' \in Seq(Byte) /\ Window(line', Place', buf')
      /\ Place' = Len(line') - Len(buf') + 1
  BY DEF IInv, Supply, TypeOK, Place
<1>2. Len(line') \in Nat /\ Len(buf') \in Nat
  BY <1>1
<1>3. Begun' = Len(line') + 1
  BY IdleBegun
<1>4. Tidy'
  <2>1. noise' + 1 .. Begun' - 1 = {}
    BY <1>2, <1>3
  <2> QED
    BY <2>1 DEF Tidy
<1>5. Caught'
  BY DEF Caught
<1>6. InSync'
  <2> SUFFICES ASSUME noise' = 0 \/ Place' > noise' PROVE buf' = <<>>
    BY DEF InSync, Follows
  <2> DEFINE l == Len(line')
             n == Len(buf')
  <2>1. l \in Nat /\ n \in Nat /\ Place' = l - n + 1 /\ noise' = l /\ Place' >= 1
    BY <1>1, <1>2 DEF Window
  <2>2. l = 0 \/ Place' > l
    BY <2>1
  <2> HIDE DEF l, n
  <2>3. n = 0
    BY <2>1, <2>2
  <2> QED
    BY <1>1, <2>3, EmptyBytes DEF n
<1> QED
  BY <1>2, <1>3, <1>4, <1>5, <1>6

(* A byte of noise comes between frames and becomes the last of the noise: *)
(* no frame has begun behind it yet.                                       *)
LEMMA NoiseResyncs ==
  ASSUME IInv, IInv', Resync, NEW byte \in Byte, Noise(byte)
  PROVE  Resync'
<1>1. /\ Idle /\ Push(byte) /\ noise' = Len(line) + 1 /\ rest' = rest /\ sent' = sent
  BY DEF Noise
<1>2. line \in Seq(Byte) /\ got \in Seq(Returned) /\ Carried /\ Resynchronises
  BY DEF IInv, Supply, Resync
<1>3. line' = Append(line, byte) /\ Len(line') = Len(line) + 1 /\ Len(line) \in Nat
  BY <1>1, <1>2 DEF Push
<1>4. Idle' /\ noise' = Len(line')
  BY <1>1, <1>3 DEF Idle
<1>5. Tidy' /\ InSync' /\ Caught' /\ noise' \in Nat /\ Begun' \in Nat /\ noise' < Begun'
  BY <1>4, NoiseIsLast
<1>6. noise <= noise'
  <2>1. noise \in Nat /\ noise < Len(line) + 1
    BY <1>1, <1>2, IdleBegun DEF Carried
  <2> QED
    BY <1>1, <1>3, <2>1
<1>7. Resynchronises'
  BY <1>1, <1>2, <1>5, <1>6, GotGrows, NoiseGrows
<1>8. Carried'
  BY <1>1, <1>2, <1>4, <1>5 DEF Carried
<1> QED
  BY <1>5, <1>7, <1>8 DEF Resync

(* So does a frame that is cut short.                                      *)
LEMMA CutResyncs ==
  ASSUME IInv, IInv', Resync, CutShort
  PROVE  Resync'
<1>1. /\ ~Idle /\ noise' = Len(line) /\ sent' = sent /\ line' = line /\ got' = got
      /\ rest' = [rest EXCEPT !.bytes = <<>>]
  BY DEF CutShort
<1>2. /\ line \in Seq(Byte) /\ got \in Seq(Returned) /\ Carried /\ Resynchronises
      /\ rest \in Rest
  BY DEF IInv, Supply, Resync
<1>3. Idle' /\ noise' = Len(line')
  BY <1>1, <1>2 DEF Idle, Rest
<1>4. Tidy' /\ InSync' /\ Caught' /\ noise' \in Nat /\ Begun' \in Nat /\ noise' < Begun'
  BY <1>3, NoiseIsLast
<1>5. noise <= noise'
  <2> DEFINE l == Len(line)
             r == Len(rest.bytes)
             f == Len(Encode(rest.msg))
  <2>1. /\ noise \in Nat /\ noise < Begun /\ rest.msg \in Messages /\ r <= f
        /\ Begun = l + r - f + 1 /\ noise' = l
    BY <1>1, <1>2 DEF Carried, Begun
  <2>2. l \in Nat /\ r \in Nat /\ f \in Nat
    <3>1. rest.bytes \in Seq(Byte) /\ Encode(rest.msg) \in Seq(Byte)
      BY <1>2, <2>1, EncodeType DEF Rest
    <3> QED
      BY <1>2, <3>1
  <2> HIDE DEF l, r, f
  <2> QED
    BY <2>1, <2>2
<1>6. Resynchronises'
  <2>1. \A j \in 1 .. Len(got) : j \in 1 .. Len(got') /\ got'[j] = got[j]
    BY <1>1
  <2> QED
    BY <1>1, <1>2, <1>4, <1>5, <2>1, NoiseGrows
<1>7. Carried'
  BY <1>1, <1>2, <1>3, <1>4 DEF Carried
<1> QED
  BY <1>4, <1>6, <1>7 DEF Resync

(* A frame that starts a frame's length behind the noise finds the parser  *)
(* with an empty buffer: what it holds begins behind the noise too.        *)
LEMMA StartResyncs ==
  ASSUME IInv, IInv', Resync, NEW m \in Messages, StartFrame(m)
  PROVE  Resync'
<1> DEFINE e == Encode(m)
<1>1. /\ Idle /\ rest' = [bytes |-> e, msg |-> m] /\ buf' = buf /\ line' = line
      /\ got' = got /\ sent' = sent /\ noise' = noise
  BY DEF StartFrame
<1>2. /\ line \in Seq(Byte) /\ buf \in Seq(Byte) /\ Len(line) \in Nat /\ Len(buf) \in Nat
      /\ Len(buf) < MaxFrame /\ MaxFrame \in Nat
      /\ Carried /\ Tidy /\ InSync /\ Resynchronises
  BY ByteFacts DEF IInv, Supply, TypeOK, Resync
<1>3. e \in Seq(Byte) /\ Len(e) \in Nat /\ e # <<>>
  <2>1. e \in Seq(Byte) /\ e[1] = Start /\ Len(e) = Len(m.payload) + 5
        /\ m.payload \in Seq(Byte)
    BY EncodeType, EncodeParts, FrameAssumption
  <2> DEFINE n == Len(m.payload)
  <2>2. n \in Nat /\ Len(e) = n + 5
    BY <2>1
  <2> HIDE DEF n, e
  <2>3. Len(e) > 0
    BY <2>2
  <2> QED
    BY <2>1, <2>3, EmptyBytes
<1> HIDE DEF e
<1>4. rest'.bytes = e /\ rest'.msg = m /\ ~Idle' /\ Encode(rest'.msg) = e
  BY <1>1, <1>3 DEF Idle, e
<1>5. Begun = Len(line) + 1 /\ Begun' = Begun
  <2>1. Begun = Len(line) + 1
    BY <1>1, IdleBegun
  <2>2. Begun' = Len(line) + Len(e) - Len(e) + 1
    BY <1>1, <1>4 DEF Begun
  <2> DEFINE l == Len(line)
             n == Len(e)
  <2>3. l \in Nat /\ n \in Nat /\ Begun' = l + n - n + 1 /\ Begun = l + 1
    BY <1>2, <1>3, <2>1, <2>2
  <2> HIDE DEF l, n
  <2>4. Begun' = Begun
    BY <2>3
  <2> QED
    BY <2>1, <2>4
<1>6. AllClean' => AllClean
  BY <1>1 DEF AllClean
<1>7. noise = 0 \/ (AllClean /\ Place > noise) => buf = <<>>
  BY <1>1, <1>2 DEF InSync, Follows
<1>8. Carried'
  <2>1. Window(line \o e, Begun, e)
    <3> DEFINE s == line \o e
    <3>1. Join(line, e, s)
      BY <1>2, <1>3, JoinedParts
    <3> HIDE DEF s
    <3>2. ASSUME NEW k \in 1 .. Len(e) PROVE s[Begun + k - 1] = e[k]
      <4>1. Begun + k - 1 = Len(line) + k
        BY <1>2, <1>5
      <4> QED
        BY <3>1, <4>1 DEF Join
    <3>3. Begun \in Nat \ {0} /\ Begun + Len(e) - 1 <= Len(s)
      BY <1>2, <1>3, <1>5, <3>1 DEF Join
    <3>4. Window(s, Begun, e)
      BY <3>2, <3>3 DEF Window
    <3> QED
      BY <3>4 DEF s
  <2>2. Len(e) <= Len(e)
    BY <1>3
  <2>3. /\ noise \in Nat /\ Begun \in Nat /\ noise < Begun /\ sent \in Seq(Returned)
        /\ \A i \in 1 .. Len(sent) : Len(Encode(sent[i])) \in Nat
    BY <1>2 DEF Carried
  <2> QED
    BY <1>1, <1>4, <1>5, <2>1, <2>2, <2>3 DEF Carried
<1>9. Tidy'
  BY <1>1, <1>2, <1>5, <1>6 DEF Tidy
<1>10. InSync'
  <2>1. Place' = Place
    BY <1>1 DEF Place
  <2> QED
    BY <1>1, <1>6, <1>7, <2>1 DEF InSync, Follows
<1>11. Caught'
  <2> SUFFICES ASSUME noise = 0 \/ (AllClean' /\ Begun >= noise + MaxFrame)
               PROVE  buf \o e = e
    BY <1>1, <1>4, <1>5 DEF Caught
  <2>1. Begun >= noise + MaxFrame => Place > noise
    <3> DEFINE l == Len(line)
               n == Len(buf)
    <3>1. /\ Place = l - n + 1 /\ l \in Nat /\ n \in Nat /\ n < MaxFrame /\ Begun = l + 1
          /\ noise \in Nat /\ MaxFrame \in Nat
      BY <1>2, <1>5 DEF Place, Carried
    <3> HIDE DEF l, n
    <3> QED
      BY <3>1
  <2>2. buf = <<>>
    BY <1>6, <1>7, <2>1
  <2> QED
    BY <1>3, <2>2
<1>12. Resynchronises'
  BY <1>1, <1>2 DEF Resynchronises
<1> QED
  BY <1>8, <1>9, <1>10, <1>11, <1>12 DEF Resync

(* A byte of a frame keeps each of the parts.                              *)
LEMMA SendResyncs ==
  ASSUME IInv, IInv', Resync, SendByte
  PROVE  Resync'
<1>1. /\ Carried /\ Tidy /\ InSync /\ Caught /\ Resynchronises /\ sent \in Seq(Returned)
  BY DEF Resync, Carried
<1>2. Sends
  BY <1>1, SendFacts
<1> QED
  BY <1>1, <1>2, SendCarried, SendTidy, SendInSync, SendCaught, SendResynchronises
     DEF Resync

(* Nothing sent, nothing to catch.                                         *)
LEMMA InitResyncs == Init => Resync
<1> SUFFICES ASSUME Init PROVE Resync
  OBVIOUS
<1>1. /\ buf = <<>> /\ line = <<>> /\ sent = <<>> /\ noise = 0 /\ Idle
      /\ Len(<<>>) = 0 /\ <<>> \in Seq(Returned) /\ 1 .. 0 = {}
  BY DEF Init, Idle
<1>2. Begun = 1
  BY <1>1, IdleBegun
<1>3. Carried
  BY <1>1, <1>2 DEF Carried
<1>4. Tidy
  <2>1. noise + 1 .. Begun - 1 = {}
    BY <1>1, <1>2
  <2> QED
    BY <2>1 DEF Tidy
<1> QED
  BY <1>1, <1>3, <1>4 DEF Resync, InSync, Follows, Caught, Resynchronises

(* Every step keeps it.                                                    *)
LEMMA StepResyncs == IInv /\ IInv' /\ Resync /\ [Next]_vars => Resync'
<1> SUFFICES ASSUME IInv, IInv', Resync, [Next]_vars PROVE Resync'
  OBVIOUS
<1>1. CASE UNCHANGED vars
  BY <1>1 DEF vars, Resync, Carried, Tidy, InSync, Caught, Follows, Resynchronises,
              AllClean, Begun, Idle, Place
<1>2. ASSUME NEW byte \in Byte, Noise(byte) PROVE Resync'
  BY <1>2, NoiseResyncs
<1>3. ASSUME NEW m \in Messages, StartFrame(m) PROVE Resync'
  BY <1>3, StartResyncs
<1> QED
  BY <1>1, <1>2, <1>3, SendResyncs, CutResyncs DEF Next

(* After noise or a frame cut short the parser finds its way back within a *)
(* frame's length: while no frame holds a second start byte, every frame   *)
(* that begins MaxFrame bytes behind the last of the noise, and every one  *)
(* on a line without noise, is returned by sbgc_parser_push.               *)
THEOREM FindsItsWayBack == Spec => []Resynchronises
<1>1. Spec => []Resync
  <2>1. Init => Resync
    BY InitResyncs
  <2>2. IInv /\ IInv' /\ Resync /\ [Next]_vars => Resync'
    BY StepResyncs
  <2> QED
    BY <2>1, <2>2, Inductive, PTL DEF Spec
<1>2. Resync => Resynchronises
  BY DEF Resync
<1> QED
  BY <1>1, <1>2, PTL
=============================================================================
