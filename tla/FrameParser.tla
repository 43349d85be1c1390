----------------------------- MODULE FrameParser -----------------------------
(***************************************************************************)
(* The frame codec of sbgc_api.c and its incremental parser.  A frame is   *)
(*    Start, id, n, (id + n) mod 256, n bytes of payload, their sum        *)
(* and sbgc_parser_push is given the bytes of the line one at a time.  On  *)
(* the line there are whole frames, frames cut short and noise.            *)
(*                                                                         *)
(* The length field is one byte, so a payload has at most Base - 1 bytes,  *)
(* where Base is 256 in the code and a small number in an instance.        *)
(***************************************************************************)
EXTENDS Integers, Sequences

CONSTANTS
  Base,        \* how many values a byte has
  Start,       \* SBGC_START_BYTE_V1
  Messages,    \* [id, payload]: what the far end sends
  NoiseBound,  \* how many bytes of noise, or cuts, the model puts on the line
  SendBound    \* how many frames it starts

Byte       == 0 .. Base - 1
MaxPayload == Base - 1
MaxFrame   == 4 + MaxPayload + 1

ASSUME FrameAssumption ==
  /\ Base \in Nat /\ Base > 1 /\ Start \in Byte
  /\ \A m \in Messages :
       m.id \in Byte /\ m.payload \in Seq(Byte) /\ Len(m.payload) <= MaxPayload
  /\ NoiseBound \in Nat /\ SendBound \in Nat

VARIABLES
  buf,     \* p->buf[0 .. p->len - 1]
  expect,  \* p->expect: the length of the frame once its header is known, or 0
  line,    \* history: every byte pushed
  got,     \* history: the frames the parser returned, each with the position
           \* on the line of its last byte
  rest,    \* the far end: what it still has to send of the frame it is in
  sent,    \* history: the frames it sent whole, recorded in the same way
  noise,   \* history: the position of the last byte that was not part of one
  budget   \* noise and frames the model may still put on the line

vars == <<buf, expect, line, got, rest, sent, noise, budget>>

-----------------------------------------------------------------------------
(* sum_mod256 *)
Sum(bytes) ==
  LET upTo[n \in 0 .. Len(bytes)] ==
        IF n = 0 THEN 0 ELSE (upTo[n - 1] + bytes[n]) % Base
  IN  upTo[Len(bytes)]

HeaderSum(id, n) == (id + n) % Base

(* sbgc_encode_frame *)
Encode(m) ==
  LET n == Len(m.payload)
  IN  <<Start, m.id, n, HeaderSum(m.id, n)>> \o m.payload \o <<Sum(m.payload)>>

(* What a whole frame in the buffer says. *)
HeaderHolds(b) == b[4] = HeaderSum(b[2], b[3])
PayloadOf(b)   == SubSeq(b, 5, Len(b) - 1)
BodyHolds(b)   == b[Len(b)] = Sum(PayloadOf(b))

-----------------------------------------------------------------------------
(* sbgc_parser_push, one action for each way through it.                   *)

Returns(frames) == got' = got \o frames
Leaves(b, e)    == buf' = b /\ expect' = e

(* Outside a frame only a start byte is taken. *)
Hunt(byte) ==
  /\ buf = <<>>
  /\ IF byte = Start THEN Leaves(<<byte>>, 0) ELSE Leaves(<<>>, expect)
  /\ Returns(<<>>)

(* The last test of the function: a buffer that is full is dropped. *)
Collect(byte) ==
  LET b == Append(buf, byte)
  IN  /\ buf # <<>> /\ Len(b) # 4 /\ Len(b) # expect
      /\ IF Len(b) >= MaxFrame THEN Leaves(<<>>, 0) ELSE Leaves(b, expect)
      /\ Returns(<<>>)

AcceptHeaderShort(byte) ==   \* mutant: the byte of the body's sum is not counted
  LET b == Append(buf, byte)
  IN  Len(b) = 4 /\ HeaderHolds(b) /\ Leaves(b, 4 + b[3]) /\ Returns(<<>>)

AcceptHeader(byte) ==
  LET b == Append(buf, byte)
  IN  /\ Len(b) = 4 /\ HeaderHolds(b)
      /\ Leaves(b, 4 + b[3] + 1)
      /\ Returns(<<>>)

RejectHeaderWhole(byte) ==   \* mutant: everything is dropped
  LET b == Append(buf, byte)
  IN  Len(b) = 4 /\ ~HeaderHolds(b) /\ Leaves(<<>>, 0) /\ Returns(<<>>)

(* The hunt starts over at the first start byte after the false one. *)
RejectHeader(byte) ==
  LET b == Append(buf, byte)
      starts == {i \in 2 .. 4 : b[i] = Start}
  IN  /\ Len(b) = 4 /\ ~HeaderHolds(b)
      /\ IF starts = {} THEN Leaves(<<>>, 0)
         ELSE Leaves(SubSeq(b, CHOOSE i \in starts : \A j \in starts : i <= j, 4), 0)
      /\ Returns(<<>>)

FinishGuarded(byte) ==   \* mutant: a bad body is kept and collected on
  LET b == Append(buf, byte)
  IN  /\ Len(b) = expect /\ Len(b) # 4
      /\ IF BodyHolds(b)
         THEN /\ Leaves(<<>>, 0)
              /\ Returns(<<[at |-> Len(line) + 1, id |-> b[2], payload |-> PayloadOf(b)]>>)
         ELSE Leaves(b, 0) /\ Returns(<<>>)

(* A whole frame is consumed, whether its body sum holds or not. *)
Finish(byte) ==
  LET b == Append(buf, byte)
  IN  /\ Len(b) = expect /\ Len(b) # 4
      /\ Leaves(<<>>, 0)
      /\ Returns(IF BodyHolds(b)
                 THEN <<[at |-> Len(line) + 1, id |-> b[2], payload |-> PayloadOf(b)]>>
                 ELSE <<>>)

Push(byte) ==
  /\ line' = Append(line, byte)
  /\ \/ Hunt(byte) \/ Collect(byte) \/ AcceptHeader(byte)
     \/ RejectHeader(byte) \/ Finish(byte)

-----------------------------------------------------------------------------
(* The far end of the line. *)

Init ==
  /\ buf = <<>> /\ expect = 0 /\ line = <<>> /\ got = <<>>
  /\ rest = [bytes |-> <<>>, msg |-> <<>>]
  /\ sent = <<>> /\ noise = 0
  /\ budget = [noise |-> NoiseBound, frames |-> SendBound]

Idle == rest.bytes = <<>>

Noise(byte) ==
  /\ Idle /\ budget.noise > 0
  /\ Push(byte)
  /\ noise' = Len(line) + 1
  /\ budget' = [budget EXCEPT !.noise = @ - 1]
  /\ UNCHANGED <<rest, sent>>

StartFrame(m) ==
  /\ Idle /\ budget.frames > 0
  /\ rest' = [bytes |-> Encode(m), msg |-> m]
  /\ budget' = [budget EXCEPT !.frames = @ - 1]
  /\ UNCHANGED <<buf, expect, line, got, sent, noise>>

SendByte ==
  /\ ~Idle
  /\ Push(Head(rest.bytes))
  /\ rest' = [rest EXCEPT !.bytes = Tail(@)]
  /\ sent' = IF Len(rest.bytes) > 1 THEN sent
             ELSE Append(sent, [at |-> Len(line) + 1, id |-> rest.msg.id,
                                payload |-> rest.msg.payload])
  /\ UNCHANGED <<noise, budget>>

(* What the line carries of a frame that sbgc_send gave up on after some   *)
(* of its bytes were written is noise.  Bytes the line lost look the same. *)
CutShort ==
  /\ ~Idle /\ budget.noise > 0
  /\ rest' = [rest EXCEPT !.bytes = <<>>]
  /\ noise' = Len(line)
  /\ budget' = [budget EXCEPT !.noise = @ - 1]
  /\ UNCHANGED <<buf, expect, line, got, sent>>

Next ==
  \/ \E byte \in Byte : Noise(byte)
  \/ \E m \in Messages : StartFrame(m)
  \/ SendByte \/ CutShort

Spec == Init /\ [][Next]_vars

-----------------------------------------------------------------------------
(* The buffer holds the beginning of one frame, whose header is known from *)
(* its fourth byte on, and always has room for the next byte.              *)
TypeOK ==
  /\ buf \in Seq(Byte) /\ Len(buf) < MaxFrame
  /\ buf # <<>> => buf[1] = Start
  /\ IF Len(buf) < 4 THEN expect = 0
     ELSE HeaderHolds(buf) /\ expect = 4 + buf[3] + 1 /\ Len(buf) < expect

(* The reference: the frames of a sequence of bytes by position.  A place  *)
(* that can not begin a frame is skipped, a frame that is whole is stepped *)
(* over, and reading stops where one is not whole yet.                     *)
EndOf(s, i)  == i + 4 + s[i + 2]
Begins(s, i) == s[i] = Start /\ (i + 3 <= Len(s) => HeaderHolds(SubSeq(s, i, i + 3)))
Whole(s, i)  == i + 3 <= Len(s) /\ EndOf(s, i) <= Len(s)
FrameAt(s, i) ==
  LET frame == SubSeq(s, i, EndOf(s, i))
  IN  IF BodyHolds(frame)
      THEN <<[at |-> EndOf(s, i), id |-> s[i + 1], payload |-> PayloadOf(frame)]>>
      ELSE <<>>

Frames(s) ==
  LET from[i \in 1 .. Len(s) + 1] ==
        IF i > Len(s) THEN <<>>
        ELSE IF ~Begins(s, i) THEN from[i + 1]
        ELSE IF ~Whole(s, i) THEN <<>>
        ELSE FrameAt(s, i) \o from[EndOf(s, i) + 1]
  IN  from
Scan(s) == Frames(s)[1]

(* Byte by byte the parser returns what a reader of the whole line would   *)
(* find, at the byte that completes it: nothing is lost or made up in the  *)
(* bookkeeping when a header is false (sbgc_parser_push's memmove).        *)
ParserScans == got = Scan(line)

(* After noise or a frame cut short the parser "resynchronises on the      *)
(* start byte" (sbgc_api.h): a frame that holds no other start byte is     *)
(* returned when it begins a frame's length after the last of the noise,   *)
(* and so is every frame on a line that has had none.                      *)
Clean(f) == \A i \in 2 .. Len(Encode(f)) : Encode(f)[i] # Start
BeginsAt(f) == f.at - Len(Encode(f)) + 1
Resynchronises ==
  (\A i \in 1 .. Len(sent) : Clean(sent[i])) =>
    \A i \in 1 .. Len(sent) :
      noise = 0 \/ BeginsAt(sent[i]) >= noise + MaxFrame
        => \E j \in 1 .. Len(got) : got[j] = sent[i]
=============================================================================
