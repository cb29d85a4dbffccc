---------------------------- MODULE FramesProofs ----------------------------
(***************************************************************************)
(* Facts about the frame formats for all byte sequences, and about the     *)
(* streams of FrameStream for all streams and chunkings.                   *)
(***************************************************************************)
EXTENDS FrameStream, WellFoundedInduction, TLAPS

Bytes == Seq(Byte)

\* The length of a byte sequence.
LEMMA LenType == ASSUME NEW b \in Bytes PROVE Len(b) \in Nat
  BY DEF Bytes

\* A byte of a byte sequence.
LEMMA ByteAt ==
  ASSUME NEW b \in Bytes, NEW i \in 1 .. Len(b)
  PROVE  b[i] \in Nat /\ b[i] <= 255
<1>1. b[i] \in Byte
  BY DEF Bytes
<1>2. \A x \in Byte : x \in Nat /\ x <= 255
  BY DEF Byte
<1> QED
  BY <1>1, <1>2

\* Appending makes a byte sequence no shorter.
LEMMA ExtendLen ==
  ASSUME NEW b \in Bytes, NEW e \in Bytes
  PROVE  b \o e \in Bytes /\ Len(b \o e) \in Nat /\ Len(b \o e) >= Len(b)
  BY DEF Bytes

\* Appending leaves the bytes as they are.
LEMMA ExtendAt ==
  ASSUME NEW b \in Bytes, NEW e \in Bytes, NEW i \in 1 .. Len(b)
  PROVE  (b \o e)[i] = b[i]
  BY DEF Bytes

\* A slice of an extended sequence.
LEMMA ExtendSlice ==
  ASSUME NEW b \in Bytes, NEW e \in Bytes, NEW m \in Nat \ {0}, NEW n \in 0 .. Len(b)
  PROVE  SubSeq(b \o e, m, n) = SubSeq(b, m, n)
  BY DEF Bytes

\* Concatenation, as an operator that stays unexpanded.
Cat(x, y) == x \o y

\* A concatenation: its length, and the bytes of its two parts.
LEMMA Concat ==
  ASSUME NEW x \in Bytes, NEW y \in Bytes
  PROVE  /\ Cat(x, y) \in Bytes /\ Len(Cat(x, y)) = Len(x) + Len(y)
         /\ \A i \in 1 .. Len(x) : Cat(x, y)[i] = x[i]
         /\ \A i \in 1 .. Len(y) : Cat(x, y)[Len(x) + i] = y[i]
  BY DEF Bytes, Cat

\* Four positions in a row.
LEMMA FourIn ==
  ASSUME NEW b \in Bytes, NEW i \in Nat \ {0}, i + 3 <= Len(b)
  PROVE  /\ i \in 1 .. Len(b) /\ i + 1 \in 1 .. Len(b)
         /\ i + 2 \in 1 .. Len(b) /\ i + 3 \in 1 .. Len(b)
  BY LenType

\* One digit of a number with base 256.
LEMMA Horner == \A p, q \in Nat : p + 256 * q \in Nat
  OBVIOUS

\* Lengths read from four bytes are natural numbers.
LEMMA Le32Type ==
  ASSUME NEW b \in Bytes, NEW i \in Nat \ {0}, i + 3 <= Len(b)
  PROVE  Le32(b, i) \in Nat
<1>1. b[i] \in Nat /\ b[i + 1] \in Nat /\ b[i + 2] \in Nat /\ b[i + 3] \in Nat
  BY FourIn, ByteAt
<1> DEFINE high == b[i + 2] + 256 * b[i + 3]
           upper == b[i + 1] + 256 * high
<1>2. high \in Nat
  BY <1>1, Horner
<1> HIDE DEF high
<1>3. upper \in Nat
  BY <1>1, <1>2, Horner
<1> HIDE DEF upper
<1>4. b[i] + 256 * upper \in Nat
  BY <1>1, <1>3, Horner
<1> QED
  BY <1>4 DEF Le32, upper, high

\* The length does not change when bytes are appended.
LEMMA Le32Extend ==
  ASSUME NEW b \in Bytes, NEW e \in Bytes, NEW i \in Nat \ {0}, i + 3 <= Len(b)
  PROVE  Le32(b \o e, i) = Le32(b, i) /\ TooLarge(b \o e, i) = TooLarge(b, i)
<1>1. /\ (b \o e)[i] = b[i] /\ (b \o e)[i + 1] = b[i + 1]
      /\ (b \o e)[i + 2] = b[i + 2] /\ (b \o e)[i + 3] = b[i + 3]
  BY FourIn, ExtendAt
<1> QED
  BY <1>1 DEF Le32, TooLarge

\* try_decode_router gives the same result whatever follows a complete frame,
\* or a sequence it has rejected: chunks cannot change a decision once made.
THEOREM RouterDecodeStable ==
  ASSUME NEW b \in Bytes, NEW e \in Bytes, RouterDecode(b) # Need
  PROVE  RouterDecode(b \o e) = RouterDecode(b)
<1>1. Len(b) >= 5 /\ Len(b) \in Nat
  BY LenType DEF RouterDecode
<1>2. (b \o e)[1] = b[1] /\ Len(b \o e) >= Len(b) /\ Len(b \o e) \in Nat
  <2>1. 1 \in 1 .. Len(b)
    BY <1>1
  <2> QED
    BY <2>1, ExtendAt, ExtendLen
<1>3. Le32(b \o e, 2) = Le32(b, 2) /\ TooLarge(b \o e, 2) = TooLarge(b, 2) /\ Le32(b, 2) \in Nat
  BY <1>1, Le32Extend, Le32Type
<1>4. CASE b[1] # RouterMagic \/ TooLarge(b, 2)
  BY <1>1, <1>2, <1>3, <1>4 DEF RouterDecode
<1>5. CASE ~(b[1] # RouterMagic \/ TooLarge(b, 2))
  <2>1. Len(b) >= 5 + Le32(b, 2)
    BY <1>1, <1>2, <1>3, <1>5 DEF RouterDecode
  <2>2. CASE Le32(b, 2) < 2
    BY <1>1, <1>2, <1>3, <1>5, <2>1, <2>2 DEF RouterDecode
  <2>3. CASE Le32(b, 2) >= 2
    <3> DEFINE end == 5 + Le32(b, 2)
               w == 7 + b[6]
    <3>1. end \in Nat /\ end <= Len(b) /\ 6 <= Len(b)
      BY <1>2, <1>3, <2>1, <2>3
    <3>2. (b \o e)[6] = b[6] /\ w \in Nat /\ w >= 7
      <4>1. 6 \in 1 .. Len(b)
        BY <3>1, <1>1
      <4> QED
        BY <4>1, ExtendAt, ByteAt
    <3> HIDE DEF end, w
    <3>3. RouterBody(b \o e, end) = RouterBody(b, end)
      <4>1. CASE w > end
        BY <3>2, <4>1 DEF RouterBody, w
      <4>2. CASE w <= end
        <5>1. SubSeq(b \o e, 7, w - 1) = SubSeq(b, 7, w - 1)
          BY <3>1, <3>2, <4>2, <1>1, ExtendSlice
        <5>2. CASE w + 5 > end
          BY <3>2, <5>2 DEF RouterBody, w
        <5>3. CASE w + 5 <= end
          <6>1. (b \o e)[w + 1] = b[w + 1] /\ (b \o e)[w] = b[w]
            <7>1. w \in 1 .. Len(b) /\ w + 1 \in 1 .. Len(b)
              BY <3>1, <3>2, <5>3, <1>1
            <7> QED
              BY <7>1, ExtendAt
          <6>2. SubSeq(b \o e, w + 2, w + 5) = SubSeq(b, w + 2, w + 5)
            BY <3>1, <3>2, <5>3, <1>1, ExtendSlice
          <6>3. SubSeq(b \o e, w + 1, end) = SubSeq(b, w + 1, end)
            BY <3>1, <3>2, <1>1, ExtendSlice
          <6> QED
            BY <3>2, <5>1, <6>1, <6>2, <6>3 DEF RouterBody, w
        <5> QED
          BY <3>1, <3>2, <5>2, <5>3
      <4> QED
        BY <3>1, <3>2, <4>1, <4>2
    <3> QED
      BY <1>1, <1>2, <1>3, <1>5, <2>1, <2>3, <3>3 DEF RouterDecode, end
  <2> QED
    BY <1>3, <2>2, <2>3
<1> QED
  BY <1>4, <1>5

\* drain_frame_async gives the same result however much of what follows the
\* frame is already in the buffer.
THEOREM ShardDecodeStable ==
  ASSUME NEW b \in Bytes, NEW e \in Bytes, ShardDecode(b) # Need
  PROVE  ShardDecode(b \o e) = ShardDecode(b)
<1>1. Len(b) >= 9 /\ Len(b) \in Nat
  BY LenType DEF ShardDecode
<1>2. (b \o e)[1] = b[1] /\ Len(b \o e) >= Len(b) /\ Len(b \o e) \in Nat
  <2>1. 1 \in 1 .. Len(b)
    BY <1>1
  <2> QED
    BY <2>1, ExtendAt, ExtendLen
<1>3. Le32(b \o e, 6) = Le32(b, 6) /\ Le32(b, 6) \in Nat
  BY <1>1, <1>2, Le32Extend, Le32Type
<1>4. CASE b[1] # ShardMagic
  BY <1>1, <1>2, <1>4 DEF ShardDecode
<1>5. CASE b[1] = ShardMagic
  <2> DEFINE end == 9 + Le32(b, 6)
  <2>1. end \in Nat /\ end <= Len(b)
    BY <1>1, <1>2, <1>3, <1>5 DEF ShardDecode
  <2> HIDE DEF end
  <2>2. ShardBody(b \o e, end) = ShardBody(b, end)
    <3>1. CASE end < 10
      BY <3>1 DEF ShardBody
    <3>2. CASE end >= 10
      <4>1. (b \o e)[10] = b[10] /\ b[10] \in Nat
        <5>1. 10 \in 1 .. Len(b)
          BY <2>1, <3>2, <1>1
        <5> QED
          BY <5>1, ExtendAt, ByteAt
      <4>2. CASE end < 12 + b[10]
        BY <4>1, <4>2 DEF ShardBody
      <4>3. CASE end >= 12 + b[10]
        <5>1. (b \o e)[11 + b[10]] = b[11 + b[10]] /\ (b \o e)[12 + b[10]] = b[12 + b[10]]
          <6>1. 11 + b[10] \in 1 .. Len(b) /\ 12 + b[10] \in 1 .. Len(b)
            BY <2>1, <4>1, <4>3, <1>1
          <6> QED
            BY <6>1, ExtendAt
        <5>2. SubSeq(b \o e, 2, 5) = SubSeq(b, 2, 5)
          BY <1>1, <1>1, ExtendSlice
        <5>3. SubSeq(b \o e, 1, end) = SubSeq(b, 1, end)
          BY <2>1, <1>1, ExtendSlice
        <5> QED
          BY <4>1, <5>1, <5>2, <5>3 DEF ShardBody
      <4> QED
        BY <2>1, <4>1, <4>2, <4>3
    <3> QED
      BY <2>1, <3>1, <3>2
  <2> QED
    BY <1>1, <1>2, <1>3, <1>5, <2>1, <2>2 DEF ShardDecode, end
<1> QED
  BY <1>4, <1>5

-----------------------------------------------------------------------------
\* The bytes of a response that drain_frame_async accepts.
LEMMA ShardFrameShape ==
  ASSUME NEW b \in Bytes, ShardDecode(b).kind = "frame"
  PROVE  /\ ShardDecode(b).shard \in Bytes
         /\ ShardDecode(b).statusLen \in Nat
         /\ Len(ShardDecode(b).shard) >= 12 + ShardDecode(b).statusLen
         /\ ShardDecode(b).shard[10] = ShardDecode(b).statusLen
<1> DEFINE end == 9 + Le32(b, 6)
<1>1. Len(b) \in Nat /\ Len(b) >= 9 /\ Len(b) >= end /\ ShardDecode(b) = ShardBody(b, end)
  <2>1. Need.kind # "frame" /\ Bad.kind # "frame"
    BY DEF Need, Bad
  <2>2. Len(b) \in Nat /\ Len(b) >= 9
    BY <2>1, LenType DEF ShardDecode
  <2>3. end \in Nat
    BY <2>2, Le32Type
  <2>4. b[1] = ShardMagic
    BY <2>1, <2>2 DEF ShardDecode
  <2>5. Len(b) >= end
    BY <2>1, <2>2, <2>3, <2>4 DEF ShardDecode
  <2> QED
    BY <2>2, <2>3, <2>4, <2>5 DEF ShardDecode
<1>2. end \in Nat
  BY <1>1, Le32Type
<1> HIDE DEF end
<1>3. ~(end < 10 \/ end < 12 + b[10])
  BY <1>1 DEF ShardBody, Bad
<1>4. 10 \in 1 .. Len(b)
  BY <1>1, <1>2, <1>3
<1>5. b[10] \in Nat
  BY <1>4, ByteAt
<1>6. ShardDecode(b).shard = SubSeq(b, 1, end) /\ ShardDecode(b).statusLen = b[10]
  <2> DEFINE cnt == b[11 + b[10]] + 256 * b[12 + b[10]]
             all == SubSeq(b, 1, end)
             id == SubSeq(b, 2, 5)
             len == b[10]
             r == [kind |-> "frame", len |-> end, clrId |-> id, statusLen |-> len,
                   fieldCnt |-> cnt, shard |-> all]
  <2>1. ShardBody(b, end) = r
    BY <1>3, Zenon DEF ShardBody
  <2> HIDE DEF cnt, all, id, len
  <2>2. r.shard = all /\ r.statusLen = len
    OBVIOUS
  <2> QED
    BY <1>1, <2>1, <2>2, Zenon DEF all, len
<1>7. SubSeq(b, 1, end) \in Bytes /\ Len(SubSeq(b, 1, end)) = end /\ SubSeq(b, 1, end)[10] = b[10]
  BY <1>1, <1>2, <1>3, <1>5 DEF Bytes
<1> QED
  BY <1>2, <1>3, <1>5, <1>6, <1>7

\* The slice that should hold the error code is within every accepted frame.
LEMMA CodeAlwaysInRange ==
  ASSUME NEW b \in Bytes, ShardDecode(b).kind = "frame"
  PROVE  CodeInRange(ShardDecode(b))
<1>1. Len(ShardDecode(b).shard) \in Nat
  BY ShardFrameShape, LenType
<1> QED
  BY <1>1, ShardFrameShape DEF CodeInRange, FieldDataStart

\* The special error handling of the read loop never runs.  For "ERROR" to
\* stand where it is looked for, the status must be five bytes long; the code is
\* then looked for around byte 10, which holds that length, 5, and not the
\* digit 0 that all three codes have in the middle.
THEOREM NoResponseCloses ==
  ASSUME NEW b \in Bytes, ShardDecode(b).kind = "frame"
  PROVE  ~ShouldClose(ShardDecode(b))
<1> DEFINE d == ShardDecode(b)
           s == d.statusLen
           f == d.shard
<1>1. f \in Bytes /\ s \in Nat /\ Len(f) >= 12 + s /\ f[10] = s /\ Len(f) \in Nat
  BY ShardFrameShape, LenType
<1> SUFFICES ASSUME ShouldClose(d) PROVE FALSE
  OBVIOUS
<1> HIDE DEF d
<1>2. SubSeq(f, 2, 1 + s) = <<69, 82, 82, 79, 82>>
  BY DEF ShouldClose, SaysError, Text
<1>3. Len(SubSeq(f, 2, 1 + s)) = s
  BY <1>1 DEF Bytes
<1>4. s = 5
  BY <1>2, <1>3
<1>5. SubSeq(f, 9, 11) \in {<<51, 48, 56>>, <<52, 48, 53>>, <<53, 48, 51>>}
  BY <1>4 DEF ShouldClose, FieldDataStart, Text
<1>6. SubSeq(f, 9, 11)[2] = f[10]
  BY <1>1 DEF Bytes
<1>7. <<51, 48, 56>>[2] = 48 /\ <<52, 48, 53>>[2] = 48 /\ <<53, 48, 51>>[2] = 48
  OBVIOUS
<1>8. f[10] = 48
  <2>1. CASE SubSeq(f, 9, 11) = <<51, 48, 56>>
    BY <1>6, <1>7, <2>1, Zenon
  <2>2. CASE SubSeq(f, 9, 11) = <<52, 48, 53>>
    BY <1>6, <1>7, <2>2, Zenon
  <2>3. CASE SubSeq(f, 9, 11) = <<53, 48, 51>>
    BY <1>6, <1>7, <2>3, Zenon
  <2> QED
    BY <1>5, <2>1, <2>2, <2>3, Zenon
<1> QED
  BY <1>1, <1>4, <1>8

-----------------------------------------------------------------------------
(* Types of the stream, and bounds                                         *)

\* The kinds of the two results that are not frames.
LEMMA KindsDiffer == Need.kind = "need" /\ Bad.kind = "bad"
  BY DEF Need, Bad

\* A router frame that is accepted has bytes, all of them in the buffer.
LEMMA RouterFits ==
  ASSUME NEW b \in Bytes
  PROVE  \/ RouterDecode(b) = Need \/ RouterDecode(b) = Bad
         \/ RouterDecode(b).kind = "frame" /\ RouterDecode(b).len \in 1 .. Len(b)
<1> SUFFICES ASSUME RouterDecode(b) # Need, RouterDecode(b) # Bad
             PROVE  RouterDecode(b).kind = "frame" /\ RouterDecode(b).len \in 1 .. Len(b)
  OBVIOUS
<1>1. Len(b) \in Nat /\ Len(b) >= 5
  BY LenType DEF RouterDecode
<1> DEFINE end == 5 + Le32(b, 2)
<1>2. end \in Nat /\ end >= 5
  BY <1>1, Le32Type
<1>3. end <= Len(b) /\ RouterDecode(b) = RouterBody(b, end)
  BY <1>1, <1>2 DEF RouterDecode
<1> HIDE DEF end
<1>4. RouterBody(b, end).kind = "frame" /\ RouterBody(b, end).len = end
  BY <1>3, Zenon DEF RouterBody
<1> QED
  BY <1>1, <1>2, <1>3, <1>4

\* So has a response.
LEMMA ShardFits ==
  ASSUME NEW b \in Bytes
  PROVE  \/ ShardDecode(b) = Need \/ ShardDecode(b) = Bad
         \/ ShardDecode(b).kind = "frame" /\ ShardDecode(b).len \in 1 .. Len(b)
<1> SUFFICES ASSUME ShardDecode(b) # Need, ShardDecode(b) # Bad
             PROVE  ShardDecode(b).kind = "frame" /\ ShardDecode(b).len \in 1 .. Len(b)
  OBVIOUS
<1>1. Len(b) \in Nat /\ Len(b) >= 9
  BY LenType DEF ShardDecode
<1> DEFINE end == 9 + Le32(b, 6)
<1>2. end \in Nat /\ end >= 9
  BY <1>1, Le32Type
<1>3. end <= Len(b) /\ ShardDecode(b) = ShardBody(b, end)
  BY <1>1, <1>2 DEF ShardDecode
<1> HIDE DEF end
<1>4. ShardBody(b, end).kind = "frame" /\ ShardBody(b, end).len = end
  BY <1>3, Zenon DEF ShardBody
<1> QED
  BY <1>1, <1>2, <1>3, <1>4

\* Both, for the decoder of either side.
LEMMA DecodeFits ==
  ASSUME NEW sd, NEW b \in Bytes
  PROVE  \/ DecodeAs(sd, b).kind = "need" /\ DecodeAs(sd, b) = Need
         \/ DecodeAs(sd, b).kind = "bad"
         \/ DecodeAs(sd, b).kind = "frame" /\ DecodeAs(sd, b).len \in 1 .. Len(b)
  BY RouterFits, ShardFits, KindsDiffer, Zenon DEF DecodeAs

\* RouterDecodeStable and ShardDecodeStable, likewise.
LEMMA DecodeStable ==
  ASSUME NEW sd, NEW b \in Bytes, NEW e \in Bytes, DecodeAs(sd, b).kind # "need"
  PROVE  DecodeAs(sd, Cat(b, e)) = DecodeAs(sd, b)
  BY RouterDecodeStable, ShardDecodeStable, KindsDiffer, Zenon DEF DecodeAs, Cat


-----------------------------------------------------------------------------
\* What the decoders return.
Result == {RouterDecode(b) : b \in Bytes} \cup {ShardDecode(b) : b \in Bytes}

\* The inductive invariant: buffers hold bytes, and every response was accepted
\* by drain_frame_async.
StreamInv ==
  /\ side \in {"router", "shard"} /\ stream \in Bytes /\ sent \in Nat
  /\ buf \in Bytes /\ out \in Seq(Result)
  /\ side = "shard" => \A k \in 1 .. Len(out) : CodeInRange(out[k])

\* What is left of the buffer is a byte sequence.
LEMMA AfterType ==
  ASSUME StreamInv, NEW n \in Nat
  PROVE  /\ After(n) \in Bytes
         /\ n <= Len(buf) => Len(After(n)) = Len(buf) - n
  BY DEF StreamInv, After, Bytes

\* The invariant holds initially.
LEMMA StreamInit == Init => StreamInv
  BY StreamAssumption DEF Init, StreamInv, Bytes

\* Every step keeps it.
LEMMA StreamStep == StreamInv /\ [Next]_vars => StreamInv'
<1> SUFFICES ASSUME StreamInv, [Next]_vars PROVE StreamInv'
  OBVIOUS
<1>1. CASE Chunk
  <2>1. PICK n \in sent + 1 .. Len(stream) :
          buf' = buf \o SubSeq(stream, sent + 1, n) /\ sent' = n
    BY <1>1 DEF Chunk
  <2>2. Len(stream) \in Nat /\ sent \in Nat /\ n \in Nat
    BY LenType DEF StreamInv
  <2>3. SubSeq(stream, sent + 1, n) \in Bytes
    BY <2>2 DEF StreamInv, Bytes
  <2>4. buf' \in Bytes
    BY <2>1, <2>3, ExtendLen DEF StreamInv
  <2> QED
    BY <1>1, <2>1, <2>2, <2>4 DEF Chunk, StreamInv
<1>2. CASE Eof \/ NeedMore
  BY <1>2 DEF Eof, NeedMore, StreamInv
<1>3. CASE TakeFrame
  <2>1. buf' \in Bytes
    <3>1. Decoded.len \in Nat
      BY <1>3, DecodeFits DEF TakeFrame, Decoded, StreamInv
    <3> QED
      BY <1>3, <3>1, AfterType DEF TakeFrame
  <2>2. Decoded \in Result
    BY DEF Decoded, DecodeAs, Result, StreamInv
  <2>3. side = "shard" => CodeInRange(Decoded)
    BY <1>3, CodeAlwaysInRange DEF TakeFrame, Decoded, DecodeAs, StreamInv
  <2>4. out' = Append(out, Decoded) /\ out \in Seq(Result)
    BY <1>3 DEF TakeFrame, StreamInv
  <2> DEFINE d == Decoded
  <2> HIDE DEF d
  <2>5. out' \in Seq(Result) /\ Len(out') = Len(out) + 1 /\ Len(out) \in Nat
    BY <2>2, <2>4 DEF d
  <2>6. \A k \in 1 .. Len(out') : IF k <= Len(out) THEN out'[k] = out[k] ELSE out'[k] = Decoded
    BY <2>2, <2>4
  <2>7. \A k \in 1 .. Len(out') : k <= Len(out) => k \in 1 .. Len(out)
    BY <2>5
  <2>8. side = "shard" => \A k \in 1 .. Len(out') : CodeInRange(out'[k])
    BY <2>3, <2>6, <2>7, Zenon DEF StreamInv
  <2> QED
    BY <1>3, <2>1, <2>5, <2>8 DEF TakeFrame, StreamInv
<1>4. CASE Resync
  <2>1. buf' \in Bytes
    <3>1. Len(buf) \in Nat
      BY LenType DEF StreamInv
    <3>2. Cut \in Nat
      BY <3>1, ResyncAssumption DEF Cut
    <3>3. \A i \in NextMagics : i - 1 \in Nat
      BY <3>1 DEF NextMagics
    <3> QED
      BY <1>4, <3>2, <3>3, AfterType DEF Resync
  <2> QED
    BY <1>4, <2>1 DEF Resync, StreamInv
<1>5. CASE EndRead
  BY <1>5 DEF EndRead, StreamInv, Bytes
<1>6. CASE UNCHANGED vars
  BY <1>6 DEF vars, StreamInv
<1> QED
  BY <1>1, <1>2, <1>3, <1>4, <1>5, <1>6 DEF Next

\* No response, whatever its bytes, makes the read task slice past its end.
THEOREM SlicesNeverPanic == Spec => []SlicesInRange
<1>1. StreamInv => SlicesInRange
  BY DEF StreamInv, SlicesInRange
<1> QED
  BY <1>1, StreamInit, StreamStep, PTL DEF Spec

\* A handler never waits with more than ResyncLimit bytes of garbage, however
\* the stream is cut and whatever it holds.
THEOREM GarbageStaysBounded == Spec => []GarbageBounded
<1>1. Init => GarbageBounded
  BY DEF Init, GarbageBounded
<1>2. StreamInv /\ GarbageBounded /\ [Next]_vars => GarbageBounded'
  <2> SUFFICES ASSUME StreamInv, GarbageBounded, [Next]_vars,
                      st' = "read", side' = "router", Len(buf') >= 5
               PROVE  Len(buf') <= ResyncLimit \/ buf'[1] = RouterMagic
    BY DEF GarbageBounded
  <2>0. Len(buf) \in Nat
    BY LenType DEF StreamInv
  <2>1. CASE NeedMore
    <3>1. buf' = buf /\ RouterDecode(buf).kind = "need"
      BY <2>1 DEF NeedMore, Decoded, DecodeAs
    <3>2. Bad.kind # "need"
      BY DEF Bad
    <3> QED
      BY <2>0, <3>1, <3>2 DEF RouterDecode
  <2>2. CASE Resync
    <3>1. buf' = After(Cut)
      BY <2>2 DEF Resync
    <3>2. Len(buf) >= 1
      BY <2>0, <2>2, LenType DEF Resync, Decoded, DecodeAs, RouterDecode, Need
    <3>3. Cut \in Nat /\ Cut <= Len(buf) /\ Len(buf) - Cut <= ResyncLimit
      BY <2>0, <3>2, ResyncAssumption DEF Cut
    <3> QED
      BY <2>0, <3>1, <3>3, AfterType, ResyncAssumption
  <2>3. CASE Chunk \/ Eof \/ TakeFrame \/ EndRead
    BY <2>3 DEF Chunk, Eof, TakeFrame, EndRead
  <2>4. CASE UNCHANGED vars
    BY <2>4 DEF vars, GarbageBounded
  <2> QED
    BY <2>1, <2>2, <2>3, <2>4 DEF Next
<1> QED
  BY <1>1, <1>2, StreamInit, StreamStep, PTL DEF Spec

-----------------------------------------------------------------------------
\* A three-byte status text.
LEMMA ThreeBytes ==
  ASSUME NEW u \in Byte, NEW v \in Byte, NEW w \in Byte
  PROVE  <<u, v, w>> \in Bytes /\ Len(<<u, v, w>>) = 3
  BY DEF Bytes

\* The error payload has 22 bytes; the status is five bytes long and one
\* field follows.
LEMMA ErrorPayloadShape ==
  ASSUME NEW code \in Nat
  PROVE  LET p == ErrorPayload(ErrorMsg(code))
         IN  p \in Bytes /\ Len(p) = 22 /\ p[1] = 5 /\ p[7] = 1 /\ p[8] = 0
<1> DEFINE m == ErrorMsg(code)
<1>1. \/ m = <<52, 48, 52>> \/ m = <<53, 48, 51>>
      \/ m = <<52, 48, 56>> \/ m = <<53, 48, 48>>
  BY DEF ErrorMsg, Text
<1>2. 48 \in Byte /\ 51 \in Byte /\ 52 \in Byte /\ 53 \in Byte /\ 56 \in Byte
  BY DEF Byte
<1> HIDE DEF m
<1>3. m \in Bytes /\ Len(m) = 3
  <2>1. CASE m = <<52, 48, 52>>
    BY <1>2, <2>1, ThreeBytes
  <2>2. CASE m = <<53, 48, 51>>
    BY <1>2, <2>2, ThreeBytes
  <2>3. CASE m = <<52, 48, 56>>
    BY <1>2, <2>3, ThreeBytes
  <2>4. CASE m = <<53, 48, 48>>
    BY <1>2, <2>4, ThreeBytes
  <2> QED
    BY <1>1, <2>1, <2>2, <2>3, <2>4
<1>4. ErrorHead \in Bytes /\ Len(ErrorHead) = 19
  BY DEF ErrorHead, Bytes, Byte
<1>5. ErrorHead[1] = 5 /\ ErrorHead[7] = 1 /\ ErrorHead[8] = 0
  BY DEF ErrorHead
<1>6. 1 \in 1 .. 19 /\ 7 \in 1 .. 19 /\ 8 \in 1 .. 19 /\ 19 \in Nat /\ 3 \in Nat /\ 19 + 3 = 22
  OBVIOUS
<1> DEFINE p == Cat(ErrorHead, m)
<1>7. p \in Bytes /\ Len(p) = 19 + 3 /\ \A i \in 1 .. 19 : p[i] = ErrorHead[i]
  <2>1. /\ p \in Bytes /\ Len(p) = Len(ErrorHead) + Len(m)
        /\ \A i \in 1 .. Len(ErrorHead) : p[i] = ErrorHead[i]
        /\ \A i \in 1 .. Len(m) : p[Len(ErrorHead) + i] = m[i]
    BY <1>3, <1>4, Concat, Zenon
  <2> HIDE DEF p
  <2> QED
    BY <1>3, <1>4, <2>1
<1> HIDE DEF p
<1>8. p \in Bytes /\ Len(p) = 22 /\ p[1] = 5 /\ p[7] = 1 /\ p[8] = 0
  BY <1>5, <1>6, <1>7
<1> QED
  BY <1>8 DEF ErrorPayload, Cat, m, p

\* What build_error_response builds, drain_frame_async reads back: the response
\* is one whole frame, for the request it answers, with status ERROR.
THEOREM ErrorResponseReadsBack ==
  ASSUME NEW clrId \in {c \in Bytes : Len(c) = 4}, NEW code \in Nat
  PROVE  LET d == ShardDecode(ErrorResponse(clrId, code))
         IN  /\ d.kind = "frame" /\ d.clrId = clrId /\ d.statusLen = 5
             /\ d.fieldCnt = 1 /\ d.len = Len(ErrorResponse(clrId, code))
<1> DEFINE p == ErrorPayload(ErrorMsg(code))
           m == <<255>>
           n == <<22, 0, 0, 0>>
           a == Cat(m, clrId)
           h == Cat(a, n)
           b == Cat(h, p)
<1>1. p \in Bytes /\ Len(p) = 22 /\ p[1] = 5 /\ p[7] = 1 /\ p[8] = 0
  BY ErrorPayloadShape
<1>2. LeBytes(22) = n /\ ShardMagic = 255
  BY DEF LeBytes, ShardMagic
<1>3. ErrorResponse(clrId, code) = b
  BY <1>1, <1>2 DEF ErrorResponse, PrependHeader, Cat
<1>4. n \in Bytes /\ Len(n) = 4 /\ n[1] = 22 /\ n[2] = 0 /\ n[3] = 0 /\ n[4] = 0
  BY DEF Bytes, Byte
<1>5. m \in Bytes /\ Len(m) = 1 /\ m[1] = 255
  BY DEF Bytes, Byte
<1> HIDE DEF p, n, m
<1>6. 1 \in Nat /\ 4 \in Nat /\ 5 \in Nat /\ 9 \in Nat /\ 22 \in Nat
      /\ 1 + 4 = 5 /\ 5 + 4 = 9 /\ 9 + 22 = 31
  OBVIOUS
<1>7. /\ a \in Bytes /\ Len(a) = 1 + 4
      /\ \A i \in 1 .. 1 : a[i] = m[i]
      /\ \A i \in 1 .. 4 : a[1 + i] = clrId[i]
  <2>1. /\ a \in Bytes /\ Len(a) = Len(m) + Len(clrId)
        /\ \A i \in 1 .. Len(m) : a[i] = m[i]
        /\ \A i \in 1 .. Len(clrId) : a[Len(m) + i] = clrId[i]
    <3>1. clrId \in Bytes /\ m \in Bytes
      BY <1>5
    <3> QED
      BY <3>1, Concat, Zenon
  <2> HIDE DEF a
  <2>2. Len(m) = 1 /\ Len(clrId) = 4
    BY <1>5
  <2> QED
    BY <2>1, <2>2
<1> HIDE DEF a
<1>8. /\ h \in Bytes /\ Len(h) = 5 + 4
      /\ \A i \in 1 .. 5 : h[i] = a[i]
      /\ \A i \in 1 .. 4 : h[5 + i] = n[i]
  <2>1. a \in Bytes /\ n \in Bytes
    BY <1>4, <1>7
  <2>2. /\ h \in Bytes /\ Len(h) = Len(a) + Len(n)
        /\ \A i \in 1 .. Len(a) : h[i] = a[i]
        /\ \A i \in 1 .. Len(n) : h[Len(a) + i] = n[i]
    BY <2>1, Concat, Zenon
  <2> HIDE DEF h
  <2> QED
    BY <1>4, <1>7, <2>2
<1> HIDE DEF h
<1>9. /\ b \in Bytes /\ Len(b) = 9 + 22
      /\ \A i \in 1 .. 9 : b[i] = h[i]
      /\ \A i \in 1 .. 22 : b[9 + i] = p[i]
  <2>1. h \in Bytes /\ p \in Bytes
    BY <1>1, <1>8
  <2>2. /\ b \in Bytes /\ Len(b) = Len(h) + Len(p)
        /\ \A i \in 1 .. Len(h) : b[i] = h[i]
        /\ \A i \in 1 .. Len(p) : b[Len(h) + i] = p[i]
    BY <2>1, Concat, Zenon
  <2> HIDE DEF b
  <2> QED
    BY <1>1, <1>8, <2>2
<1> HIDE DEF b
<1>10. b[1] = 255 /\ Len(b) = 31 /\ b \in Bytes
  <2>1. a[1] = 255 /\ h[1] = a[1] /\ b[1] = h[1]
    BY <1>5, <1>7, <1>8, <1>9
  <2> QED
    BY <1>9, <2>1
<1>11. Le32(b, 6) = 22
  <2>1. h[5 + 1] = 22 /\ h[5 + 2] = 0 /\ h[5 + 3] = 0 /\ h[5 + 4] = 0
    BY <1>4, <1>8
  <2>2. b[6] = h[6] /\ b[7] = h[7] /\ b[8] = h[8] /\ b[9] = h[9]
    BY <1>9
  <2>3. b[6] = 22 /\ b[7] = 0 /\ b[8] = 0 /\ b[9] = 0
    BY <2>1, <2>2
  <2> QED
    BY <2>3 DEF Le32
<1>12. b[10] = 5 /\ b[16] = 1 /\ b[17] = 0
  <2>1. b[9 + 1] = p[1] /\ b[9 + 7] = p[7] /\ b[9 + 8] = p[8]
    BY <1>9
  <2> QED
    BY <1>1, <2>1
<1>13. SubSeq(b, 2, 5) = clrId
  <2>1. \A i \in 1 .. 4 : b[1 + i] = clrId[i]
    <3> SUFFICES ASSUME NEW i \in 1 .. 4 PROVE b[1 + i] = clrId[i]
      OBVIOUS
    <3>1. 1 + i \in 1 .. 5 /\ 1 + i \in 1 .. 9
      OBVIOUS
    <3> QED
      BY <1>7, <1>8, <1>9, <3>1, Zenon
  <2> QED
    BY <1>10, <2>1 DEF Bytes
<1>14. ShardDecode(b) = ShardBody(b, 31)
  BY <1>10, <1>11 DEF ShardDecode, ShardMagic
<1> DEFINE all == SubSeq(b, 1, 31)
<1> HIDE DEF all
<1>15. ShardBody(b, 31) = [kind |-> "frame", len |-> 31, clrId |-> clrId,
                           statusLen |-> 5, fieldCnt |-> 1, shard |-> all]
  BY <1>12, <1>13 DEF ShardBody, all
<1> QED
  BY <1>3, <1>10, <1>14, <1>15

-----------------------------------------------------------------------------
(* Chains of positions                                                     *)

\* A set of natural numbers has a least element.  The library states
\* well-foundedness without a predicate as parameter; inductions below are
\* arguments about a least or a highest counterexample.
LEMMA Least ==
  ASSUME NEW T \in SUBSET Nat, T # {}
  PROVE  \E n \in T : \A m \in T : n <= m
<1> DEFINE R == {ss \in Nat \X Nat : ss[1] < ss[2]}
<1>1. IsWellFoundedOn(R, Nat)
  BY NatLessThanWellFounded DEF OpToRel
<1>2. ASSUME NEW x \in Nat, NEW y \in Nat, y < x PROVE <<y, x>> \in R
  <2>1. <<y, x>> \in Nat \X Nat /\ <<y, x>>[1] = y /\ <<y, x>>[2] = x
    OBVIOUS
  <2> QED
    BY <1>2, <2>1, Zenon
<1> HIDE DEF R
<1>3. PICK x \in T : \A y \in T : ~(<<y, x>> \in R)
  BY <1>1, WFMin
<1>4. \A y \in T : ~(y < x)
  BY <1>2, <1>3
<1> QED
  BY <1>4
\* A bounded one has a highest element.
LEMMA Highest ==
  ASSUME NEW n \in Nat, NEW T \in SUBSET (0 .. n), T # {}
  PROVE  \E k \in T : \A m \in T : m <= k
<1> DEFINE S == {n - k : k \in T}
<1>0. \A k \in T : k \in 0 .. n /\ n - k \in Nat
  OBVIOUS
<1>1. S \in SUBSET Nat /\ S # {}
  BY <1>0, Zenon
<1>2. PICK s \in S : \A m \in S : s <= m
  BY <1>1, Least
<1>3. PICK k \in T : s = n - k
  BY <1>2
<1>4. \A m \in T : n - k <= n - m
  BY <1>2, <1>3
<1> QED
  BY <1>0, <1>4

\* A chain of positions that only leads forward, through sequences of S.
Chain(S, n, found, next) ==
  /\ n \in Nat /\ found \in [1 .. n -> S] /\ next \in [1 .. n -> 0 .. n]
  /\ \A i \in 1 .. n : next[i] = 0 \/ next[i] > i
  /\ \A x, y \in S : Cat(x, y) \in S

\* The equation that Collect stands for.
Collected(S, n, found, next) ==
  /\ Collect(found, next) \in [1 .. n -> S]
  /\ \A i \in 1 .. n : Collect(found, next)[i] =
        IF next[i] = 0 THEN found[i] ELSE Cat(found[i], Collect(found, next)[next[i]])

\* Collect is defined along every such chain, and satisfies its equation.
LEMMA CollectDef ==
  ASSUME NEW S, NEW n, NEW found, NEW next, Chain(S, n, found, next)
  PROVE  Collected(S, n, found, next)
<1> USE DEF Chain
<1> DEFINE Step(g, i) == IF next[i] = 0 THEN found[i] ELSE Cat(found[i], g[next[i]])
           Part(k) == \E g \in [k + 1 .. n -> S] : \A i \in k + 1 .. n : g[i] = Step(g, i)
<1>1. Part(n)
  <2> DEFINE e == [i \in n + 1 .. n |-> {}]
  <2>1. e \in [n + 1 .. n -> S] /\ n + 1 .. n = {}
    OBVIOUS
  <2> QED
    BY <2>1
<1>2. ASSUME NEW k \in 1 .. n, Part(k) PROVE Part(k - 1)
  <2>1. PICK g \in [k + 1 .. n -> S] : \A i \in k + 1 .. n : g[i] = Step(g, i)
    BY <1>2
  <2> DEFINE h == [i \in k .. n |-> IF i = k THEN Step(g, k) ELSE g[i]]
  <2>2. Step(g, k) \in S
    OBVIOUS
  <2>3. h \in [k .. n -> S]
    BY <2>2
  <2>4. ASSUME NEW i \in k .. n PROVE h[i] = Step(h, i)
    <3>1. Step(h, i) = Step(g, i)
      OBVIOUS
    <3> QED
      BY <2>1, <3>1
  <2>5. (k - 1) + 1 = k
    OBVIOUS
  <2> HIDE DEF h, Step
  <2> QED
    BY <2>3, <2>4, <2>5
<1>3. Part(0)
  <2> DEFINE T == {k \in 0 .. n : Part(k)}
  <2> HIDE DEF Part
  <2>0. T \in SUBSET Nat /\ n \in T
    BY <1>1
  <2>1. PICK k \in T : \A m \in T : k <= m
    <3> HIDE DEF T
    <3> QED
      BY <2>0, Least
  <2>2. k = 0
    <3> SUFFICES ASSUME k # 0 PROVE FALSE
      OBVIOUS
    <3>1. k \in 1 .. n /\ Part(k)
      OBVIOUS
    <3>2. Part(k - 1)
      BY <1>2, <3>1
    <3> QED
      BY <2>1, <3>1, <3>2
  <2> QED
    BY <2>2
<1>4. PICK g \in [1 .. n -> S] : \A i \in 1 .. n : g[i] = Step(g, i)
  <2>1. 0 + 1 = 1
    OBVIOUS
  <2> HIDE DEF Step
  <2> QED
    BY <1>3, <2>1
<1>5. g = [i \in 1 .. n |-> Step(g, i)]
  BY <1>4
<1> DEFINE c == Collect(found, next)
<1>6. c = [i \in 1 .. n |-> Step(c, i)]
  <2>1. c = CHOOSE f : f = [i \in DOMAIN found |-> Step(f, i)]
    BY Zenon DEF Collect, Cat
  <2>2. DOMAIN found = 1 .. n
    OBVIOUS
  <2> HIDE DEF Step, c
  <2> QED
    BY <1>5, <2>1, <2>2, Zenon
<1> HIDE DEF c, Collected
<1>7. \A i \in 1 .. n : c[i] = Step(c, i)
  <2> HIDE DEF Step
  <2> QED
    BY <1>6
<1>8. c \in [1 .. n -> S]
  <2>1. \A i \in 1 .. n : c[i] \in S
    <3> DEFINE T == {i \in 0 .. n : i # 0 /\ c[i] \notin S}
    <3> SUFFICES ASSUME NEW j \in 1 .. n, c[j] \notin S PROVE FALSE
      OBVIOUS
    <3>0. T \in SUBSET (0 .. n) /\ j \in T
      OBVIOUS
    <3>1. PICK k \in T : \A m \in T : m <= k
      <4> HIDE DEF T
      <4> QED
        BY <3>0, Highest
    <3>2. next[k] # 0 => c[next[k]] \in S
      BY <3>1
    <3>3. Step(c, k) \in S
      BY <3>1, <3>2
    <3> QED
      BY <1>7, <3>1, <3>3
  <2> HIDE DEF Step
  <2> QED
    BY <1>6, <2>1
<1> QED
  BY <1>7, <1>8 DEF c, Collected

-----------------------------------------------------------------------------
(* The frames of a stream seen at once                                     *)

\* A suffix of a byte sequence, its length and its bytes.
LEMMA SuffixType ==
  ASSUME NEW b \in Bytes, NEW i \in 1 .. Len(b) + 1
  PROVE  /\ Suffix(b, i) \in Bytes /\ Len(Suffix(b, i)) = Len(b) - i + 1
         /\ \A j \in 1 .. Len(b) - i + 1 : Suffix(b, i)[j] = b[i + j - 1]
  BY DEF Suffix, Bytes

\* Byte sequences are equal when their bytes are.
LEMMA SameBytes ==
  ASSUME NEW x \in Bytes, NEW y \in Bytes, Len(x) = Len(y), \A j \in 1 .. Len(x) : x[j] = y[j]
  PROVE  x = y
  BY DEF Bytes

\* A suffix of a suffix.
LEMMA SuffixOfSuffix ==
  ASSUME NEW b \in Bytes, NEW i \in 1 .. Len(b) + 1, NEW n \in 0 .. Len(b) - i + 1
  PROVE  Suffix(Suffix(b, i), n + 1) = Suffix(b, i + n)
<1> DEFINE s == Suffix(b, i)
           x == Suffix(s, n + 1)
           y == Suffix(b, i + n)
<1>0. Len(b) \in Nat
  BY LenType
<1>1. /\ s \in Bytes /\ Len(s) = Len(b) - i + 1
      /\ \A j \in 1 .. Len(b) - i + 1 : s[j] = b[i + j - 1]
  BY SuffixType
<1> HIDE DEF s
<1>2. n + 1 \in 1 .. Len(s) + 1 /\ i + n \in 1 .. Len(b) + 1
  BY <1>0, <1>1
<1>3. /\ x \in Bytes /\ Len(x) = Len(s) - (n + 1) + 1
      /\ \A j \in 1 .. Len(s) - (n + 1) + 1 : x[j] = s[n + 1 + j - 1]
  BY <1>1, <1>2, SuffixType
<1>4. /\ y \in Bytes /\ Len(y) = Len(b) - (i + n) + 1
      /\ \A j \in 1 .. Len(b) - (i + n) + 1 : y[j] = b[i + n + j - 1]
  BY <1>2, SuffixType
<1> HIDE DEF x, y
<1>5. Len(x) = Len(y)
  BY <1>0, <1>1, <1>3, <1>4
<1>6. ASSUME NEW j \in 1 .. Len(x) PROVE x[j] = y[j]
  <2>1. x[j] = s[n + j]
    BY <1>0, <1>1, <1>3
  <2>2. s[n + j] = b[i + (n + j) - 1]
    BY <1>0, <1>1, <1>3
  <2>3. y[j] = b[i + n + j - 1]
    BY <1>0, <1>4, <1>5
  <2>4. i + (n + j) - 1 = i + n + j - 1
    BY <1>0, <1>1, <1>3
  <2> QED
    BY <2>1, <2>2, <2>3, <2>4
<1>7. x = y
  BY <1>3, <1>4, <1>5, <1>6, SameBytes
<1> QED
  BY <1>7 DEF x, y, s

\* A suffix that begins in the first part of a concatenation, or right after it.
LEMMA SuffixOfCat ==
  ASSUME NEW a \in Bytes, NEW e \in Bytes, NEW i \in 1 .. Len(a) + 1
  PROVE  Suffix(Cat(a, e), i) = Cat(Suffix(a, i), e)
<1> DEFINE s == Suffix(a, i)
           c == Cat(a, e)
           x == Suffix(c, i)
           y == Cat(s, e)
<1>0. Len(a) \in Nat /\ Len(e) \in Nat
  BY LenType
<1>1. /\ s \in Bytes /\ Len(s) = Len(a) - i + 1
      /\ \A j \in 1 .. Len(a) - i + 1 : s[j] = a[i + j - 1]
  BY SuffixType
<1>2. /\ c \in Bytes /\ Len(c) = Len(a) + Len(e)
      /\ \A k \in 1 .. Len(a) : c[k] = a[k]
      /\ \A k \in 1 .. Len(e) : c[Len(a) + k] = e[k]
  BY Concat, Zenon
<1> HIDE DEF s, c
<1>3. i \in 1 .. Len(c) + 1
  BY <1>0, <1>2
<1>4. /\ x \in Bytes /\ Len(x) = Len(c) - i + 1
      /\ \A j \in 1 .. Len(c) - i + 1 : x[j] = c[i + j - 1]
  BY <1>2, <1>3, SuffixType
<1>5. /\ y \in Bytes /\ Len(y) = Len(s) + Len(e)
      /\ \A k \in 1 .. Len(s) : y[k] = s[k]
      /\ \A k \in 1 .. Len(e) : y[Len(s) + k] = e[k]
  BY <1>1, Concat, Zenon
<1> HIDE DEF x, y
<1>6. Len(x) = Len(y)
  BY <1>0, <1>1, <1>2, <1>4, <1>5
<1>7. ASSUME NEW j \in 1 .. Len(x) PROVE x[j] = y[j]
  <2>1. x[j] = c[i + j - 1]
    BY <1>4
  <2>2. CASE j <= Len(s)
    <3>1. j \in 1 .. Len(s) /\ i + j - 1 \in 1 .. Len(a)
      BY <1>0, <1>1, <2>2
    <3>2. y[j] = s[j] /\ s[j] = a[i + j - 1] /\ c[i + j - 1] = a[i + j - 1]
      BY <1>0, <1>1, <1>2, <1>5, <3>1
    <3> QED
      BY <2>1, <3>2
  <2>3. CASE j > Len(s)
    <3> DEFINE k == j - Len(s)
    <3>1. k \in 1 .. Len(e) /\ Len(s) + k = j /\ Len(a) + k = i + j - 1
      BY <1>0, <1>1, <1>2, <1>4, <2>3
    <3> HIDE DEF k
    <3>2. y[Len(s) + k] = e[k] /\ c[Len(a) + k] = e[k]
      BY <1>2, <1>5, <3>1
    <3> QED
      BY <2>1, <3>1, <3>2
  <2> QED
    BY <1>0, <1>1, <2>2, <2>3
<1>8. x = y
  BY <1>4, <1>5, <1>6, <1>7, SameBytes
<1> QED
  BY <1>8 DEF x, y, s, c

\* What is found at byte i of a stream.
At(sd, b, i) == DecodeAs(sd, Suffix(b, i))

\* The least of a set of positions.
First(M) == CHOOSE j \in M : \A k \in M : j <= k

\* The first magic byte behind i, if there is one.
LEMMA FirstMagic ==
  ASSUME NEW b \in Bytes, NEW i \in 1 .. Len(b) + 1, Magics(b, i) # {}
  PROVE  First(Magics(b, i)) \in Magics(b, i) /\ \A k \in Magics(b, i) : First(Magics(b, i)) <= k
<1>1. Magics(b, i) \in SUBSET Nat
  BY LenType DEF Magics
<1>2. \E n \in Magics(b, i) : \A m \in Magics(b, i) : n <= m
  BY <1>1, Least
<1> QED
  BY <1>2, Zenon DEF First

\* A frame found at byte i ends within the stream.
LEMMA AtFits ==
  ASSUME NEW sd, NEW b \in Bytes, NEW i \in 1 .. Len(b) + 1
  PROVE  \/ At(sd, b, i).kind = "need"
         \/ At(sd, b, i).kind = "bad"
         \/ At(sd, b, i).kind = "frame" /\ At(sd, b, i).len \in 1 .. Len(b) - i + 1
<1> DEFINE s == Suffix(b, i)
<1>1. s \in Bytes /\ Len(s) = Len(b) - i + 1
  BY SuffixType
<1> HIDE DEF s
<1>2. \/ DecodeAs(sd, s).kind = "need" \/ DecodeAs(sd, s).kind = "bad"
      \/ DecodeAs(sd, s).kind = "frame" /\ DecodeAs(sd, s).len \in 1 .. Len(s)
  BY <1>1, DecodeFits, Zenon
<1> QED
  BY <1>1, <1>2, Zenon DEF At, s

\* What is found is a result of a decoder.
LEMMA AtType ==
  ASSUME NEW sd, NEW b \in Bytes, NEW i \in 1 .. Len(b) + 1
  PROVE  At(sd, b, i) \in Result
<1>1. Suffix(b, i) \in Bytes
  BY SuffixType
<1> QED
  BY <1>1, Zenon DEF At, DecodeAs, Result

\* Where the next frame is looked for: always further on.
LEMMA FollowIn ==
  ASSUME NEW sd, NEW b \in Bytes, NEW i \in 1 .. Len(b) + 1
  PROVE  /\ At(sd, b, i).kind = "frame" => Follow(sd, b)[i] = i + At(sd, b, i).len
         /\ At(sd, b, i).kind = "bad" /\ sd = "router" /\ Magics(b, i) # {} =>
               Follow(sd, b)[i] = First(Magics(b, i))
         /\ At(sd, b, i).kind # "frame"
              /\ ~(At(sd, b, i).kind = "bad" /\ sd = "router" /\ Magics(b, i) # {}) =>
               Follow(sd, b)[i] = 0
         /\ Follow(sd, b)[i] \in 0 .. Len(b) + 1
         /\ Follow(sd, b)[i] = 0 \/ Follow(sd, b)[i] > i
<1>0. Len(b) \in Nat
  BY LenType
<1> DEFINE d == At(sd, b, i)
           f == Follow(sd, b)[i]
<1>1. f = CASE d.kind = "frame" -> i + d.len
            [] d.kind = "bad" /\ sd = "router" /\ Magics(b, i) # {} -> First(Magics(b, i))
            [] OTHER -> 0
  BY DEF Follow, At, First
<1>2. d.kind = "need" \/ d.kind = "bad" \/ (d.kind = "frame" /\ d.len \in 1 .. Len(b) - i + 1)
  BY AtFits, Zenon
<1>3. Magics(b, i) # {} => First(Magics(b, i)) \in i + 1 .. Len(b)
  BY FirstMagic DEF Magics
<1> HIDE DEF d, f
<1>4. d.kind = "frame" => f = i + d.len
  BY <1>1
<1>5. d.kind = "bad" /\ sd = "router" /\ Magics(b, i) # {} => f = First(Magics(b, i))
  BY <1>1
<1>6. d.kind # "frame" /\ ~(d.kind = "bad" /\ sd = "router" /\ Magics(b, i) # {}) => f = 0
  BY <1>1
<1>7. f \in 0 .. Len(b) + 1 /\ (f = 0 \/ f > i)
  <2>1. CASE d.kind = "frame"
    BY <1>0, <1>2, <1>4, <2>1
  <2>2. CASE d.kind = "bad" /\ sd = "router" /\ Magics(b, i) # {}
    BY <1>0, <1>3, <1>5, <2>2
  <2>3. CASE d.kind # "frame" /\ ~(d.kind = "bad" /\ sd = "router" /\ Magics(b, i) # {})
    BY <1>0, <1>6, <2>3
  <2> QED
    BY <2>1, <2>2, <2>3
<1> QED
  BY <1>4, <1>5, <1>6, <1>7 DEF d, f

\* What is found at byte i, as a sequence.
LEMMA FoundIn ==
  ASSUME NEW sd, NEW b \in Bytes, NEW i \in 1 .. Len(b) + 1
  PROVE  /\ At(sd, b, i).kind = "frame" => Found(sd, b)[i] = <<At(sd, b, i)>>
         /\ At(sd, b, i).kind # "frame" => Found(sd, b)[i] = <<>>
         /\ Found(sd, b)[i] \in Seq(Result)
<1> DEFINE d == At(sd, b, i)
<1>1. Found(sd, b)[i] = IF d.kind = "frame" THEN <<d>> ELSE <<>>
  BY DEF Found, At
<1>2. d \in Result
  BY AtType
<1> HIDE DEF d
<1> QED
  BY <1>1, <1>2 DEF d

\* The frames from byte i on satisfy their equation.
LEMMA FromDef ==
  ASSUME NEW sd, NEW b \in Bytes
  PROVE  /\ FramesFrom(sd, b) \in [1 .. Len(b) + 1 -> Seq(Result)]
         /\ \A i \in 1 .. Len(b) + 1 : FramesFrom(sd, b)[i] =
              IF Follow(sd, b)[i] = 0 THEN Found(sd, b)[i]
              ELSE Cat(Found(sd, b)[i], FramesFrom(sd, b)[Follow(sd, b)[i]])
<1> DEFINE n == Len(b) + 1
<1>1. n \in Nat
  BY LenType
<1>2. Found(sd, b) \in [1 .. n -> Seq(Result)]
  <2>1. \A i \in 1 .. n : Found(sd, b)[i] \in Seq(Result)
    BY FoundIn
  <2> DEFINE S == Seq(Result)
  <2> HIDE DEF S
  <2> QED
    BY <2>1 DEF Found, S
<1>3. Follow(sd, b) \in [1 .. n -> 0 .. n] /\ \A i \in 1 .. n : Follow(sd, b)[i] = 0 \/ Follow(sd, b)[i] > i
  <2>1. \A i \in 1 .. n : Follow(sd, b)[i] \in 0 .. n /\ (Follow(sd, b)[i] = 0 \/ Follow(sd, b)[i] > i)
    BY FollowIn
  <2>2. Follow(sd, b) = [i \in 1 .. n |-> Follow(sd, b)[i]]
    BY DEF Follow
  <2> QED
    BY <2>1, <2>2
<1> DEFINE f == Found(sd, b)
           g == Follow(sd, b)
           S == Seq(Result)
<1>0. \A x, y \in S : Cat(x, y) \in S
  BY DEF Cat
<1> HIDE DEF n, f, g, S
<1>4. f \in [1 .. n -> S] /\ g \in [1 .. n -> 0 .. n] /\ \A i \in 1 .. n : g[i] = 0 \/ g[i] > i
  BY <1>2, <1>3 DEF f, g, S
<1>5. /\ Collect(f, g) \in [1 .. n -> S]
      /\ \A i \in 1 .. n : Collect(f, g)[i] =
            IF g[i] = 0 THEN f[i] ELSE Cat(f[i], Collect(f, g)[g[i]])
  <2>1. Chain(S, n, f, g)
    BY <1>0, <1>1, <1>4 DEF Chain
  <2>2. Collected(S, n, f, g)
    BY <2>1, CollectDef
  <2> QED
    BY <2>2 DEF Collected
<1> QED
  BY <1>5, Zenon DEF n, f, g, S, FramesFrom

\* The empty sequence is neutral.
LEMMA CatEmpty ==
  ASSUME NEW X, NEW x \in Seq(X)
  PROVE  Cat(<<>>, x) = x /\ Cat(x, <<>>) = x
  BY DEF Cat

\* Concatenation is associative.
LEMMA CatAssoc ==
  ASSUME NEW X, NEW x \in Seq(X), NEW y \in Seq(X), NEW z \in Seq(X)
  PROVE  Cat(Cat(x, y), z) = Cat(x, Cat(y, z))
  BY DEF Cat

\* From a frame on: the frame, and what is found behind it.
LEMMA FromFrame ==
  ASSUME NEW sd, NEW b \in Bytes, NEW i \in 1 .. Len(b) + 1, At(sd, b, i).kind = "frame"
  PROVE  /\ i + At(sd, b, i).len \in 1 .. Len(b) + 1
         /\ FramesFrom(sd, b)[i] = Cat(<<At(sd, b, i)>>, FramesFrom(sd, b)[i + At(sd, b, i).len])
<1> DEFINE d == At(sd, b, i)
<1>1. d.len \in 1 .. Len(b) - i + 1 /\ Len(b) \in Nat
  BY AtFits, LenType
<1>2. Follow(sd, b)[i] = i + d.len /\ Found(sd, b)[i] = <<d>>
  BY FollowIn, FoundIn
<1> HIDE DEF d
<1>3. i + d.len # 0 /\ i + d.len \in 1 .. Len(b) + 1
  BY <1>1
<1> QED
  BY <1>2, <1>3, FromDef DEF d

\* From an incomplete frame, or an error without a way on: nothing.
LEMMA FromEnd ==
  ASSUME NEW sd, NEW b \in Bytes, NEW i \in 1 .. Len(b) + 1,
         \/ At(sd, b, i).kind = "need"
         \/ At(sd, b, i).kind = "bad" /\ (sd # "router" \/ Magics(b, i) = {})
  PROVE  FramesFrom(sd, b)[i] = <<>>
<1>1. At(sd, b, i).kind # "frame" /\ ~(At(sd, b, i).kind = "bad" /\ sd = "router" /\ Magics(b, i) # {})
  OBVIOUS
<1>2. Follow(sd, b)[i] = 0 /\ Found(sd, b)[i] = <<>>
  BY <1>1, FollowIn, FoundIn
<1> QED
  BY <1>2, FromDef

\* From an error on the router side: what is found from the next magic on.
LEMMA FromFirst ==
  ASSUME NEW b \in Bytes, NEW i \in 1 .. Len(b) + 1, At("router", b, i).kind = "bad", Magics(b, i) # {}
  PROVE  FramesFrom("router", b)[i] = FramesFrom("router", b)[First(Magics(b, i))]
<1> DEFINE f == First(Magics(b, i))
<1>1. f \in i + 1 .. Len(b)
  BY FirstMagic DEF Magics
<1>2. Follow("router", b)[i] = f /\ Found("router", b)[i] = <<>>
  BY FollowIn, FoundIn
<1> HIDE DEF f
<1>3. f # 0 /\ f \in 1 .. Len(b) + 1
  BY <1>1, LenType
<1>4. FramesFrom("router", b)[f] \in Seq(Result)
  BY <1>3, FromDef
<1>5. FramesFrom("router", b)[i] = Cat(<<>>, FramesFrom("router", b)[f])
  BY <1>2, <1>3, FromDef
<1> QED
  BY <1>4, <1>5, CatEmpty DEF f

\* What the bytes at i tell try_decode_router.
LEMMA RouterAt ==
  ASSUME NEW b \in Bytes, NEW i \in 1 .. Len(b) + 1
  PROVE  /\ Len(b) - i + 1 < 5 => At("router", b, i).kind = "need"
         /\ Len(b) - i + 1 >= 5 /\ b[i] # RouterMagic => At("router", b, i).kind = "bad"
<1> DEFINE s == Suffix(b, i)
<1>1. s \in Bytes /\ Len(s) = Len(b) - i + 1 /\ (Len(b) - i + 1 >= 5 => s[1] = b[i])
  BY SuffixType, LenType
<1> HIDE DEF s
<1>2. Len(s) < 5 => RouterDecode(s) = Need
  BY DEF RouterDecode
<1>3. Len(s) \in Nat /\ Len(s) >= 5 /\ s[1] # RouterMagic => RouterDecode(s) = Bad
  BY DEF RouterDecode
<1> QED
  BY <1>1, <1>2, <1>3, KindsDiffer, LenType DEF At, DecodeAs, s

\* After a parse error, any number of bytes without a magic may be skipped: the
\* frames found are the same.
LEMMA SkipNoMagic ==
  ASSUME NEW b \in Bytes, NEW i \in 1 .. Len(b) + 1, NEW k \in i + 1 .. Len(b) + 1,
         At("router", b, i).kind = "bad", \A j \in i + 1 .. k - 1 : b[j] # RouterMagic
  PROVE  FramesFrom("router", b)[i] = FramesFrom("router", b)[k]
<1> DEFINE F == FramesFrom("router", b)
           M == Magics(b, i)
<1>0. Len(b) \in Nat /\ k \in 1 .. Len(b) + 1
  BY LenType
<1>1. M # {} => First(M) \in M /\ \A m \in M : First(M) <= m
  BY FirstMagic
<1>2. \A m \in M : m \in k .. Len(b) /\ b[m] = RouterMagic
  BY <1>0 DEF Magics
<1>3. M = {} => F[i] = <<>>
  BY FromEnd
<1>4. M # {} => F[i] = F[First(M)]
  BY FromFirst
<1>5. CASE k \in M
  <2> HIDE DEF M
  <2>0. First(M) \in k .. Len(b) /\ First(M) <= k
    BY <1>1, <1>2, <1>5
  <2>1. First(M) = k
    BY <1>0, <2>0
  <2> QED
    BY <1>4, <1>5, <2>1
<1>6. CASE k \notin M /\ Len(b) - k + 1 < 5
  <2>1. F[k] = <<>>
    BY <1>0, <1>6, RouterAt, FromEnd
  <2>2. ASSUME M # {} PROVE F[First(M)] = <<>>
    <3> DEFINE f == First(M)
    <3>1. f \in k .. Len(b)
      BY <1>1, <1>2, <2>2
    <3> HIDE DEF f
    <3>2. f \in 1 .. Len(b) + 1 /\ Len(b) - f + 1 < 5
      BY <1>0, <1>6, <3>1
    <3>3. F[f] = <<>>
      BY <3>2, RouterAt, FromEnd
    <3> QED
      BY <3>3 DEF f
  <2> QED
    BY <1>3, <1>4, <2>1, <2>2
<1>7. CASE k \notin M /\ Len(b) - k + 1 >= 5
  <2>1. b[k] # RouterMagic
    BY <1>0, <1>7 DEF Magics
  <2>2. At("router", b, k).kind = "bad"
    BY <1>0, <1>7, <2>1, RouterAt
  <2>3. Magics(b, k) = M
    BY <1>0, <1>2, <2>1 DEF Magics
  <2>4. M = {} => F[k] = <<>>
    BY <1>0, <2>2, <2>3, FromEnd
  <2>5. M # {} => F[k] = F[First(M)]
    BY <1>0, <2>2, <2>3, FromFirst
  <2> QED
    BY <1>3, <1>4, <2>4, <2>5
<1> QED
  BY <1>0, <1>5, <1>6, <1>7

-----------------------------------------------------------------------------
(* Chunks do not matter                                                    *)

\* Where a buffer with the last bytes of what arrived begins.
Pos(a, b) == Len(a) - Len(b) + 1

\* Of the bytes a that arrived, b is still in the buffer and o has been taken:
\* whatever bytes e follow, the frames of the stream are those in o and then
\* those found from the beginning of the buffer on.
Reading(sd, a, b, o) ==
  /\ Len(b) <= Len(a) /\ b = Suffix(a, Pos(a, b))
  /\ \A e \in Bytes : FramesOf(sd, Cat(a, e)) = Cat(o, FramesFrom(sd, Cat(a, e))[Pos(a, b)])

\* Whatever bytes e follow, decoding the buffer is decoding at its position.
Aligned(sd, a, b, e) ==
  /\ Len(a) \in Nat /\ Len(b) \in Nat /\ Len(b) <= Len(a)
  /\ Pos(a, b) \in 1 .. Len(a) + 1
  /\ Cat(a, e) \in Bytes /\ Len(Cat(a, e)) \in Nat /\ Len(a) <= Len(Cat(a, e))
  /\ Pos(a, b) \in 1 .. Len(Cat(a, e)) + 1
  /\ At(sd, Cat(a, e), Pos(a, b)) = DecodeAs(sd, Cat(b, e))
  /\ \A j \in 1 .. Len(b) : Cat(a, e)[Pos(a, b) + j - 1] = b[j]

\* It does.
LEMMA ReadingAt ==
  ASSUME NEW sd, NEW a \in Bytes, NEW b \in Bytes, NEW o, NEW e \in Bytes, Reading(sd, a, b, o)
  PROVE  Aligned(sd, a, b, e)
<1> DEFINE p == Pos(a, b)
           c == Cat(a, e)
<1>1. Len(a) \in Nat /\ Len(b) \in Nat /\ Len(e) \in Nat /\ Len(b) <= Len(a)
  BY LenType DEF Reading
<1>2. p \in 1 .. Len(a) + 1 /\ Len(a) - p + 1 = Len(b)
  BY <1>1 DEF Pos
<1>3. c \in Bytes /\ Len(c) = Len(a) + Len(e) /\ \A i \in 1 .. Len(a) : c[i] = a[i]
  BY Concat, Zenon
<1>4. b = Suffix(a, p)
  BY DEF Reading
<1> HIDE DEF p
<1>5. Suffix(c, p) = Cat(b, e)
  BY <1>2, <1>4, SuffixOfCat
<1>6. \A j \in 1 .. Len(b) : b[j] = a[p + j - 1]
  BY <1>2, <1>4, SuffixType
<1> HIDE DEF c
<1>7. \A j \in 1 .. Len(b) : c[p + j - 1] = b[j]
  <2> SUFFICES ASSUME NEW j \in 1 .. Len(b) PROVE c[p + j - 1] = b[j]
    OBVIOUS
  <2>1. p + j - 1 \in 1 .. Len(a)
    BY <1>1, <1>2
  <2> QED
    BY <1>3, <1>6, <2>1
<1>8. p \in 1 .. Len(c) + 1 /\ Len(c) \in Nat /\ Len(a) <= Len(c)
  BY <1>1, <1>2, <1>3
<1> QED
  BY <1>1, <1>2, <1>3, <1>5, <1>7, <1>8 DEF p, c, At, Aligned

\* Bytes arrive.
LEMMA ReadingMore ==
  ASSUME NEW sd, NEW a \in Bytes, NEW b \in Bytes, NEW o, NEW x \in Bytes, Reading(sd, a, b, o)
  PROVE  Reading(sd, Cat(a, x), Cat(b, x), o)
<1> DEFINE p == Pos(a, b)
           ax == Cat(a, x)
           bx == Cat(b, x)
<1>1. /\ Len(a) \in Nat /\ Len(b) \in Nat /\ Len(b) <= Len(a) /\ p \in 1 .. Len(a) + 1
  BY ReadingAt DEF Aligned
<1>2. ax \in Bytes /\ Len(ax) = Len(a) + Len(x) /\ Len(bx) = Len(b) + Len(x) /\ Len(x) \in Nat
  BY Concat, LenType
<1>3. Suffix(ax, p) = bx
  BY <1>1, SuffixOfCat DEF Reading
<1>4. \A e \in Bytes : Cat(ax, e) = Cat(a, Cat(x, e)) /\ Cat(x, e) \in Bytes
  BY CatAssoc, Concat DEF Bytes
<1> HIDE DEF ax, bx
<1>5. Pos(ax, bx) = p /\ Len(bx) <= Len(ax)
  BY <1>1, <1>2 DEF Pos
<1>6. ASSUME NEW e \in Bytes
      PROVE  FramesOf(sd, Cat(ax, e)) = Cat(o, FramesFrom(sd, Cat(ax, e))[p])
  BY <1>4 DEF Reading
<1> QED
  BY <1>3, <1>5, <1>6 DEF Reading, ax, bx

\* What is left of the buffer when n bytes leave it.
LEMMA ReadingLess ==
  ASSUME NEW sd, NEW a \in Bytes, NEW b \in Bytes, NEW o, NEW n \in 0 .. Len(b), Reading(sd, a, b, o)
  PROVE  /\ Suffix(b, n + 1) \in Bytes /\ Len(Suffix(b, n + 1)) = Len(b) - n
         /\ Len(Suffix(b, n + 1)) <= Len(a)
         /\ Pos(a, Suffix(b, n + 1)) = Pos(a, b) + n
         /\ Suffix(b, n + 1) = Suffix(a, Pos(a, b) + n)
<1> DEFINE p == Pos(a, b)
           s == Suffix(b, n + 1)
<1>1. Len(a) \in Nat /\ Len(b) \in Nat /\ Len(b) <= Len(a) /\ p = Len(a) - Len(b) + 1 /\ b = Suffix(a, p)
  BY LenType DEF Reading, Pos
<1> HIDE DEF p
<1>2. p \in 1 .. Len(a) + 1 /\ n \in 0 .. Len(a) - p + 1 /\ n + 1 \in 1 .. Len(b) + 1
  BY <1>1
<1>3. s = Suffix(a, p + n)
  BY <1>1, <1>2, SuffixOfSuffix
<1>4. s \in Bytes /\ Len(s) = Len(b) - (n + 1) + 1
  BY <1>2, SuffixType
<1> HIDE DEF s
<1>5. Len(s) = Len(b) - n /\ Len(s) <= Len(a) /\ Pos(a, s) = p + n
  BY <1>1, <1>4 DEF Pos
<1> QED
  BY <1>3, <1>4, <1>5 DEF p, s

\* A frame is taken.
LEMMA ReadingFrame ==
  ASSUME NEW sd, NEW a \in Bytes, NEW b \in Bytes, NEW o \in Seq(Result), Reading(sd, a, b, o),
         DecodeAs(sd, b).kind = "frame"
  PROVE  Reading(sd, a, Suffix(b, DecodeAs(sd, b).len + 1), Cat(o, <<DecodeAs(sd, b)>>))
<1> DEFINE d == DecodeAs(sd, b)
           p == Pos(a, b)
           s == Suffix(b, d.len + 1)
<1>1. d.len \in 1 .. Len(b) /\ d.kind = "frame" /\ d.kind # "need" /\ Len(b) \in Nat
  BY DecodeFits, LenType
<1>2. /\ Len(s) <= Len(a) /\ Pos(a, s) = p + d.len /\ s = Suffix(a, p + d.len)
  <2>1. d.len \in 0 .. Len(b)
    BY <1>1
  <2> HIDE DEF d
  <2> QED
    BY <2>1, ReadingLess
<1>3. d \in Result
  BY DEF DecodeAs, Result
<1>4. ASSUME NEW e \in Bytes
      PROVE  FramesOf(sd, Cat(a, e)) = Cat(Cat(o, <<d>>), FramesFrom(sd, Cat(a, e))[p + d.len])
  <2> DEFINE c == Cat(a, e)
             F == FramesFrom(sd, c)
  <2>1. c \in Bytes /\ p \in 1 .. Len(c) + 1 /\ At(sd, c, p) = DecodeAs(sd, Cat(b, e))
    <3>1. Aligned(sd, a, b, e)
      BY ReadingAt
    <3> QED
      BY <3>1, Zenon DEF Aligned
  <2>2. At(sd, c, p) = d
    BY <1>1, <2>1, DecodeStable
  <2>3. FramesOf(sd, c) = Cat(o, F[p])
    BY DEF Reading
  <2> HIDE DEF c, d, p
  <2>4. p + d.len \in 1 .. Len(c) + 1 /\ F[p] = Cat(<<d>>, F[p + d.len])
    BY <1>1, <2>1, <2>2, FromFrame
  <2>5. F[p + d.len] \in Seq(Result)
    BY <2>1, <2>4, FromDef
  <2> DEFINE t == F[p + d.len]
             u == <<d>>
  <2>6. t \in Seq(Result) /\ u \in Seq(Result)
    BY <1>3, <2>5
  <2> HIDE DEF t, u
  <2>7. Cat(Cat(o, u), t) = Cat(o, Cat(u, t))
    BY <2>6, CatAssoc
  <2>8. FramesOf(sd, c) = Cat(Cat(o, u), t)
    BY <2>3, <2>4, <2>7 DEF t, u
  <2> QED
    BY <2>8 DEF t, u, c
<1> HIDE DEF d, p
<1> QED
  BY <1>2, <1>4 DEF Reading, d

\* Garbage is skipped, up to the next magic or as much as there is.
LEMMA ReadingSkip ==
  ASSUME NEW a \in Bytes, NEW b \in Bytes, NEW o, Reading("router", a, b, o),
         DecodeAs("router", b).kind = "bad",
         NEW n \in 1 .. Len(b), \A j \in 2 .. n : b[j] # RouterMagic
  PROVE  Reading("router", a, Suffix(b, n + 1), o)
<1> DEFINE p == Pos(a, b)
           s == Suffix(b, n + 1)
<1>1. Len(b) \in Nat
  BY LenType
<1>2. /\ Len(s) <= Len(a) /\ Pos(a, s) = p + n /\ s = Suffix(a, p + n)
  <2>1. n \in 0 .. Len(b)
    BY <1>1
  <2> QED
    BY <2>1, ReadingLess
<1>3. ASSUME NEW e \in Bytes
      PROVE  FramesFrom("router", Cat(a, e))[p] = FramesFrom("router", Cat(a, e))[p + n]
  <2> DEFINE c == Cat(a, e)
  <2>1. /\ Len(a) \in Nat /\ Len(b) <= Len(a) /\ Len(c) \in Nat /\ Len(a) <= Len(c) /\ c \in Bytes
        /\ p \in 1 .. Len(c) + 1 /\ At("router", c, p) = DecodeAs("router", Cat(b, e))
        /\ \A j \in 1 .. Len(b) : c[p + j - 1] = b[j]
    <3>1. Aligned("router", a, b, e)
      BY ReadingAt
    <3> QED
      BY <3>1, Zenon DEF Aligned
  <2>2. At("router", c, p).kind = "bad"
    BY <2>1, DecodeStable
  <2>3. p = Len(a) - Len(b) + 1
    BY DEF Pos
  <2> HIDE DEF c, p
  <2>4. p + n \in p + 1 .. Len(c) + 1
    BY <1>1, <2>1, <2>3
  <2>5. ASSUME NEW k \in p + 1 .. (p + n) - 1 PROVE c[k] # RouterMagic
    <3> DEFINE j == k - p + 1
    <3>1. j \in 2 .. n /\ j \in 1 .. Len(b) /\ p + j - 1 = k
      BY <1>1, <2>1
    <3> HIDE DEF j
    <3>2. c[p + j - 1] = b[j] /\ b[j] # RouterMagic
      BY <2>1, <3>1
    <3> QED
      BY <3>1, <3>2
  <2>6. FramesFrom("router", c)[p] = FramesFrom("router", c)[p + n]
    BY <2>1, <2>2, <2>4, <2>5, SkipNoMagic
  <2> QED
    BY <2>6 DEF c
<1> HIDE DEF p, s
<1>4. \A e \in Bytes : FramesOf("router", Cat(a, e)) = Cat(o, FramesFrom("router", Cat(a, e))[p + n])
  BY <1>3 DEF Reading, p
<1>5. Reading("router", a, s, o)
  BY <1>2, <1>4 DEF Reading
<1> QED
  BY <1>5 DEF s

\* The buffer holds no more of a frame than its beginning, or nothing usable.
LEMMA ReadingDone ==
  ASSUME NEW sd, NEW a \in Bytes, NEW b \in Bytes, NEW o \in Seq(Result), Reading(sd, a, b, o),
         \/ DecodeAs(sd, b).kind = "need"
         \/ /\ DecodeAs(sd, b).kind = "bad"
            /\ sd # "router" \/ \A j \in 2 .. Len(b) : b[j] # RouterMagic
  PROVE  o = FramesOf(sd, a)
<1> DEFINE p == Pos(a, b)
<1>1. <<>> \in Bytes /\ Cat(a, <<>>) = a /\ Cat(b, <<>>) = b
  BY DEF Bytes, Cat
<1>2. /\ Len(a) \in Nat /\ Len(b) \in Nat /\ Len(b) <= Len(a) /\ p \in 1 .. Len(a) + 1
      /\ At(sd, a, p) = DecodeAs(sd, b) /\ \A j \in 1 .. Len(b) : a[p + j - 1] = b[j]
  <2>1. /\ Len(a) \in Nat /\ Len(b) \in Nat /\ Len(b) <= Len(a) /\ p \in 1 .. Len(a) + 1
        /\ At(sd, Cat(a, <<>>), p) = DecodeAs(sd, Cat(b, <<>>))
        /\ \A j \in 1 .. Len(b) : Cat(a, <<>>)[p + j - 1] = b[j]
    <3>1. Aligned(sd, a, b, <<>>)
      BY <1>1, ReadingAt
    <3> QED
      BY <3>1, Zenon DEF Aligned
  <2> QED
    BY <1>1, <2>1, Zenon
<1>3. FramesOf(sd, a) = Cat(o, FramesFrom(sd, a)[p])
  BY <1>1 DEF Reading
<1>4. p = Len(a) - Len(b) + 1
  BY DEF Pos
<1> HIDE DEF p
<1>5. (\A j \in 2 .. Len(b) : b[j] # RouterMagic) => Magics(a, p) = {}
  <2> SUFFICES ASSUME \A j \in 2 .. Len(b) : b[j] # RouterMagic, NEW k \in p + 1 .. Len(a)
               PROVE  a[k] # RouterMagic
    BY DEF Magics
  <2> DEFINE j == k - p + 1
  <2>1. j \in 2 .. Len(b) /\ j \in 1 .. Len(b) /\ p + j - 1 = k
    BY <1>2, <1>4
  <2> HIDE DEF j
  <2>2. a[p + j - 1] = b[j] /\ b[j] # RouterMagic
    BY <1>2, <2>1
  <2> QED
    BY <2>1, <2>2
<1>6. FramesFrom(sd, a)[p] = <<>>
  BY <1>2, <1>5, FromEnd
<1> QED
  BY <1>3, <1>6, CatEmpty

\* The inductive invariant.  While the loop runs, what has been taken and what
\* the buffer will still give are the frames of the stream, for every
\* continuation of it; a loop that has ended on the shard side has dropped its
\* buffer, and what it took are the frames of all that arrived.
ChunkInv ==
  /\ sent <= Len(stream)
  /\ side = "router" \/ st # "ended" => Reading(side, Arrived, buf, out)
  /\ ChunkIndependent

\* The bytes that have arrived.
LEMMA ArrivedType ==
  ASSUME StreamInv, ChunkInv
  PROVE  Arrived \in Bytes /\ Len(Arrived) = sent
  BY LenType DEF StreamInv, ChunkInv, Arrived, Bytes

\* The invariant holds initially.
LEMMA ChunkInit == Init => ChunkInv
<1> SUFFICES ASSUME Init PROVE ChunkInv
  OBVIOUS
<1>1. StreamInv
  BY StreamInit
<1>2. stream \in Bytes /\ sent = 0 /\ buf = <<>> /\ out = <<>> /\ <<>> \in Bytes /\ <<>> \in Seq(Result)
  BY <1>1 DEF Init, StreamInv, Bytes
<1>3. Arrived = <<>>
  BY <1>2 DEF Arrived, Bytes
<1>4. Len(<<>>) = 0 /\ Suffix(<<>>, 1) = <<>> /\ Pos(<<>>, <<>>) = 1
  BY DEF Suffix, Pos
<1>5. ASSUME NEW e \in Bytes
      PROVE  FramesOf(side, Cat(<<>>, e)) = Cat(<<>>, FramesFrom(side, Cat(<<>>, e))[1])
  <2>1. Cat(<<>>, e) = e
    BY CatEmpty DEF Bytes
  <2>2. 1 \in 1 .. Len(e) + 1
    BY LenType
  <2>3. FramesFrom(side, e)[1] \in Seq(Result)
    BY <2>2, FromDef
  <2> DEFINE F == FramesFrom(side, e)[1]
  <2> HIDE DEF F
  <2>4. Cat(<<>>, F) = F
    BY <2>3, CatEmpty DEF F
  <2> QED
    BY <2>1, <2>4 DEF FramesOf, F
<1>6. Reading(side, <<>>, <<>>, <<>>)
  BY <1>4, <1>5 DEF Reading
<1>7. DecodeAs(side, <<>>).kind = "need"
  BY <1>4, KindsDiffer DEF DecodeAs, RouterDecode, ShardDecode
<1>8. <<>> = FramesOf(side, <<>>)
  BY <1>2, <1>6, <1>7, ReadingDone
<1>9. sent <= Len(stream)
  BY <1>2, LenType
<1> QED
  BY <1>2, <1>3, <1>6, <1>8, <1>9 DEF ChunkInv, ChunkIndependent

\* The arrived bytes grow by a chunk.
LEMMA ArrivedGrows ==
  ASSUME NEW s \in Bytes, NEW m \in 0 .. Len(s), NEW n \in m + 1 .. Len(s)
  PROVE  /\ SubSeq(s, m + 1, n) \in Bytes
         /\ SubSeq(s, 1, n) = Cat(SubSeq(s, 1, m), SubSeq(s, m + 1, n))
  BY DEF Bytes, Cat

\* Every step keeps it.
LEMMA ChunkStep == StreamInv /\ ChunkInv /\ [Next]_vars => ChunkInv'
<1> SUFFICES ASSUME StreamInv, ChunkInv, [Next]_vars PROVE ChunkInv'
  OBVIOUS
<1>0. /\ Arrived \in Bytes /\ buf \in Bytes /\ stream \in Bytes /\ out \in Seq(Result)
      /\ Len(stream) \in Nat /\ Len(buf) \in Nat /\ sent \in Nat /\ sent <= Len(stream)
      /\ side \in {"router", "shard"}
  BY ArrivedType, LenType DEF StreamInv, ChunkInv
<1>1. CASE Chunk
  <2>1. PICK n \in sent + 1 .. Len(stream) :
          buf' = Cat(buf, SubSeq(stream, sent + 1, n)) /\ sent' = n
    BY <1>1 DEF Chunk, Cat
  <2>2. side' = side /\ stream' = stream /\ out' = out /\ st = "read" /\ st' = "drain"
    BY <1>1 DEF Chunk
  <2> DEFINE x == SubSeq(stream, sent + 1, n)
  <2>3. x \in Bytes /\ Arrived' = Cat(Arrived, x)
    <3>1. sent \in 0 .. Len(stream)
      BY <1>0
    <3> QED
      BY <1>0, <2>1, <2>2, <3>1, ArrivedGrows DEF Arrived
  <2>4. Reading(side, Arrived, buf, out)
    BY <2>2 DEF ChunkInv
  <2> HIDE DEF x
  <2>5. Reading(side, Cat(Arrived, x), Cat(buf, x), out)
    BY <1>0, <2>3, <2>4, ReadingMore
  <2>6. buf' = Cat(buf, x) /\ sent' <= Len(stream')
    BY <1>0, <2>1, <2>2 DEF x
  <2> QED
    BY <2>2, <2>3, <2>5, <2>6 DEF ChunkInv, ChunkIndependent
<1>2. CASE Eof
  BY <1>2 DEF Eof, ChunkInv, ChunkIndependent, Arrived
<1>3. CASE NeedMore
  <2>1. Reading(side, Arrived, buf, out) /\ DecodeAs(side, buf).kind = "need"
    BY <1>3 DEF NeedMore, ChunkInv, Decoded
  <2>2. out = FramesOf(side, Arrived)
    BY <1>0, <2>1, ReadingDone
  <2> QED
    BY <1>3, <2>2 DEF NeedMore, ChunkInv, ChunkIndependent, Arrived
<1>4. CASE TakeFrame
  <2> DEFINE d == DecodeAs(side, buf)
  <2>1. Reading(side, Arrived, buf, out) /\ d.kind = "frame"
    BY <1>4 DEF TakeFrame, ChunkInv, Decoded
  <2>2. side = "shard" => ~ShouldClose(d)
    BY <1>0, <2>1, NoResponseCloses DEF DecodeAs
  <2>3. st' = "drain" /\ side' = side /\ stream' = stream /\ sent' = sent
    BY <1>4, <2>2 DEF TakeFrame, Decoded
  <2>4. buf' = Suffix(buf, d.len + 1)
    BY <1>4, Zenon DEF TakeFrame, Decoded, After, Suffix
  <2>5. out' = Cat(out, <<d>>)
    <3>1. out' = Append(out, d)
      BY <1>4, Zenon DEF TakeFrame, Decoded
    <3> HIDE DEF d
    <3>2. d \in Result
      BY <1>0 DEF d, DecodeAs, Result
    <3> QED
      BY <1>0, <3>1, <3>2 DEF Cat
  <2>6. Reading(side, Arrived, Suffix(buf, d.len + 1), Cat(out, <<d>>))
    BY <1>0, <2>1, ReadingFrame
  <2>7. Arrived' = Arrived
    BY <2>3 DEF Arrived
  <2> HIDE DEF d
  <2> QED
    BY <1>0, <2>3, <2>4, <2>5, <2>6, <2>7 DEF ChunkInv, ChunkIndependent
<1>5. CASE Resync
  <2>1. /\ Reading("router", Arrived, buf, out) /\ DecodeAs("router", buf).kind = "bad"
        /\ side = "router" /\ UNCHANGED <<side, stream, sent, out>>
    BY <1>5 DEF Resync, ChunkInv, Decoded
  <2>2. Arrived' = Arrived
    BY <2>1 DEF Arrived
  <2>3. CASE NextMagics # {}
    <3>1. PICK i \in NextMagics :
            (\A j \in NextMagics : i <= j) /\ buf' = After(i - 1) /\ st' = st
      BY <1>5, <2>3 DEF Resync
    <3> DEFINE n == i - 1
    <3>2. n \in 1 .. Len(buf) /\ \A j \in 2 .. n : buf[j] # RouterMagic
      BY <1>0, <3>1 DEF NextMagics
    <3>3. buf' = Suffix(buf, n + 1)
      BY <3>1 DEF After, Suffix
    <3> HIDE DEF n
    <3>4. Reading("router", Arrived, buf', out)
      BY <1>0, <2>1, <3>2, <3>3, ReadingSkip
    <3>5. st' = "drain"
      BY <1>5, <3>1 DEF Resync
    <3> QED
      BY <1>0, <2>1, <2>2, <3>4, <3>5 DEF ChunkInv, ChunkIndependent
  <2>4. CASE NextMagics = {}
    <3>1. buf' = Suffix(buf, Cut + 1)
      BY <1>5, <2>4 DEF Resync, After, Suffix
    <3>2. \A j \in 2 .. Len(buf) : buf[j] # RouterMagic
      BY <2>4 DEF NextMagics
    <3>3. Len(buf) >= 1
      BY <1>0, <2>1, KindsDiffer DEF DecodeAs, RouterDecode
    <3>4. Cut \in 1 .. Len(buf)
      BY <1>0, <3>3, ResyncAssumption DEF Cut
    <3>5. \A j \in 2 .. Cut : buf[j] # RouterMagic
      BY <1>0, <3>2, <3>4
    <3>6. Reading("router", Arrived, buf', out)
      BY <1>0, <2>1, <3>1, <3>4, <3>5, ReadingSkip
    <3>7. out = FramesOf("router", Arrived)
      BY <1>0, <2>1, <3>2, ReadingDone
    <3> QED
      BY <1>0, <2>1, <2>2, <3>6, <3>7 DEF ChunkInv, ChunkIndependent
  <2> QED
    BY <2>3, <2>4
<1>6. CASE EndRead
  <2>1. /\ Reading(side, Arrived, buf, out) /\ DecodeAs(side, buf).kind = "bad" /\ side # "router"
    BY <1>6 DEF EndRead, ChunkInv, Decoded
  <2>2. out = FramesOf(side, Arrived)
    BY <1>0, <2>1, ReadingDone
  <2> QED
    BY <1>6, <2>1, <2>2 DEF EndRead, ChunkInv, ChunkIndependent, Arrived
<1>7. CASE UNCHANGED vars
  BY <1>7 DEF vars, ChunkInv, ChunkIndependent, Arrived
<1> QED
  BY <1>1, <1>2, <1>3, <1>4, <1>5, <1>6, <1>7 DEF Next

\* The frames taken are those of the bytes that arrived, for every stream, every
\* way of cutting it into chunks and all resync limits: neither the resync
\* after a parse error nor the cut of garbage depends on what happened to be in
\* the buffer.
THEOREM ChunkingIsInvisible == Spec => []ChunkIndependent
<1>1. ChunkInv => ChunkIndependent
  BY DEF ChunkInv
<1> QED
  BY <1>1, StreamInit, StreamStep, ChunkInit, ChunkStep, PTL DEF Spec

\* A step of the drain loop that does not leave it makes the buffer shorter.
DrainStepShrinks ==
  st = "drain" /\ st' = "drain" => Len(buf') < Len(buf)

\* The length of the buffer bounds the drain loop, on both sides and for all
\* bytes: what makes DrainEnds true.
THEOREM DrainShrinks == Spec => [][DrainStepShrinks]_vars
<1>1. StreamInv /\ [Next]_vars => [DrainStepShrinks]_vars
  <2> SUFFICES ASSUME StreamInv, Next, st = "drain", st' = "drain" PROVE Len(buf') < Len(buf)
    BY DEF DrainStepShrinks
  <2>1. buf \in Bytes /\ Len(buf) \in Nat
    BY LenType DEF StreamInv
  <2>2. CASE TakeFrame
    <3>1. Decoded.len \in 1 .. Len(buf)
      BY <2>1, <2>2, DecodeFits DEF TakeFrame, Decoded
    <3>2. buf' = After(Decoded.len)
      BY <2>2 DEF TakeFrame
    <3> DEFINE l == Decoded.len
    <3> HIDE DEF l
    <3>3. Len(After(l)) = Len(buf) - l
      BY <2>1, <3>1, AfterType DEF l
    <3> QED
      BY <2>1, <3>1, <3>2, <3>3 DEF l
  <2>3. CASE Resync
    <3>1. PICK i \in NextMagics : buf' = After(i - 1)
      BY <2>3 DEF Resync
    <3>2. i - 1 \in Nat /\ i - 1 >= 1 /\ i - 1 <= Len(buf)
      BY <2>1 DEF NextMagics
    <3> QED
      BY <2>1, <3>1, <3>2, AfterType
  <2> QED
    BY <2>2, <2>3 DEF Next, Chunk, Eof, NeedMore, EndRead
<1> QED
  BY <1>1, StreamInit, StreamStep, PTL DEF Spec

-----------------------------------------------------------------------------
(* Frames and garbage one after another                                    *)

\* What is behind a prefix.
LEMMA SuffixBehind ==
  ASSUME NEW x \in Bytes, NEW y \in Bytes, NEW i \in 1 .. Len(y) + 1
  PROVE  Suffix(Cat(x, y), Len(x) + i) = Suffix(y, i)
<1> DEFINE c == Cat(x, y)
           k == Len(x) + i
           u == Suffix(c, k)
           v == Suffix(y, i)
<1>0. Len(x) \in Nat /\ Len(y) \in Nat
  BY LenType
<1>1. /\ c \in Bytes /\ Len(c) = Len(x) + Len(y)
      /\ \A j \in 1 .. Len(y) : c[Len(x) + j] = y[j]
  BY Concat, Zenon
<1> HIDE DEF c
<1>2. k \in 1 .. Len(c) + 1
  BY <1>0, <1>1
<1>3. /\ u \in Bytes /\ Len(u) = Len(c) - k + 1
      /\ \A j \in 1 .. Len(c) - k + 1 : u[j] = c[k + j - 1]
  BY <1>1, <1>2, SuffixType
<1>4. /\ v \in Bytes /\ Len(v) = Len(y) - i + 1
      /\ \A j \in 1 .. Len(y) - i + 1 : v[j] = y[i + j - 1]
  BY SuffixType
<1> HIDE DEF u, v
<1>5. Len(u) = Len(v)
  BY <1>0, <1>1, <1>3, <1>4
<1>6. ASSUME NEW j \in 1 .. Len(u) PROVE u[j] = v[j]
  <2> DEFINE m == i + j - 1
  <2>1. m \in 1 .. Len(y) /\ k + j - 1 = Len(x) + m /\ j \in 1 .. Len(c) - k + 1 /\ j \in 1 .. Len(y) - i + 1
    BY <1>0, <1>1, <1>3
  <2>2. u[j] = c[k + j - 1] /\ v[j] = y[m]
    BY <1>3, <1>4, <2>1
  <2> HIDE DEF m, k
  <2>3. c[Len(x) + m] = y[m]
    BY <1>1, <2>1
  <2> QED
    BY <2>1, <2>2, <2>3
<1>7. u = v
  BY <1>3, <1>4, <1>5, <1>6, SameBytes
<1> QED
  BY <1>7 DEF u, v, c

\* The magic bytes behind a prefix.
LEMMA MagicsBehind ==
  ASSUME NEW x \in Bytes, NEW y \in Bytes, NEW i \in 1 .. Len(y) + 1
  PROVE  /\ Magics(Cat(x, y), Len(x) + i) = {} <=> Magics(y, i) = {}
         /\ Magics(y, i) # {} =>
              /\ First(Magics(y, i)) \in i + 1 .. Len(y)
              /\ First(Magics(Cat(x, y), Len(x) + i)) = Len(x) + First(Magics(y, i))
<1> DEFINE c == Cat(x, y)
           k == Len(x) + i
           M == Magics(y, i)
           N == Magics(c, k)
<1>0. Len(x) \in Nat /\ Len(y) \in Nat
  BY LenType
<1>1. /\ c \in Bytes /\ Len(c) = Len(x) + Len(y)
      /\ \A j \in 1 .. Len(y) : c[Len(x) + j] = y[j]
  BY Concat, Zenon
<1> HIDE DEF c
<1>2. k \in 1 .. Len(c) + 1
  BY <1>0, <1>1
<1>3. ASSUME NEW j \in M PROVE Len(x) + j \in N /\ j \in i + 1 .. Len(y)
  <2>1. j \in i + 1 .. Len(y) /\ y[j] = RouterMagic
    BY DEF Magics
  <2>2. c[Len(x) + j] = RouterMagic
    BY <1>0, <1>1, <2>1
  <2> QED
    BY <1>0, <1>1, <2>1, <2>2 DEF Magics
<1>4. ASSUME NEW m \in N PROVE m - Len(x) \in M /\ m \in Nat
  <2> DEFINE j == m - Len(x)
  <2>1. m \in k + 1 .. Len(c) /\ c[m] = RouterMagic
    BY DEF Magics
  <2>2. j \in i + 1 .. Len(y) /\ Len(x) + j = m /\ m \in Nat
    BY <1>0, <1>1, <2>1
  <2> HIDE DEF j
  <2>3. j \in 1 .. Len(y)
    BY <1>0, <2>2
  <2>4. y[j] = RouterMagic
    BY <1>1, <2>1, <2>2, <2>3
  <2>5. j \in M
    BY <2>2, <2>4 DEF Magics
  <2> QED
    BY <2>2, <2>5 DEF j
<1>5. M # {} => First(M) \in M /\ \A j \in M : First(M) <= j
  BY FirstMagic
<1>6. N # {} => First(N) \in N /\ \A j \in N : First(N) <= j
  BY <1>1, <1>2, FirstMagic
<1> HIDE DEF M, N, k
<1>7. N = {} <=> M = {}
  BY <1>3, <1>4
<1>8. ASSUME M # {} PROVE First(M) \in i + 1 .. Len(y) /\ First(N) = Len(x) + First(M)
  <2>1. First(M) \in M /\ First(N) \in N
    BY <1>5, <1>6, <1>7, <1>8
  <2>2. First(M) \in i + 1 .. Len(y) /\ First(N) <= Len(x) + First(M)
    BY <1>3, <1>6, <2>1
  <2>3. First(M) <= First(N) - Len(x) /\ First(N) \in Nat
    BY <1>4, <1>5, <2>1
  <2> QED
    BY <1>0, <2>2, <2>3
<1> QED
  BY <1>7, <1>8 DEF M, N, k, c

\* The frames behind a prefix are the frames of what is behind it.
LEMMA FramesBehind ==
  ASSUME NEW sd, NEW x \in Bytes, NEW y \in Bytes, NEW h \in 1 .. Len(y) + 1
  PROVE  FramesFrom(sd, Cat(x, y))[Len(x) + h] = FramesFrom(sd, y)[h]
<1> DEFINE c == Cat(x, y)
           F == FramesFrom(sd, c)
           G == FramesFrom(sd, y)
           n == Len(y) + 1
           T == {i \in 0 .. n : i # 0 /\ F[Len(x) + i] # G[i]}
<1> SUFFICES ASSUME F[Len(x) + h] # G[h] PROVE FALSE
  OBVIOUS
<1>0. Len(x) \in Nat /\ Len(y) \in Nat /\ n \in Nat
  BY LenType
<1>1. c \in Bytes /\ Len(c) = Len(x) + Len(y)
  BY Concat, Zenon
<1>2. T \in SUBSET (0 .. n) /\ h \in T
  BY <1>0
<1>3. PICK i \in T : \A m \in T : m <= i
  <2> HIDE DEF T
  <2> QED
    BY <1>0, <1>2, Highest
<1>4. \A m \in 1 .. n : m > i => F[Len(x) + m] = G[m]
  BY <1>0, <1>3
<1>5. i \in 1 .. n /\ F[Len(x) + i] # G[i]
  BY <1>0
<1> DEFINE k == Len(x) + i
           d == At(sd, y, i)
<1>6. k \in 1 .. Len(c) + 1
  BY <1>0, <1>1, <1>5
<1>7. At(sd, c, k) = d
  BY <1>5, SuffixBehind DEF At
<1>8. d.kind = "need" \/ d.kind = "bad" \/ (d.kind = "frame" /\ d.len \in 1 .. Len(y) - i + 1)
  BY <1>5, AtFits
<1>9. /\ Magics(c, k) = {} <=> Magics(y, i) = {}
      /\ Magics(y, i) # {} => /\ First(Magics(y, i)) \in i + 1 .. Len(y)
                              /\ First(Magics(c, k)) = Len(x) + First(Magics(y, i))
  BY <1>5, MagicsBehind
<1>10. CASE d.kind = "frame"
  <2>1. F[k] = Cat(<<d>>, F[k + d.len])
    BY <1>1, <1>6, <1>7, <1>10, FromFrame
  <2>2. G[i] = Cat(<<d>>, G[i + d.len])
    BY <1>5, <1>10, FromFrame
  <2> HIDE DEF d, F, G
  <2>3. k + d.len = Len(x) + (i + d.len) /\ i + d.len \in 1 .. n /\ i + d.len > i
    BY <1>0, <1>5, <1>8, <1>10
  <2>4. F[k + d.len] = G[i + d.len]
    BY <1>4, <2>3
  <2> QED
    BY <1>5, <2>1, <2>2, <2>4
<1>11. CASE d.kind = "bad" /\ sd = "router" /\ Magics(y, i) # {}
  <2> DEFINE f == First(Magics(y, i))
  <2>1. F[k] = F[First(Magics(c, k))]
    BY <1>1, <1>6, <1>7, <1>9, <1>11, FromFirst
  <2>2. G[i] = G[f]
    BY <1>5, <1>11, FromFirst
  <2>3. First(Magics(c, k)) = Len(x) + f /\ f \in i + 1 .. Len(y)
    BY <1>9, <1>11
  <2> HIDE DEF f, F, G
  <2>4. f \in 1 .. n /\ f > i
    BY <1>0, <1>5, <2>3
  <2>5. F[Len(x) + f] = G[f]
    BY <1>4, <2>4
  <2> QED
    BY <1>5, <2>1, <2>2, <2>3, <2>5
<1>12. CASE d.kind = "need" \/ (d.kind = "bad" /\ (sd # "router" \/ Magics(y, i) = {}))
  <2>1. G[i] = <<>>
    BY <1>5, <1>12, FromEnd
  <2>2. F[k] = <<>>
    BY <1>1, <1>6, <1>7, <1>9, <1>12, FromEnd
  <2> QED
    BY <1>5, <2>1, <2>2
<1> HIDE DEF d
<1> QED
  BY <1>8, <1>10, <1>11, <1>12

\* A whole frame in front is taken whole, and what follows is read as if it had
\* come alone: frames that arrive back to back are read one by one, by
\* handle_connection and by the read task of a connection.
THEOREM FrameInFront ==
  ASSUME NEW sd, NEW x \in Bytes, NEW y \in Bytes,
         DecodeAs(sd, x).kind = "frame", DecodeAs(sd, x).len = Len(x)
  PROVE  FramesOf(sd, Cat(x, y)) = Cat(<<DecodeAs(sd, x)>>, FramesOf(sd, y))
<1> DEFINE c == Cat(x, y)
           F == FramesFrom(sd, c)
           d == DecodeAs(sd, x)
<1>0. Len(x) \in Nat /\ Len(y) \in Nat
  BY LenType
<1>1. c \in Bytes /\ Len(c) = Len(x) + Len(y)
  BY Concat, Zenon
<1>2. d.kind = "frame" /\ d.len = Len(x)
  OBVIOUS
<1>3. Suffix(c, 1) = c
  BY <1>1 DEF Suffix, Bytes
<1>5. DecodeAs(sd, c) = d
  BY <1>2, DecodeStable
<1>6. At(sd, c, 1) = d
  BY <1>3, <1>5 DEF At
<1>7. 1 \in 1 .. Len(c) + 1 /\ 1 \in 1 .. Len(y) + 1 /\ 1 + d.len = Len(x) + 1
  BY <1>0, <1>1, <1>2
<1>8. F[1] = Cat(<<d>>, F[1 + d.len])
  BY <1>1, <1>2, <1>6, <1>7, FromFrame
<1>9. F[Len(x) + 1] = FramesFrom(sd, y)[1]
  BY <1>7, FramesBehind
<1> QED
  BY <1>7, <1>8, <1>9 DEF FramesOf

\* Garbage without a magic byte in front is skipped, whatever follows it.
THEOREM NoiseInFront ==
  ASSUME NEW x \in Bytes, NEW y \in Bytes, IsNoise(x)
  PROVE  FramesOf("router", Cat(x, y)) = FramesOf("router", y)
<1> DEFINE c == Cat(x, y)
           F == FramesFrom("router", c)
           G == FramesFrom("router", y)
<1>0. Len(x) \in Nat /\ Len(y) \in Nat
  BY LenType
<1>1. c \in Bytes /\ Len(c) = Len(x) + Len(y) /\ \A i \in 1 .. Len(x) : c[i] = x[i]
  BY Concat, Zenon
<1>2. 1 \in 1 .. Len(c) + 1 /\ 1 \in 1 .. Len(y) + 1
  BY <1>0, <1>1
<1>3. F[Len(x) + 1] = G[1]
  BY <1>2, FramesBehind
<1> HIDE DEF c
<1>4. \A i \in 1 .. Len(x) : c[i] # RouterMagic
  BY <1>1 DEF IsNoise
<1>5. CASE Len(x) = 0
  BY <1>3, <1>5 DEF FramesOf, c
<1>6. CASE Len(x) > 0 /\ Len(c) < 5
  <2>1. F[1] = <<>>
    BY <1>0, <1>1, <1>2, <1>6, RouterAt, FromEnd
  <2>2. G[1] = <<>>
    BY <1>0, <1>1, <1>2, <1>6, RouterAt, FromEnd
  <2> QED
    BY <2>1, <2>2 DEF FramesOf, c
<1>7. CASE Len(x) > 0 /\ Len(c) >= 5
  <2>1. c[1] # RouterMagic
    BY <1>0, <1>4, <1>7
  <2>2. At("router", c, 1).kind = "bad"
    BY <1>0, <1>1, <1>2, <1>7, <2>1, RouterAt
  <2>3. Len(x) + 1 \in 1 + 1 .. Len(c) + 1 /\ \A j \in 1 + 1 .. (Len(x) + 1) - 1 : c[j] # RouterMagic
    BY <1>0, <1>1, <1>4, <1>7
  <2>4. F[1] = F[Len(x) + 1]
    BY <1>1, <1>2, <2>2, <2>3, SkipNoMagic
  <2> QED
    BY <1>3, <2>4 DEF FramesOf, c
<1> QED
  BY <1>0, <1>1, <1>5, <1>6, <1>7

\* The frame that each piece is, if it is one.
Marks(ps) ==
  [k \in 1 .. Len(ps) |-> IF IsFrame(ps[k]) THEN <<RouterDecode(ps[k])>> ELSE <<>>]

\* Pieces one after another are a chain.
LEMMA SuccessorChain ==
  ASSUME NEW S, NEW n \in Nat, NEW f \in [1 .. n -> S], \A x, y \in S : Cat(x, y) \in S
  PROVE  /\ Chain(S, n, f, Successor(n))
         /\ \A k \in 1 .. n : Successor(n)[k] = IF k = n THEN 0 ELSE k + 1
  BY DEF Chain, Successor

\* The frames of pieces that are joined are the frames among the pieces.
LEMMA FramesOfJoined ==
  ASSUME NEW ps \in Pieces
  PROVE  FramesOf("router", Joined(ps)) = FramesAmong(ps)
<1> DEFINE n == Len(ps)
           marks == Marks(ps)
           next == Successor(n)
           J == Collect(ps, next)
           K == Collect(marks, next)
           S == Seq(Result)
<1>1. ps \in Seq(Bytes) /\ ps # <<>> /\ \A k \in 1 .. n : IsFrame(ps[k]) \/ IsNoise(ps[k])
  BY PiecesAssumption, Zenon DEF Bytes
<1>2. n \in Nat /\ n >= 1 /\ ps \in [1 .. n -> Bytes]
  BY <1>1
<1>3. \A x, y \in Bytes : Cat(x, y) \in Bytes
  BY Concat
<1>4. \A x, y \in S : Cat(x, y) \in S
  BY DEF Cat
<1>5. ASSUME NEW k \in 1 .. n
      PROVE  marks[k] = (IF IsFrame(ps[k]) THEN <<RouterDecode(ps[k])>> ELSE <<>>) /\ marks[k] \in S
  <2>1. ps[k] \in Bytes
    BY <1>2
  <2> DEFINE d == RouterDecode(ps[k])
  <2>2. d \in Result
    BY <2>1 DEF Result
  <2>3. marks[k] = IF IsFrame(ps[k]) THEN <<d>> ELSE <<>>
    BY DEF Marks
  <2> HIDE DEF d
  <2>4. marks[k] \in S
    BY <2>2, <2>3
  <2> QED
    BY <2>3, <2>4 DEF d
<1>6. marks = [k \in 1 .. n |-> marks[k]]
  BY DEF Marks
<1> HIDE DEF S, marks, n
<1>7. marks \in [1 .. n -> S]
  BY <1>5, <1>6
<1>8. /\ Chain(Bytes, n, ps, next) /\ Chain(S, n, marks, next)
      /\ \A k \in 1 .. n : next[k] = IF k = n THEN 0 ELSE k + 1
  BY <1>2, <1>3, <1>4, <1>7, SuccessorChain
<1> HIDE DEF next
<1>9. Collected(Bytes, n, ps, next) /\ Collected(S, n, marks, next)
  BY <1>8, CollectDef
<1>10. /\ J \in [1 .. n -> Bytes]
       /\ \A k \in 1 .. n : J[k] = IF k = n THEN ps[k] ELSE Cat(ps[k], J[k + 1])
  <2>1. /\ J \in [1 .. n -> Bytes]
        /\ \A k \in 1 .. n : J[k] = IF next[k] = 0 THEN ps[k] ELSE Cat(ps[k], J[next[k]])
    BY <1>9, Zenon DEF Collected
  <2> HIDE DEF J
  <2>2. ASSUME NEW k \in 1 .. n PROVE J[k] = IF k = n THEN ps[k] ELSE Cat(ps[k], J[k + 1])
    <3>1. next[k] = IF k = n THEN 0 ELSE k + 1
      BY <1>8
    <3>2. k + 1 # 0
      BY <1>2
    <3> QED
      BY <2>1, <3>1, <3>2, Zenon
  <2> QED
    BY <2>1, <2>2
<1>11. /\ K \in [1 .. n -> S]
       /\ \A k \in 1 .. n : K[k] = IF k = n THEN marks[k] ELSE Cat(marks[k], K[k + 1])
  BY <1>2, <1>8, <1>9 DEF Collected
<1> HIDE DEF J, K
<1>12. ASSUME NEW k \in 1 .. n, NEW y \in Bytes
       PROVE  FramesOf("router", Cat(ps[k], y)) = Cat(marks[k], FramesOf("router", y))
  <2>1. ps[k] \in Bytes
    BY <1>2
  <2>2. CASE IsFrame(ps[k])
    <3>1. DecodeAs("router", ps[k]) = RouterDecode(ps[k])
      BY DEF DecodeAs
    <3>2. FramesOf("router", Cat(ps[k], y)) = Cat(<<DecodeAs("router", ps[k])>>, FramesOf("router", y))
      BY <2>1, <2>2, <3>1, FrameInFront DEF IsFrame
    <3> QED
      BY <1>5, <2>2, <3>1, <3>2
  <2>3. CASE ~IsFrame(ps[k])
    <3>1. FramesOf("router", Cat(ps[k], y)) = FramesOf("router", y)
      BY <1>1, <2>1, <2>3, NoiseInFront
    <3>2. FramesOf("router", y) \in Seq(Result)
      <4>1. 1 \in 1 .. Len(y) + 1
        BY LenType
      <4> QED
        BY <4>1, FromDef DEF FramesOf
    <3>3. marks[k] = <<>>
      BY <1>5, <2>3
    <3> QED
      BY <3>1, <3>2, <3>3, CatEmpty
  <2> QED
    BY <2>2, <2>3
<1>13. FramesOf("router", <<>>) = <<>>
  <2>1. <<>> \in Bytes /\ Len(<<>>) = 0 /\ 1 \in 1 .. 0 + 1
    BY DEF Bytes
  <2> QED
    BY <2>1, RouterAt, FromEnd DEF FramesOf
<1>14. \A k \in 1 .. n : FramesOf("router", J[k]) = K[k]
  <2> SUFFICES ASSUME NEW h \in 1 .. n, FramesOf("router", J[h]) # K[h] PROVE FALSE
    OBVIOUS
  <2> DEFINE T == {i \in 0 .. n : i # 0 /\ FramesOf("router", J[i]) # K[i]}
  <2>1. T \in SUBSET (0 .. n) /\ h \in T
    BY <1>2
  <2>2. PICK k \in T : \A m \in T : m <= k
    <3> HIDE DEF T
    <3> QED
      BY <1>2, <2>1, Highest
  <2>3. k \in 1 .. n /\ FramesOf("router", J[k]) # K[k]
    BY <1>2
  <2>4. CASE k = n
    <3>1. <<>> \in Bytes /\ ps[k] \in Bytes /\ marks[k] \in S
      <4>1. <<>> \in Bytes
        BY DEF Bytes
      <4> QED
        BY <1>2, <1>5, <2>3, <4>1
    <3>2. Cat(ps[k], <<>>) = ps[k] /\ Cat(marks[k], <<>>) = marks[k]
      BY <3>1, CatEmpty DEF Bytes, S
    <3>3. FramesOf("router", Cat(ps[k], <<>>)) = Cat(marks[k], <<>>)
      BY <1>12, <1>13, <2>3, <3>1
    <3> QED
      BY <1>10, <1>11, <2>3, <2>4, <3>2, <3>3
  <2>5. CASE k # n
    <3>1. k + 1 \in 1 .. n
      BY <1>2, <2>3, <2>5
    <3>2. k + 1 \notin T
      BY <1>2, <2>2, <2>3
    <3>3. FramesOf("router", J[k + 1]) = K[k + 1]
      BY <1>2, <3>1, <3>2
    <3>4. J[k + 1] \in Bytes
      BY <1>10, <3>1
    <3>5. FramesOf("router", Cat(ps[k], J[k + 1])) = Cat(marks[k], K[k + 1])
      BY <1>12, <2>3, <3>3, <3>4
    <3> QED
      BY <1>10, <1>11, <2>3, <2>5, <3>5
  <2> QED
    BY <2>4, <2>5
<1>15. 1 \in 1 .. n
  BY <1>2
<1>16. Joined(ps) = J[1] /\ FramesAmong(ps) = K[1]
  BY DEF Joined, FramesAmong, J, K, next, n, marks, Marks
<1> QED
  BY <1>14, <1>15, <1>16

\* Frames and garbage without a magic byte, in any order and number and cut
\* into chunks in any way: every frame is taken, in order, and nothing else.
THEOREM GarbageNeverSwallowsFrames == Spec => []GarbageSkipped
<1>1. StreamInv /\ ChunkInv => GarbageSkipped
  <2> SUFFICES ASSUME StreamInv, ChunkInv, st = "read", side = "router", sent = Len(stream),
                      NEW ps \in Pieces, Joined(ps) = stream
               PROVE  out = FramesAmong(ps)
    BY DEF GarbageSkipped
  <2>1. Arrived = stream
    BY DEF StreamInv, Arrived, Bytes
  <2>2. out = FramesOf("router", stream)
    BY <2>1 DEF ChunkInv, ChunkIndependent
  <2> QED
    BY <2>2, FramesOfJoined
<1> QED
  BY <1>1, StreamInit, StreamStep, ChunkInit, ChunkStep, PTL DEF Spec


=============================================================================
