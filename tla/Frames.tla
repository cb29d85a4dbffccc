------------------------------- MODULE Frames -------------------------------
(***************************************************************************)
(* The byte formats of src/src/protocol.rs: router frames, which the        *)
(* bridge receives from routers, and shard frames, which it exchanges with *)
(* the nodes.  A byte sequence is a sequence of 0 .. 255, indexed from 1;  *)
(* a correlation id is kept as its four bytes, low byte first.             *)
(***************************************************************************)
EXTENDS Integers, Sequences

CONSTANT Utf8(_)   \* str::from_utf8 accepts these bytes

Byte == 0 .. 255
RouterMagic == 254
ShardMagic == 255

\* u32::from_le_bytes of the four bytes at i.
Le32(b, i) == b[i] + 256 * (b[i + 1] + 256 * (b[i + 2] + 256 * b[i + 3]))

Need == [kind |-> "need"]
Bad == [kind |-> "bad"]

\* The length at i is above 16 * 1024 * 1024.
TooLarge(b, i) ==
  \/ b[i + 3] > 1
  \/ b[i + 3] = 1 /\ (b[i] > 0 \/ b[i + 1] > 0 \/ b[i + 2] > 0)

MutantRouterBody(b, end) ==
  LET w == 7 + b[6]
  IN  IF w > end \/ ~Utf8(SubSeq(b, 7, w - 1)) \/ w + 5 > end \/ b[w + 1] # ShardMagic
      THEN Bad
      ELSE [kind |-> "frame", len |-> end, segment |-> SubSeq(b, 7, w - 1),
            isWrite |-> b[w] = 1, clrId |-> SubSeq(b, w + 2, w + 5),
            shard |-> SubSeq(b, w + 1, Len(b))]

\* The body of a router frame whose bytes end at `end`: the segment, at w the
\* write flag, and the shard frame.
RouterBody(b, end) ==
  LET w == 7 + b[6]
  IN  IF w > end \/ ~Utf8(SubSeq(b, 7, w - 1)) \/ w + 5 > end \/ b[w + 1] # ShardMagic
      THEN Bad
      ELSE [kind |-> "frame", len |-> end, segment |-> SubSeq(b, 7, w - 1),
            isWrite |-> b[w] = 1, clrId |-> SubSeq(b, w + 2, w + 5),
            shard |-> SubSeq(b, w + 1, end)]

\* try_decode_router
RouterDecode(b) ==
  IF Len(b) < 5 THEN Need
  ELSE IF b[1] # RouterMagic \/ TooLarge(b, 2) THEN Bad
  ELSE IF Len(b) < 5 + Le32(b, 2) THEN Need
  ELSE IF Le32(b, 2) < 2 THEN Bad
  ELSE RouterBody(b, 5 + Le32(b, 2))

MutantPayloadOnly(b, end) ==
  IF end < 10 \/ end < 12 + b[10] THEN Bad
  ELSE [kind |-> "frame", len |-> end, clrId |-> SubSeq(b, 2, 5),
        statusLen |-> b[10], fieldCnt |-> b[11 + b[10]] + 256 * b[12 + b[10]],
        shard |-> SubSeq(b, 10, end)]

\* The payload of a shard frame whose bytes end at `end`.
ShardBody(b, end) ==
  IF end < 10 \/ end < 12 + b[10] THEN Bad
  ELSE [kind |-> "frame", len |-> end, clrId |-> SubSeq(b, 2, 5),
        statusLen |-> b[10], fieldCnt |-> b[11 + b[10]] + 256 * b[12 + b[10]],
        shard |-> SubSeq(b, 1, end)]

\* drain_frame_async, tried on the bytes received so far: "need" is where it
\* reads more.
ShardDecode(b) ==
  IF Len(b) < 9 THEN Need
  ELSE IF b[1] # ShardMagic THEN Bad
  ELSE IF Len(b) < 9 + Le32(b, 6) THEN Need
  ELSE ShardBody(b, 9 + Le32(b, 6))

Text(s) == CASE s = "ERROR" -> <<69, 82, 82, 79, 82>>
             [] s = "308" -> <<51, 48, 56>> [] s = "404" -> <<52, 48, 52>>
             [] s = "405" -> <<52, 48, 53>> [] s = "408" -> <<52, 48, 56>>
             [] s = "500" -> <<53, 48, 48>> [] s = "503" -> <<53, 48, 51>>

\* n.to_le_bytes() for the lengths that occur.
LeBytes(n) == <<n % 256, (n \div 256) % 256, (n \div 65536) % 256, n \div 16777216>>

\* prepend_header
PrependHeader(clrId, payload) ==
  <<ShardMagic>> \o clrId \o LeBytes(Len(payload)) \o payload

ErrorMsg(code) ==
  CASE code = 1 -> Text("404") [] code = 2 -> Text("503")
    [] code = 3 -> Text("408") [] OTHER -> Text("500")

\* Status length and status, one field: its id, type and length, and the
\* length of the message.
ErrorHead == <<5, 69, 82, 82, 79, 82, 1, 0, 1, 0, 1, 4, 0, 0, 0, 3, 0, 0, 0>>

ErrorPayload(msg) == ErrorHead \o msg

\* build_error_response
ErrorResponse(clrId, code) == PrependHeader(clrId, ErrorPayload(ErrorMsg(code)))

-----------------------------------------------------------------------------
(* Connection::connect, read loop: what is looked for in the bytes `f` of a *)
(* response, header included, at offsets counted from the payload          *)

FieldDataStart(d) == 1 + d.statusLen + 2

SaysError(d) ==
  /\ Len(d.shard) >= FieldDataStart(d)
  /\ SubSeq(d.shard, 2, 1 + d.statusLen) = Text("ERROR")

\* The slice of the code would panic past the end of the frame.
CodeInRange(d) == FieldDataStart(d) + 3 <= Len(d.shard)

ShouldClose(d) ==
  /\ SaysError(d) /\ CodeInRange(d)
  /\ SubSeq(d.shard, FieldDataStart(d) + 1, FieldDataStart(d) + 3)
       \in {Text("308"), Text("405"), Text("503")}

=============================================================================
