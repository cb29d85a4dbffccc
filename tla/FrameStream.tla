----------------------------- MODULE FrameStream ----------------------------
(***************************************************************************)
(* Frames out of byte streams that arrive in chunks: a handler's buffer on *)
(* the router side, with the resync after a parse error (tcp_server.rs),   *)
(* and a connection's buffer on the shard side, where an error ends the    *)
(* read loop (connection.rs).                                              *)
(***************************************************************************)
EXTENDS Frames, FiniteSets

CONSTANTS
  Streams,      \* the byte streams a router may send
  Responses,    \* the byte streams a node may send
  Pieces,       \* sequences of router frames and pieces of garbage
  ResyncLimit,  \* 64: a buffer of garbage above it is cut
  ResyncKeep    \* 8: to this length

ASSUME ResyncAssumption ==
  ResyncKeep \in Nat /\ ResyncLimit \in Nat /\ ResyncKeep <= ResyncLimit
ASSUME StreamAssumption == Streams \cup Responses \subseteq Seq(Byte)

\* One whole router frame; garbage that holds no magic byte.
IsFrame(p) == RouterDecode(p).kind = "frame" /\ RouterDecode(p).len = Len(p)
IsNoise(p) == \A i \in 1 .. Len(p) : p[i] # RouterMagic

ASSUME PiecesAssumption ==
  \A ps \in Pieces :
     /\ ps \in Seq(Seq(Byte)) /\ ps # <<>>
     /\ \A k \in 1 .. Len(ps) : IsFrame(ps[k]) \/ IsNoise(ps[k])

VARIABLES
  side,    \* "router" or "shard"
  stream,  \* what the peer sends
  sent,    \* how many bytes of it have arrived
  buf,     \* buf
  out,     \* the frames taken from it
  st       \* "read", "drain" or "ended"

vars == <<side, stream, sent, buf, out, st>>

Init ==
  /\ \/ side = "router" /\ stream \in Streams
     \/ side = "shard" /\ stream \in Responses
  /\ sent = 0 /\ buf = <<>> /\ out = <<>> /\ st = "read"

\* reader.read_buf: some of the bytes.
Chunk ==
  /\ st = "read"
  /\ \E n \in sent + 1 .. Len(stream) :
       /\ buf' = buf \o SubSeq(stream, sent + 1, n)
       /\ sent' = n
  /\ st' = "drain"
  /\ UNCHANGED <<side, stream, out>>

\* The peer closes or the socket fails.
Eof ==
  /\ st = "read" /\ st' = "ended"
  /\ UNCHANGED <<side, stream, sent, buf, out>>

DecodeAs(sd, b) == IF sd = "router" THEN RouterDecode(b) ELSE ShardDecode(b)

Decoded == DecodeAs(side, buf)

NeedMore ==
  /\ st = "drain" /\ Decoded.kind = "need"
  /\ st' = "read"
  /\ UNCHANGED <<side, stream, sent, buf, out>>

After(n) == SubSeq(buf, n + 1, Len(buf))

\* A response may tell the read loop to stop.
TakeFrame ==
  /\ st = "drain" /\ Decoded.kind = "frame"
  /\ out' = Append(out, Decoded)
  /\ buf' = After(Decoded.len)
  /\ st' = IF side = "shard" /\ ShouldClose(Decoded) THEN "ended" ELSE "drain"
  /\ UNCHANGED <<side, stream, sent>>

MutantSkipsTwo == {i \in 3 .. Len(buf) : buf[i] = RouterMagic}

MutantStays == {i \in 1 .. Len(buf) : buf[i] = RouterMagic}

\* The positions of a router magic after the first byte.
NextMagics == {i \in 2 .. Len(buf) : buf[i] = RouterMagic}

MutantCut == 1

\* How many bytes are skipped when there is none.
Cut == IF Len(buf) - 1 > ResyncLimit THEN Len(buf) - ResyncKeep ELSE 1

\* A parse error on the router side: skip to the next magic, or wait for it.
Resync ==
  /\ st = "drain" /\ side = "router" /\ Decoded.kind = "bad"
  /\ \/ \E i \in NextMagics :
          /\ \A j \in NextMagics : i <= j
          /\ buf' = After(i - 1)
          /\ UNCHANGED st
     \/ NextMagics = {} /\ buf' = After(Cut) /\ st' = "read"
  /\ UNCHANGED <<side, stream, sent, out>>

\* On the shard side it ends the read loop; the rejected frame is consumed
\* or not, the buffer is dropped.
EndRead ==
  /\ st = "drain" /\ side = "shard" /\ Decoded.kind = "bad"
  /\ st' = "ended" /\ buf' = <<>>
  /\ UNCHANGED <<side, stream, sent, out>>

Next == Chunk \/ Eof \/ NeedMore \/ TakeFrame \/ Resync \/ EndRead

Spec == Init /\ [][Next]_vars

\* Bytes that are there are worked off without waiting.
FairSpec == Spec /\ WF_vars(NeedMore \/ TakeFrame \/ Resync \/ EndRead)

-----------------------------------------------------------------------------
(* Properties                                                              *)

\* Sequences found at positions and joined along a chain: from each position,
\* what is found there and then from the next position on (0: there is none).
Collect(found, next) ==
  LET from[i \in DOMAIN found] ==
        IF next[i] = 0 THEN found[i] ELSE found[i] \o from[next[i]]
  IN  from

Suffix(b, i) == SubSeq(b, i, Len(b))

Magics(b, i) == {j \in i + 1 .. Len(b) : b[j] = RouterMagic}

\* A stream seen at once: the frame at byte i, if there is one, and where the
\* next one is looked for.
Found(sd, b) ==
  [i \in 1 .. Len(b) + 1 |->
     LET d == DecodeAs(sd, Suffix(b, i))
     IN  IF d.kind = "frame" THEN <<d>> ELSE <<>>]

Follow(sd, b) ==
  [i \in 1 .. Len(b) + 1 |->
     LET d == DecodeAs(sd, Suffix(b, i))
     IN  CASE d.kind = "frame" -> i + d.len
           [] d.kind = "bad" /\ sd = "router" /\ Magics(b, i) # {} ->
                CHOOSE j \in Magics(b, i) : \A k \in Magics(b, i) : j <= k
           [] OTHER -> 0]

\* Its frames from each byte on, and all of them.
FramesFrom(sd, b) == Collect(Found(sd, b), Follow(sd, b))

FramesOf(sd, b) == FramesFrom(sd, b)[1]

Arrived == SubSeq(stream, 1, sent)

\* The frames taken do not depend on how the stream was cut into chunks, on
\* what was in the buffer at a resync or on garbage that was cut: whenever the
\* loop waits for bytes or has ended, they are the frames of all that arrived.
ChunkIndependent == st # "drain" => out = FramesOf(side, Arrived)

\* Pieces one after another, and the frames among them.
Successor(n) == [k \in 1 .. n |-> IF k = n THEN 0 ELSE k + 1]

Joined(ps) == Collect(ps, Successor(Len(ps)))[1]

FramesAmong(ps) ==
  Collect([k \in 1 .. Len(ps) |->
             IF IsFrame(ps[k]) THEN <<RouterDecode(ps[k])>> ELSE <<>>],
          Successor(Len(ps)))[1]

\* A router's frames all get through garbage that holds no magic byte: once
\* the stream has been worked off, they have been taken in order, and nothing
\* else has.
GarbageSkipped ==
  (st = "read" /\ side = "router" /\ sent = Len(stream)) =>
     \A ps \in Pieces : Joined(ps) = stream => out = FramesAmong(ps)

\* Garbage does not pile up: what a handler waits with is short, or begins
\* with the magic byte of a frame that is still to be completed.
GarbageBounded ==
  (st = "read" /\ side = "router" /\ Len(buf) >= 5) =>
     Len(buf) <= ResyncLimit \/ buf[1] = RouterMagic

\* Looking for an error code in a response never reads past its end (the
\* slice would panic and end the read task), whatever the response holds.
SlicesInRange ==
  side = "shard" =>
     \A k \in 1 .. Len(out) :
        SaysError(out[k]) => CodeInRange(out[k])

\* Draining ends: every parse error makes the buffer shorter.
DrainEnds == st = "drain" ~> st # "drain"

=============================================================================
