---------------------------- MODULE MCFrameStream ---------------------------
(* Streams for FrameStream: every sequence of up to three pieces.          *)
EXTENDS FrameStream

Ascii(bytes) == \A k \in 1 .. Len(bytes) : bytes[k] < 128

UpToThree(pieces) == UNION {[1 .. n -> pieces] : n \in 1 .. 3}

ConcatsOf(pieces) == {Joined(ps) : ps \in UpToThree(pieces)}

\* A write without segment; a read whose payload holds a router magic.
Good == {<<254, 7, 0, 0, 0, 0, 1, 255, 9, 0, 0, 0>>,
         <<254, 9, 0, 0, 0, 1, 97, 0, 255, 3, 0, 0, 0, 254>>}
\* Garbage below and above ResyncLimit.
Noise == {<<7>>, <<7, 7, 7, 7, 7, 7, 7, 7>>}
\* An absurd length; a length of one; a segment that is too long; one that is
\* not UTF-8; no shard magic; a frame that is cut off.
Broken == {<<254, 0, 0, 0, 2>>, <<254, 1, 0, 0, 0, 7>>, <<254, 2, 0, 0, 0, 9, 0>>,
           <<254, 3, 0, 0, 0, 1, 200, 0>>, <<254, 7, 0, 0, 0, 0, 1, 7, 9, 0, 0, 0>>,
           <<254, 7, 0>>}

MCPieces == UpToThree(Good \cup Noise)
MCStreams == ConcatsOf(Good \cup Noise \cup Broken)

Id(n) == <<n, 0, 0, 0>>
Success == PrependHeader(Id(1), <<2, 79, 75, 0, 0>>)
BareError == PrependHeader(Id(2), <<5>> \o Text("ERROR") \o <<0, 0>>)

\* The read loop looks for "ERROR" in the header: it is there when the id is
\* "ERRO" and the payload has 82 bytes, the code of "R".
SeenAsError ==
  PrependHeader(<<69, 82, 82, 79>>, <<5>> \o Text("ERROR") \o [k \in 1 .. 76 |-> 0])

\* Responses; a wrong magic; an empty payload; no field count.
MCResponses ==
  ConcatsOf({Success, BareError, ErrorResponse(Id(3), 2), PrependHeader(Id(4), <<>>),
             PrependHeader(Id(5), <<5, 0>>), <<0, 0, 0, 0, 0, 0, 0, 0, 0>>})
    \cup {SeenAsError, Success \o SeenAsError, SeenAsError \o SeenAsError \o Success}

=============================================================================
