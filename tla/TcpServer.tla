----------------------------- MODULE TcpServer ------------------------------
(***************************************************************************)
(* The inbound side (src/src/tcp_server.rs): the accept loop with its      *)
(* connection limit, the task that gives slots back, and one handler per   *)
(* connection.  A receive buffer is a sequence of items: complete frames   *)
(* ("keepalive", "work", "huge" for one above max_frame_size), "garbage"   *)
(* that does not decode, "stray" for a magic byte that heads no frame but  *)
(* is followed by what reads as a length, and at the end possibly "part"   *)
(* of an item.  Time passes in ticks; a clock stops counting above the     *)
(* longest timeout.                                                        *)
(***************************************************************************)
EXTENDS Integers, Sequences, FiniteSets

CONSTANTS
  Client,           \* inbound connections
  MaxConnections,   \* cfg.max_connections
  Chunk,            \* what one read can deliver, as sequences of items
  StraySpan,        \* how many items behind it a stray header claims
  MaxBuffer,        \* cfg.max_buffer_size, in items
  FrameTimeout,     \* cfg.frame_timeout_secs, in ticks
  IdleTimeout       \* cfg.idle_timeout_secs, in ticks

Item == {"keepalive", "work", "huge", "garbage", "stray", "part"}

ASSUME ServerAssumption ==
  /\ IsFiniteSet(Client) /\ MaxConnections \in Nat /\ StraySpan \in Nat \ {0}
  /\ MaxBuffer \in Nat /\ FrameTimeout \in Nat /\ IdleTimeout \in Nat
ASSUME ChunkAssumption ==
  \A c \in Chunk : c \in Seq(Item) /\ c # <<>>
                     /\ \A i \in 1 .. Len(c) - 1 : c[i] # "part"

VARIABLES
  active,      \* active_connections
  closing,     \* messages in the close channel
  cancelled,   \* the cancellation token
  serving,     \* the accept loop runs
  reaping,     \* the task that gives slots back runs
  hpc,         \* where each connection's handler is
  buf,         \* its receive buffer
  idle,        \* ticks since it began to wait for input
  sinceFrame   \* ticks since last_frame_time

clocks == <<idle, sinceFrame>>
handlerVars == <<hpc, buf, clocks>>
shutdown == <<cancelled, serving, reaping>>
vars == <<active, closing, shutdown, handlerVars>>

Cap == IF FrameTimeout > IdleTimeout THEN FrameTimeout + 1 ELSE IdleTimeout + 1
Later(t) == IF t < Cap THEN t + 1 ELSE t

Live == {h \in Client : hpc[h] # "none"}

Init ==
  /\ active = 0 /\ closing = 0 /\ cancelled = FALSE /\ serving = TRUE /\ reaping = TRUE
  /\ hpc = [h \in Client |-> "none"] /\ buf = [h \in Client |-> <<>>]
  /\ idle = [h \in Client |-> 0] /\ sinceFrame = [h \in Client |-> 0]

-----------------------------------------------------------------------------
(* run: the accept loop and the task behind the close channel              *)

MutantAdmits == active <= MaxConnections

Admits == active < MaxConnections

\* The select is not biased: a connection may still be accepted after the
\* cancellation.
Accept(h) ==
  /\ serving /\ hpc[h] = "none"
  /\ Admits
  /\ active' = active + 1
  /\ hpc' = [hpc EXCEPT ![h] = "select"]
  /\ UNCHANGED <<closing, shutdown, buf, clocks>>

StopServing ==
  /\ serving /\ cancelled /\ serving' = FALSE
  /\ UNCHANGED <<active, closing, cancelled, reaping, handlerVars>>

GiveBackSlot ==
  /\ reaping /\ closing > 0
  /\ closing' = closing - 1 /\ active' = active - 1
  /\ UNCHANGED <<shutdown, handlerVars>>

\* Whatever is left in the channel.
StopReaping ==
  /\ reaping /\ cancelled /\ reaping' = FALSE
  /\ UNCHANGED <<active, closing, cancelled, serving, handlerVars>>

Cancel ==
  /\ ~cancelled /\ cancelled' = TRUE
  /\ UNCHANGED <<active, closing, serving, reaping, handlerVars>>

-----------------------------------------------------------------------------
(* handle_connection                                                       *)

MutantSilentExit(h) ==
  /\ hpc' = [hpc EXCEPT ![h] = "none"]
  /\ buf' = [buf EXCEPT ![h] = <<>>]
  /\ UNCHANGED <<active, closing, shutdown, clocks>>

\* Every way out sends one message to the close channel.
Exit(h) ==
  /\ closing' = closing + 1
  /\ hpc' = [hpc EXCEPT ![h] = "none"]
  /\ buf' = [buf EXCEPT ![h] = <<>>]
  /\ idle' = [idle EXCEPT ![h] = 0]
  /\ sinceFrame' = [sinceFrame EXCEPT ![h] = 0]
  /\ UNCHANGED <<active, shutdown>>

MutantNeverStops(h) == FALSE /\ Exit(h)

\* The select is biased: cancellation comes before input.
StopCancelled(h) == hpc[h] = "select" /\ cancelled /\ Exit(h)

\* End of stream or a read error.
PeerGone(h) == hpc[h] = "select" /\ ~cancelled /\ Exit(h)

TimesOutIdle(h) ==
  hpc[h] = "select" /\ ~cancelled /\ idle[h] >= IdleTimeout /\ Exit(h)

EndsInPart(s) == s # <<>> /\ s[Len(s)] = "part"

WholeItems(s) == IF EndsInPart(s) THEN Len(s) - 1 ELSE Len(s)

\* A chunk arrives.  Its first item completes the part in the buffer, if there
\* is one, or is more of that part.
Read(h, chunk) ==
  /\ hpc[h] = "select" /\ ~cancelled
  /\ buf' = [buf EXCEPT ![h] = SubSeq(@, 1, WholeItems(@)) \o chunk]
  /\ hpc' = [hpc EXCEPT ![h] = "drain"]
  /\ UNCHANGED <<active, closing, shutdown, idle, sinceFrame>>

WaitForInput(h) ==
  /\ hpc' = [hpc EXCEPT ![h] = "select"]
  /\ idle' = [idle EXCEPT ![h] = 0]
  /\ UNCHANGED <<active, closing, shutdown, sinceFrame>>

BufferTooLarge(h) == hpc[h] = "drain" /\ Len(buf[h]) > MaxBuffer /\ Exit(h)

Draining(h) == hpc[h] = "drain" /\ Len(buf[h]) <= MaxBuffer

\* What try_decode_router makes of the front of the buffer.  Whatever lies
\* behind a stray header, whole frames included, is taken for its body.
FrontIs(s, items) == s # <<>> /\ Head(s) \in items

SpanArrived(s) == FrontIs(s, {"stray"}) /\ WholeItems(s) > StraySpan

FrontIncomplete(s) ==
  \/ s = <<>> \/ FrontIs(s, {"part"})
  \/ FrontIs(s, {"stray"}) /\ ~SpanArrived(s)

\* Fewer than five bytes are not looked at, be they garbage.
MayBeShort(s) == \A i \in 1 .. Len(s) : s[i] \in {"part", "garbage"}

MutantNeverSlow(h) ==
  /\ Draining(h)
  /\ FrontIncomplete(buf[h]) \/ MayBeShort(buf[h])
  /\ WaitForInput(h)
  /\ UNCHANGED buf

NeedMore(h) ==
  /\ Draining(h)
  /\ FrontIncomplete(buf[h]) \/ MayBeShort(buf[h])
  /\ \/ sinceFrame[h] > FrameTimeout /\ Exit(h)
     \/ /\ sinceFrame[h] <= FrameTimeout
        /\ WaitForInput(h)
        /\ UNCHANGED buf

\* Also when a stray header and what it claims read as a frame.
FrameTooLarge(h) ==
  /\ Draining(h)
  /\ FrontIs(buf[h], {"huge"}) \/ SpanArrived(buf[h])
  /\ Exit(h)

TakeFrame(h) ==
  /\ Draining(h)
  /\ sinceFrame' = [sinceFrame EXCEPT ![h] = 0]
  /\ \/ /\ FrontIs(buf[h], {"keepalive", "work"})
        /\ buf' = [buf EXCEPT ![h] = Tail(@)]
        /\ hpc' = [hpc EXCEPT ![h] = IF Head(buf[h]) = "work" THEN "execute" ELSE "drain"]
     \/ /\ SpanArrived(buf[h])
        /\ buf' = [buf EXCEPT ![h] = SubSeq(@, StraySpan + 2, Len(@))]
        /\ hpc' = [hpc EXCEPT ![h] = "execute"]
  /\ UNCHANGED <<active, closing, shutdown, idle>>

\* Skips to the next magic byte.  Without one it keeps at most 64 bytes and
\* waits for more input, past the check of the frame timeout.
Resync(h) ==
  /\ Draining(h)
  /\ FrontIs(buf[h], {"garbage"}) \/ SpanArrived(buf[h])
  /\ \/ /\ Len(buf[h]) > 1
        /\ buf' = [buf EXCEPT ![h] = Tail(@)]
        /\ UNCHANGED <<active, closing, shutdown, hpc, clocks>>
     \/ /\ Len(buf[h]) = 1
        /\ \E rest \in {<<>>, <<"garbage">>} : buf' = [buf EXCEPT ![h] = rest]
        /\ WaitForInput(h)

\* execute() returned a response, and it was written.
Respond(h) ==
  /\ hpc[h] = "execute"
  /\ hpc' = [hpc EXCEPT ![h] = "drain"]
  /\ UNCHANGED <<active, closing, shutdown, buf, clocks>>

\* It could not be written; or execute() failed, and after the error response
\* the connection is closed.
RespondFails(h) == hpc[h] = "execute" /\ Exit(h)

-----------------------------------------------------------------------------
\* One unit of time passes.
Tick ==
  /\ idle' = [h \in Client |-> IF hpc[h] = "select" THEN Later(idle[h]) ELSE idle[h]]
  /\ sinceFrame' = [h \in Client |-> IF h \in Live THEN Later(sinceFrame[h]) ELSE 0]
  /\ UNCHANGED <<active, closing, shutdown, hpc, buf>>

Drain(h) ==
  BufferTooLarge(h) \/ NeedMore(h) \/ FrameTooLarge(h) \/ TakeFrame(h) \/ Resync(h)

Next ==
  \/ GiveBackSlot \/ StopReaping \/ StopServing \/ Cancel \/ Tick
  \/ \E h \in Client :
        \/ Accept(h) \/ StopCancelled(h) \/ PeerGone(h) \/ TimesOutIdle(h)
        \/ \E chunk \in Chunk : Read(h, chunk)
        \/ Drain(h) \/ Respond(h) \/ RespondFails(h)

Spec == Init /\ [][Next]_vars

\* Handlers run on, time passes and timers fire; nothing is assumed of
\* execute() or of the peers.  A select that is not biased picks at random among
\* what is ready.
FairSpec ==
  /\ Spec /\ WF_vars(StopServing) /\ WF_vars(Tick)
  /\ \A h \in Client :
        WF_vars(StopCancelled(h)) /\ WF_vars(Drain(h)) /\ WF_vars(TimesOutIdle(h))

-----------------------------------------------------------------------------
(* Properties                                                              *)

\* The state of the server and its handlers has its type.
TypeOK ==
  /\ active \in Nat /\ closing \in Nat
  /\ cancelled \in BOOLEAN /\ serving \in BOOLEAN /\ reaping \in BOOLEAN
  /\ hpc \in [Client -> {"none", "select", "drain", "execute"}]
  /\ buf \in [Client -> Seq(Item)]
  /\ idle \in [Client -> 0 .. Cap] /\ sinceFrame \in [Client -> 0 .. Cap]

\* Slots are neither lost nor given back twice: active_connections counts the
\* handlers that run and the messages still to be read, on every way out of
\* handle_connection.  So the subtraction never underflows.
SlotsAccounted == active = Cardinality(Live) + closing

\* The limit holds: never more than max_connections handlers run.
LimitHolds == Cardinality(Live) <= MaxConnections

\* A request that has arrived is not held for ever: the handler comes to
\* execute something from its buffer or closes the connection.  A stray header
\* in front of whole frames makes it wait with them in its buffer, and the peer
\* may go on sending a little at a time, which keeps the idle timeout off; then
\* the frame timeout has to end it.
HeldFramesLeave ==
  \A h \in Client :
     (\E i \in 1 .. Len(buf[h]) : buf[h][i] = "work") ~> hpc[h] \in {"none", "execute"}

\* After cancellation every handler ends, but for those inside execute():
\* handlers look at the token between reads only, and go through all that is
\* buffered first.
ShutdownEnds == cancelled ~> [](\A h \in Client : hpc[h] \in {"none", "execute"})

=============================================================================
