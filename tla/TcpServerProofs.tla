-------------------------- MODULE TcpServerProofs ---------------------------
(***************************************************************************)
(* Proofs about TcpServer: the connection slots and the receive buffers,   *)
(* for any number of connections, any limits and any input.                *)
(***************************************************************************)
EXTENDS TcpServer, FiniteSetTheorems, TLAPS

\* What slot accounting needs to know of the state.
SlotTypes ==
  /\ active \in Nat /\ closing \in Nat
  /\ hpc \in [Client -> {"none", "select", "drain", "execute"}]

\* The limit on the counter, which bounds the handlers that run.
SlotInv == SlotTypes /\ SlotsAccounted /\ active <= MaxConnections

LEMMA LiveFinite == IsFiniteSet(Live) /\ Cardinality(Live) \in Nat
  <1>1. IsFiniteSet(Live)
    BY ServerAssumption, FS_Subset DEF Live
  <1> QED  BY <1>1, FS_CardinalityType

LEMMA OneMoreLive ==
  ASSUME SlotTypes, NEW h \in Client, hpc[h] = "none",
         hpc' = [hpc EXCEPT ![h] = "select"]
  PROVE  Cardinality(Live') = Cardinality(Live) + 1
  <1>1. Live' = Live \cup {h} /\ h \notin Live
    BY DEF Live, SlotTypes
  <1> QED  BY <1>1, LiveFinite, FS_AddElement

LEMMA OneLessLive ==
  ASSUME SlotTypes, NEW h \in Client, hpc[h] # "none",
         hpc' = [hpc EXCEPT ![h] = "none"]
  PROVE  Cardinality(Live') = Cardinality(Live) - 1
  <1>1. Live' = Live \ {h} /\ h \in Live
    BY DEF Live, SlotTypes
  <1> QED  BY <1>1, LiveFinite, FS_RemoveElement

\* A handler that goes on, from one place to another.
LEMMA StepsOn ==
  ASSUME SlotInv, NEW h \in Client, hpc[h] # "none",
         NEW p \in {"select", "drain", "execute"},
         hpc' = [hpc EXCEPT ![h] = p], UNCHANGED <<active, closing>>
  PROVE  SlotInv'
  <1>1. Live' = Live
    BY DEF Live, SlotInv, SlotTypes
  <1> QED  BY <1>1 DEF SlotInv, SlotTypes, SlotsAccounted

LEMMA Leaves ==
  ASSUME SlotInv, NEW h \in Client, hpc[h] # "none", Exit(h)
  PROVE  SlotInv'
  <1>1. Cardinality(Live') = Cardinality(Live) - 1
    BY OneLessLive DEF SlotInv, Exit
  <1>2. SlotTypes' /\ active' = active /\ closing' = closing + 1
    BY DEF SlotInv, SlotTypes, Exit
  <1> QED  BY <1>1, <1>2, LiveFinite DEF SlotInv, SlotTypes, SlotsAccounted

LEMMA SlotStep == SlotInv /\ [Next]_vars => SlotInv'
  <1> SUFFICES ASSUME SlotInv, [Next]_vars PROVE SlotInv'
      OBVIOUS
  <1>1. ASSUME NEW h \in Client, Accept(h) PROVE SlotInv'
    <2>1. Cardinality(Live') = Cardinality(Live) + 1
      BY <1>1, OneMoreLive DEF SlotInv, Accept
    <2>2. SlotTypes' /\ active' = active + 1 /\ closing' = closing
      BY <1>1 DEF SlotInv, SlotTypes, Accept
    <2> QED
      BY <1>1, <2>1, <2>2, LiveFinite, ServerAssumption
         DEF SlotInv, SlotTypes, SlotsAccounted, Accept, Admits
  <1>2. CASE GiveBackSlot
    <2>1. Live' = Live
      BY <1>2 DEF GiveBackSlot, Live, handlerVars
    <2>2. closing > 0 /\ active' = active - 1 /\ closing' = closing - 1 /\ hpc' = hpc
      BY <1>2 DEF GiveBackSlot, handlerVars
    <2> QED
      BY <2>1, <2>2, LiveFinite, ServerAssumption DEF SlotInv, SlotTypes, SlotsAccounted
  <1>3. ASSUME NEW h \in Client,
               \/ StopCancelled(h) \/ PeerGone(h) \/ TimesOutIdle(h)
               \/ BufferTooLarge(h) \/ FrameTooLarge(h) \/ RespondFails(h)
        PROVE  SlotInv'
    BY <1>3, Leaves DEF StopCancelled, PeerGone, TimesOutIdle, BufferTooLarge,
                        FrameTooLarge, RespondFails, Draining
  <1>4. ASSUME NEW h \in Client, NEW chunk \in Chunk, Read(h, chunk) PROVE SlotInv'
    BY <1>4, StepsOn DEF Read
  <1>5. ASSUME NEW h \in Client, NeedMore(h) PROVE SlotInv'
    BY <1>5, Leaves, StepsOn DEF NeedMore, Draining, WaitForInput
  <1>6. ASSUME NEW h \in Client, TakeFrame(h) PROVE SlotInv'
    BY <1>6, StepsOn DEF TakeFrame, Draining
  <1>7. ASSUME NEW h \in Client, Resync(h) PROVE SlotInv'
    <2>1. CASE UNCHANGED <<active, closing, hpc>>
      BY <2>1 DEF SlotInv, SlotTypes, SlotsAccounted, Live
    <2>2. CASE WaitForInput(h)
      BY <1>7, <2>2, StepsOn DEF Resync, Draining, WaitForInput
    <2> QED  BY <1>7, <2>1, <2>2 DEF Resync
  <1>8. ASSUME NEW h \in Client, Respond(h) PROVE SlotInv'
    BY <1>8, StepsOn DEF Respond
  <1>9. CASE StopReaping \/ StopServing \/ Cancel \/ Tick \/ UNCHANGED vars
    BY <1>9 DEF StopReaping, StopServing, Cancel, Tick, vars, handlerVars, SlotInv, SlotTypes, SlotsAccounted, Live
  <1> QED
    BY <1>1, <1>2, <1>3, <1>4, <1>5, <1>6, <1>7, <1>8, <1>9 DEF Next, Drain

LEMMA SlotInit == Init => SlotInv
  <1> SUFFICES ASSUME Init PROVE SlotInv
      OBVIOUS
  <1>1. Live = {}
    BY DEF Init, Live
  <1> QED
    BY <1>1, FS_EmptySet, ServerAssumption DEF Init, SlotInv, SlotTypes, SlotsAccounted

\* The inductive invariant of the accept loop, the close channel and the
\* handlers: the types of the counters, and the sum they keep.
THEOREM SlotInvariance == Spec => []SlotInv
  BY SlotInit, SlotStep, PTL DEF Spec

\* active_connections is the number of running handlers and unread close
\* messages, on every way out of handle_connection.
THEOREM SlotsAreAccounted == Spec => []SlotsAccounted
  BY SlotInvariance, PTL DEF SlotInv

\* Never more than max_connections handlers run.
THEOREM LimitIsKept == Spec => []LimitHolds
  <1>1. SlotInv => LimitHolds
    BY LiveFinite, ServerAssumption DEF SlotInv, SlotTypes, SlotsAccounted, LimitHolds
  <1> QED  BY <1>1, SlotInvariance, PTL

-----------------------------------------------------------------------------
LEMMA CapType == 0 \in 0 .. Cap /\ \A t \in 0 .. Cap : Later(t) \in 0 .. Cap
  BY ServerAssumption DEF Cap, Later

\* What Resync can leave of garbage.
LEMMA RestTyped ==
  ASSUME NEW rest \in {<<>>, <<"garbage">>}
  PROVE  rest \in Seq(Item) /\ Len(rest) \in 0 .. 1
  <1>1. CASE rest = <<>>
    BY <1>1
  <1>2. CASE rest = <<"garbage">>
    BY <1>2 DEF Item
  <1> QED  BY <1>1, <1>2

\* What is left of a buffer when the items up to place n are gone.
LEMMA Remainder ==
  ASSUME NEW s \in Seq(Item), NEW n \in Nat, n >= 2, n <= Len(s) + 1
  PROVE  /\ SubSeq(s, n, Len(s)) \in Seq(Item)
         /\ Len(SubSeq(s, n, Len(s))) < Len(s)
  OBVIOUS

LEMMA SpanInside ==
  ASSUME NEW s \in Seq(Item), SpanArrived(s)
  PROVE  StraySpan + 2 \in Nat /\ StraySpan + 2 >= 2 /\ StraySpan + 2 <= Len(s) + 1
  BY ServerAssumption DEF SpanArrived, WholeItems

\* Every way out of handle_connection.
LEMMA LeavesTyped ==
  ASSUME TypeOK, NEW h \in Client, Exit(h)
  PROVE  TypeOK'
  <1>1. buf' \in [Client -> Seq(Item)]
    BY DEF TypeOK, Exit
  <1>2. idle' \in [Client -> 0 .. Cap] /\ sinceFrame' \in [Client -> 0 .. Cap]
    BY CapType DEF TypeOK, Exit
  <1>3. hpc' \in [Client -> {"none", "select", "drain", "execute"}]
    BY DEF TypeOK, Exit
  <1> QED
    BY <1>1, <1>2, <1>3 DEF TypeOK, Exit, shutdown

\* A handler goes on to wait, decode or execute.
LEMMA WorksOn ==
  ASSUME TypeOK, NEW h \in Client, NEW p \in {"select", "drain", "execute"},
         NEW b \in Seq(Item),
         hpc' = [hpc EXCEPT ![h] = p], buf' = [buf EXCEPT ![h] = b],
         UNCHANGED <<active, closing, shutdown>>,
         idle' \in [Client -> 0 .. Cap], sinceFrame' \in [Client -> 0 .. Cap]
  PROVE  TypeOK'
  BY DEF TypeOK, shutdown

LEMMA WaitsTyped ==
  ASSUME TypeOK, NEW h \in Client, NEW b \in Seq(Item),
         buf' = [buf EXCEPT ![h] = b], WaitForInput(h)
  PROVE  TypeOK'
  BY CapType DEF TypeOK, WaitForInput, shutdown

LEMMA TypeStep == TypeOK /\ SlotInv /\ [Next]_vars => TypeOK'
  <1> SUFFICES ASSUME TypeOK, SlotInv, [Next]_vars PROVE TypeOK'
      OBVIOUS
  <1>1. ASSUME NEW h \in Client, Accept(h) PROVE TypeOK'
    BY <1>1 DEF Accept, TypeOK, shutdown, clocks
  <1>2. CASE GiveBackSlot
    <2>1. active > 0
      BY <1>2, LiveFinite DEF GiveBackSlot, SlotInv, SlotTypes, SlotsAccounted
    <2> QED
      BY <1>2, <2>1 DEF GiveBackSlot, TypeOK, shutdown, handlerVars, clocks
  <1>3. ASSUME NEW h \in Client,
               \/ StopCancelled(h) \/ PeerGone(h) \/ TimesOutIdle(h)
               \/ BufferTooLarge(h) \/ FrameTooLarge(h) \/ RespondFails(h)
        PROVE  TypeOK'
    BY <1>3, LeavesTyped DEF StopCancelled, PeerGone, TimesOutIdle, BufferTooLarge,
                             FrameTooLarge, RespondFails
  <1>4. ASSUME NEW h \in Client, NEW chunk \in Chunk, Read(h, chunk) PROVE TypeOK'
    <2>1. buf[h] \in Seq(Item) /\ chunk \in Seq(Item)
      BY ChunkAssumption DEF TypeOK
    <2>2. SubSeq(buf[h], 1, WholeItems(buf[h])) \in Seq(Item)
      BY <2>1 DEF WholeItems, EndsInPart
    <2>3. SubSeq(buf[h], 1, WholeItems(buf[h])) \o chunk \in Seq(Item)
      BY <2>1, <2>2
    <2> QED
      BY <1>4, <2>3, WorksOn DEF Read, TypeOK
  <1>5. ASSUME NEW h \in Client, NeedMore(h) PROVE TypeOK'
    <2>1. CASE Exit(h)
      BY <2>1, LeavesTyped
    <2>2. CASE WaitForInput(h) /\ UNCHANGED buf
      <3>1. buf' = [buf EXCEPT ![h] = buf[h]] /\ buf[h] \in Seq(Item)
        BY <2>2 DEF TypeOK
      <3> QED
        BY <2>2, <3>1, WaitsTyped
    <2> QED
      BY <1>5, <2>1, <2>2 DEF NeedMore
  <1>6. ASSUME NEW h \in Client, TakeFrame(h) PROVE TypeOK'
    <2>1. /\ sinceFrame' \in [Client -> 0 .. Cap] /\ idle' \in [Client -> 0 .. Cap]
          /\ UNCHANGED <<active, closing, shutdown>> /\ buf[h] \in Seq(Item)
      BY <1>6, CapType DEF TakeFrame, TypeOK
    <2>2. CASE FrontIs(buf[h], {"keepalive", "work"}) /\ buf' = [buf EXCEPT ![h] = Tail(@)]
      <3>1. Tail(buf[h]) \in Seq(Item) /\ buf' = [buf EXCEPT ![h] = Tail(buf[h])]
        BY <2>1, <2>2 DEF FrontIs
      <3>2. PICK p \in {"execute", "drain"} : hpc' = [hpc EXCEPT ![h] = p]
        BY <1>6 DEF TakeFrame
      <3> QED
        BY <2>1, <3>1, <3>2, WorksOn
    <2>3. CASE /\ SpanArrived(buf[h])
               /\ buf' = [buf EXCEPT ![h] = SubSeq(@, StraySpan + 2, Len(@))]
               /\ hpc' = [hpc EXCEPT ![h] = "execute"]
      <3>1. SubSeq(buf[h], StraySpan + 2, Len(buf[h])) \in Seq(Item)
        BY <2>1, <2>3, SpanInside, Remainder
      <3> QED
        BY <2>1, <2>3, <3>1, WorksOn
    <2> QED
      BY <1>6, <2>2, <2>3 DEF TakeFrame
  <1>7. ASSUME NEW h \in Client, Resync(h) PROVE TypeOK'
    <2>1. CASE /\ buf' = [buf EXCEPT ![h] = Tail(@)]
               /\ UNCHANGED <<active, closing, shutdown, hpc, clocks>>
      <3>1. Tail(buf[h]) \in Seq(Item)
        BY <1>7 DEF Resync, FrontIs, SpanArrived, TypeOK
      <3> QED
        BY <2>1, <3>1 DEF TypeOK, shutdown, clocks
    <2>2. ASSUME NEW rest \in {<<>>, <<"garbage">>}, buf' = [buf EXCEPT ![h] = rest],
                 WaitForInput(h)
          PROVE  TypeOK'
      BY <2>2, RestTyped, WaitsTyped
    <2> QED
      BY <1>7, <2>1, <2>2 DEF Resync
  <1>8. ASSUME NEW h \in Client, Respond(h) PROVE TypeOK'
    BY <1>8 DEF Respond, TypeOK, shutdown, clocks
  <1>9. CASE Tick
    BY <1>9, CapType DEF Tick, TypeOK, shutdown
  <1>10. CASE StopReaping \/ StopServing \/ Cancel \/ UNCHANGED vars
    BY <1>10 DEF StopReaping, StopServing, Cancel, vars, TypeOK, shutdown,
                 handlerVars, clocks
  <1> QED
    BY <1>1, <1>2, <1>3, <1>4, <1>5, <1>6, <1>7, <1>8, <1>9, <1>10 DEF Next, Drain

\* The state of the server and its handlers has its type, whatever comes in.
THEOREM ServerTyped == Spec => []TypeOK
  <1>1. Init => TypeOK
    <2> SUFFICES ASSUME Init PROVE TypeOK
        OBVIOUS
    <2>1. <<>> \in Seq(Item)
      OBVIOUS
    <2>2. buf \in [Client -> Seq(Item)]
      BY <2>1 DEF Init
    <2>3. idle \in [Client -> 0 .. Cap] /\ sinceFrame \in [Client -> 0 .. Cap]
      BY CapType DEF Init
    <2> QED  BY <2>2, <2>3 DEF Init, TypeOK
  <1> QED
    BY <1>1, TypeStep, SlotInvariance, PTL DEF Spec

-----------------------------------------------------------------------------
(* Shutdown                                                                *)

\* What a handler still has to go through before it ends: its place in the
\* loop, and the items in its buffer.
PlaceIn(p) ==
  CASE p = "execute" -> 3 [] p = "drain" -> 2 [] p = "select" -> 1 [] OTHER -> 0

Load(h) == 2 * Len(buf[h]) + PlaceIn(hpc[h])

\* After the cancellation each step of a running handler lightens its load, and
\* nothing adds to it: handlers read no more.  Handlers start only as long as
\* the accept loop has not noticed.
ShutdownAdvances ==
  cancelled =>
    /\ cancelled'
    /\ serving' => serving
    /\ \A h \in Client :
         \/ UNCHANGED <<hpc[h], buf[h]>>
         \/ h \in Live /\ Load(h)' < Load(h)
         \/ serving /\ h \notin Live

LEMMA ExitLightens ==
  ASSUME TypeOK, NEW h \in Client, h \in Live, Exit(h)
  PROVE  ShutdownAdvances
  <1>1. /\ hpc'[h] = "none" /\ buf'[h] = <<>>
        /\ \A g \in Client : g # h => hpc'[g] = hpc[g] /\ buf'[g] = buf[g]
    BY DEF Exit, TypeOK
  <1>2. buf[h] \in Seq(Item) /\ hpc[h] \in {"select", "drain", "execute"}
    BY DEF TypeOK, Live
  <1>3. Len(buf[h]) \in Nat /\ Len(<<>>) = 0
    BY <1>2
  <1>4. PlaceIn("none") = 0 /\ PlaceIn(hpc[h]) \in 1 .. 3
    BY <1>2 DEF PlaceIn
  <1>5. Load(h)' = 2 * Len(<<>>) + PlaceIn("none")
    BY <1>1 DEF Load
  <1>6. Load(h)' < Load(h)
    BY <1>3, <1>4, <1>5 DEF Load
  <1> QED  BY <1>1, <1>6 DEF ShutdownAdvances, Exit, shutdown

LEMMA GoesOnLightens ==
  ASSUME TypeOK, NEW h \in Client, NEW p \in {"select", "drain", "execute"},
         h \in Live, hpc' = [hpc EXCEPT ![h] = p], NEW s \in Seq(Item),
         buf' = [buf EXCEPT ![h] = s], UNCHANGED shutdown,
         2 * Len(s) + PlaceIn(p) < Load(h)
  PROVE  ShutdownAdvances
  <1>1. /\ hpc'[h] = p /\ buf'[h] = s
        /\ \A g \in Client : g # h => hpc'[g] = hpc[g] /\ buf'[g] = buf[g]
    BY DEF TypeOK
  <1>2. Load(h)' < Load(h)
    BY <1>1 DEF Load
  <1> QED  BY <1>1, <1>2 DEF ShutdownAdvances, shutdown

\* A shutdown is bounded: once the token is cancelled a handler takes no more
\* steps than its buffer and its place allow, whatever the peers send and
\* however the tasks interleave.  What is left of ShutdownEnds is that the
\* handlers outside execute() are given their steps.
THEOREM ShutdownIsBounded == Spec => [][ShutdownAdvances]_vars
  <1>1. TypeOK /\ [Next]_vars => [ShutdownAdvances]_vars
    <2> SUFFICES ASSUME TypeOK, Next PROVE ShutdownAdvances
        OBVIOUS
    <2>1. ASSUME NEW h \in Client, Accept(h) PROVE ShutdownAdvances
      BY <2>1 DEF Accept, ShutdownAdvances, Live, shutdown, TypeOK
    <2>2. ASSUME NEW h \in Client,
                 \/ StopCancelled(h) \/ PeerGone(h) \/ TimesOutIdle(h)
                 \/ BufferTooLarge(h) \/ FrameTooLarge(h) \/ RespondFails(h)
          PROVE  ShutdownAdvances
      BY <2>2, ExitLightens DEF StopCancelled, PeerGone, TimesOutIdle, BufferTooLarge,
         FrameTooLarge, RespondFails, Draining, Live
    <2>3. ASSUME NEW h \in Client, NEW chunk \in Chunk, Read(h, chunk)
          PROVE  ShutdownAdvances
      BY <2>3 DEF Read, ShutdownAdvances
    <2>4. ASSUME NEW h \in Client, NeedMore(h) PROVE ShutdownAdvances
      <3>1. CASE Exit(h)
        BY <2>4, <3>1, ExitLightens DEF NeedMore, Draining, Live
      <3>2. CASE WaitForInput(h) /\ UNCHANGED buf
        <4>1. /\ hpc[h] = "drain" /\ buf[h] \in Seq(Item)
              /\ buf' = [buf EXCEPT ![h] = buf[h]]
          BY <2>4, <3>2 DEF NeedMore, Draining, TypeOK
        <4>2. 2 * Len(buf[h]) + PlaceIn("select") < Load(h)
          BY <4>1 DEF Load, PlaceIn
        <4> QED  BY <3>2, <4>1, <4>2, GoesOnLightens DEF WaitForInput, Live
      <3> QED  BY <2>4, <3>1, <3>2 DEF NeedMore
    <2>5. ASSUME NEW h \in Client, buf[h] # <<>>, Draining(h)
          PROVE  /\ Tail(buf[h]) \in Seq(Item) /\ Len(Tail(buf[h])) = Len(buf[h]) - 1
                 /\ Len(buf[h]) \in Nat /\ h \in Live /\ Load(h) = 2 * Len(buf[h]) + 2
      BY <2>5 DEF TypeOK, Draining, Live, Load, PlaceIn
    <2>6. ASSUME NEW h \in Client, TakeFrame(h) PROVE ShutdownAdvances
      <3>1. PICK p \in {"execute", "drain"} : hpc' = [hpc EXCEPT ![h] = p]
        BY <2>6 DEF TakeFrame
      <3>2. PlaceIn(p) \in 2 .. 3
        BY <3>1 DEF PlaceIn
      <3>3. buf[h] # <<>> /\ Draining(h) /\ UNCHANGED shutdown
        BY <2>6 DEF TakeFrame, FrontIs, SpanArrived
      <3>4. PICK b \in Seq(Item) : buf' = [buf EXCEPT ![h] = b] /\ Len(b) < Len(buf[h])
        <4>1. CASE buf' = [buf EXCEPT ![h] = Tail(@)]
          <5>1. buf' = [buf EXCEPT ![h] = Tail(buf[h])]
            BY <4>1
          <5>2. Len(Tail(buf[h])) < Len(buf[h])
            BY <2>5, <3>3
          <5>3. Tail(buf[h]) \in Seq(Item)
            BY <2>5, <3>3
          <5> QED  BY <5>1, <5>2, <5>3
        <4>2. CASE /\ SpanArrived(buf[h])
                   /\ buf' = [buf EXCEPT ![h] = SubSeq(@, StraySpan + 2, Len(@))]
          BY <4>2, SpanInside, Remainder DEF TypeOK
        <4> QED  BY <2>6, <4>1, <4>2 DEF TakeFrame
      <3>5. 2 * Len(b) + PlaceIn(p) < Load(h)
        <4>1. Len(b) \in Nat
          BY <3>4
        <4> QED  BY <2>5, <3>2, <3>3, <3>4, <4>1
      <3> QED  BY <2>5, <3>1, <3>3, <3>4, <3>5, GoesOnLightens
    <2>7. ASSUME NEW h \in Client, Resync(h) PROVE ShutdownAdvances
      <3>0. buf[h] # <<>> /\ Draining(h)
        BY <2>7 DEF Resync, FrontIs, SpanArrived
      <3>1. CASE /\ buf' = [buf EXCEPT ![h] = Tail(@)]
                 /\ UNCHANGED <<active, closing, shutdown, hpc, clocks>>
        <4>1. hpc' = [hpc EXCEPT ![h] = "drain"] /\ UNCHANGED shutdown
          BY <3>0, <3>1 DEF Draining, TypeOK
        <4>2. 2 * Len(Tail(buf[h])) + PlaceIn("drain") < Load(h)
          BY <2>5, <3>0 DEF PlaceIn
        <4>3. buf' = [buf EXCEPT ![h] = Tail(buf[h])]
          BY <3>1
        <4> QED  BY <2>5, <3>0, <4>1, <4>2, <4>3, GoesOnLightens
      <3>2. CASE /\ Len(buf[h]) = 1
                 /\ \E rest \in {<<>>, <<"garbage">>} : buf' = [buf EXCEPT ![h] = rest]
                 /\ WaitForInput(h)
        <4>1. PICK rest \in {<<>>, <<"garbage">>} : buf' = [buf EXCEPT ![h] = rest]
          BY <3>2
        <4>2. 2 * Len(rest) + PlaceIn("select") < Load(h)
          BY <2>5, <3>0, <3>2, RestTyped DEF PlaceIn
        <4> QED  BY <2>5, <3>0, <3>2, <4>1, <4>2, RestTyped, GoesOnLightens
                 DEF WaitForInput
      <3> QED  BY <2>7, <3>1, <3>2 DEF Resync
    <2>8. ASSUME NEW h \in Client, Respond(h) PROVE ShutdownAdvances
      <3>1. /\ hpc[h] = "execute" /\ buf[h] \in Seq(Item)
            /\ buf' = [buf EXCEPT ![h] = buf[h]]
        BY <2>8 DEF Respond, TypeOK
      <3>2. 2 * Len(buf[h]) + PlaceIn("drain") < Load(h)
        BY <3>1 DEF Load, PlaceIn
      <3> QED  BY <2>8, <3>1, <3>2, GoesOnLightens DEF Respond, Live
    <2>9. CASE GiveBackSlot \/ StopReaping \/ StopServing \/ Cancel \/ Tick
      BY <2>9 DEF GiveBackSlot, StopReaping, StopServing, Cancel, Tick, ShutdownAdvances,
                  shutdown, handlerVars
    <2> QED
      BY <2>1, <2>2, <2>3, <2>4, <2>6, <2>7, <2>8, <2>9 DEF Next, Drain
  <1> QED  BY <1>1, ServerTyped, PTL DEF Spec

=============================================================================
