---------------------------- MODULE BridgeProofs ----------------------------
(***************************************************************************)
(* Proofs about Bridge: the API server and the listener, and what can      *)
(* still happen after the end.                                             *)
(***************************************************************************)
EXTENDS Bridge, TLAPS

\* The API server runs only where the listener has been bound, and async_main
\* leaves that place only when it is cancelled.
StartOrder ==
  /\ api # "none" => main \in {"serve", "ok"}
  /\ main = "ok" => cancelled
  /\ handler \in [Client -> {"none", "select", "drain", "execute"}]

LEMMA StartOrderStep == StartOrder /\ [Next]_vars => StartOrder'
<1> SUFFICES ASSUME StartOrder, [Next]_vars PROVE StartOrder'
  OBVIOUS
<1>1. CASE BuildClients \/ SpawnTasks \/ Bind \/ InstallMetrics \/ SpawnApi
  BY <1>1 DEF StartOrder, BuildClients, SpawnTasks, Bind, InstallMetrics, SpawnApi, tasks
<1>2. CASE Return \/ DropRuntime \/ Cancel
  BY <1>2 DEF StartOrder, Return, DropRuntime, Cancel, tasks
<1>3. CASE HeartbeatBegins \/ HeartbeatTick \/ SendHeartbeat \/ HeartbeatStops
  BY <1>3 DEF StartOrder, HeartbeatBegins, HeartbeatTick, SendHeartbeat,
              HeartbeatStops, HeartbeatGoes
<1>4. CASE SyncTick \/ SyncReturns \/ SyncStops
  BY <1>4 DEF StartOrder, SyncTick, SyncReturns, SyncStops, SyncGoes
<1>5. CASE StartApi \/ StopApi \/ ApiDrained
  BY <1>5 DEF StartOrder, StartApi, StopApi, ApiDrained, ApiGoes
<1>6. ASSUME NEW h \in Client,
             \/ Accept(h) \/ Read(h) \/ Execute(h) \/ Executed(h) \/ Drained(h)
             \/ PeerGone(h) \/ HandlerStops(h)
      PROVE  StartOrder'
  BY <1>6 DEF StartOrder, Accept, Read, Execute, Executed, Drained, PeerGone,
              HandlerStops, HandlerGoes
<1>7. ASSUME NEW l \in Link,
             \/ Connect(l) \/ ReaderEnds(l) \/ Written(l) \/ WriterEnds(l)
             \/ \E h \in Client : Send(h, l)
      PROVE  StartOrder'
  BY <1>7 DEF StartOrder, Connect, ReaderEnds, Send, Written, WriterEnds,
              LinkGoes
<1>8. CASE UNCHANGED vars
  BY <1>8 DEF StartOrder, vars, tasks
<1> QED
  BY <1>1, <1>2, <1>3, <1>4, <1>5, <1>6, <1>7, <1>8 DEF Next, MainStep

\* A bridge whose /health answers has bound its listener, in every order in
\* which the tasks start, fail and are cancelled.
THEOREM HealthFollowsListener == Spec => []ReadyMeansBound
<1>1. Init => StartOrder
  BY DEF Init, StartOrder
<1>2. StartOrder => ReadyMeansBound
  BY DEF StartOrder, ReadyMeansBound
<1> QED
  BY <1>1, <1>2, StartOrderStep, PTL DEF Spec

-----------------------------------------------------------------------------
(* The end of a bridge                                                     *)

\* The runtime is gone, and every task with it.
ProcessGone ==
  /\ ~runtime /\ ~embedded /\ main \in {"ok", "err"}
  /\ heartbeat = "none" /\ sync = "none" /\ api = "none"
  /\ readers = {} /\ writers = {} /\ unwritten = {}
  /\ \A h \in Client : handler[h] = "none"

GoneOrThere == runtime \/ ProcessGone

LEMMA GoneStep == GoneOrThere /\ [Next]_vars => GoneOrThere' /\ (ProcessGone => ProcessGone')
<1> SUFFICES ASSUME GoneOrThere, [Next]_vars
             PROVE  GoneOrThere' /\ (ProcessGone => ProcessGone')
  OBVIOUS
<1>1. CASE BuildClients \/ SpawnTasks \/ Bind \/ InstallMetrics \/ SpawnApi
  BY <1>1 DEF GoneOrThere, ProcessGone, BuildClients, SpawnTasks, Bind, InstallMetrics,
              SpawnApi, tasks, links
<1>2. CASE Return \/ DropRuntime \/ Cancel
  BY <1>2 DEF GoneOrThere, ProcessGone, Return, DropRuntime, Cancel, tasks, links
<1>3. CASE HeartbeatBegins \/ HeartbeatTick \/ SendHeartbeat \/ HeartbeatStops
  BY <1>3 DEF GoneOrThere, ProcessGone, HeartbeatBegins, HeartbeatTick, SendHeartbeat,
              HeartbeatStops, HeartbeatGoes, links
<1>4. CASE SyncTick \/ SyncReturns \/ SyncStops
  BY <1>4 DEF GoneOrThere, ProcessGone, SyncTick, SyncReturns, SyncStops, SyncGoes, links
<1>5. CASE StartApi \/ StopApi \/ ApiDrained
  BY <1>5 DEF GoneOrThere, ProcessGone, StartApi, StopApi, ApiDrained, ApiGoes, links
<1>6. ASSUME NEW h \in Client,
             \/ Accept(h) \/ Read(h) \/ Execute(h) \/ Executed(h) \/ Drained(h)
             \/ PeerGone(h) \/ HandlerStops(h)
      PROVE  GoneOrThere' /\ (ProcessGone => ProcessGone')
  BY <1>6 DEF GoneOrThere, ProcessGone, Accept, Read, Execute, Executed, Drained,
              PeerGone, HandlerStops, HandlerGoes, links
<1>7. ASSUME NEW l \in Link,
             \/ Connect(l) \/ ReaderEnds(l) \/ Written(l) \/ WriterEnds(l)
             \/ \E h \in Client : Send(h, l)
      PROVE  GoneOrThere' /\ (ProcessGone => ProcessGone')
  BY <1>7 DEF GoneOrThere, ProcessGone, Connect, ReaderEnds, Send, Written, WriterEnds,
              LinkGoes
<1>8. CASE UNCHANGED vars
  BY <1>8 DEF GoneOrThere, ProcessGone, vars, tasks, links
<1> QED
  BY <1>1, <1>2, <1>3, <1>4, <1>5, <1>6, <1>7, <1>8 DEF Next, MainStep

\* When the runtime of main() is gone, so is every task, wherever it was, and
\* none is ever spawned again; an embedding program's runtime never goes.  What
\* is left of ProcessEnds is that async_main is given its steps.
THEOREM EndIsFinal == Spec => [](~runtime => []ProcessGone)
<1>1. Init => GoneOrThere
  BY DEF Init, GoneOrThere
<1>2. GoneOrThere /\ ~runtime => ProcessGone
  BY DEF GoneOrThere
<1> QED
  BY <1>1, <1>2, GoneStep, PTL DEF Spec

\* After a cancelled async_main has returned, no task of its own is spawned, no
\* connection is accepted and nothing is read from one: a handler at most goes
\* through what it has read.  Connections to nodes are opened by a sync only.  A
\* write task ends over a frame only, and only handlers in execute() send some.
EndStep ==
  /\ main \in {"ok", "err"} => main' = main
  /\ main = "ok" =>
       /\ cancelled'
       /\ heartbeat = "none" => heartbeat' = "none"
       /\ sync \in {"none", "done"} => sync' \in {"none", "done"}
       /\ api \in {"none", "done"} => api' \in {"none", "done"}
       /\ \A h \in Client :
            /\ handler[h] = "none" => handler'[h] = "none"
            /\ handler[h] = "select" => handler'[h] \in {"select", "none"}
       /\ readers' \cup writers' \subseteq readers \cup writers \/ sync = "sync"
       /\ writers \ unwritten \subseteq writers' \/ ~runtime'
       /\ unwritten' \subseteq unwritten \/ \E h \in Client : handler[h] = "execute"

\* What a runtime that lives on can still see after async_main has returned: the
\* core of TokenHoldersEnd.  With the sync task done and no handler left, the
\* write tasks of the connections to nodes are there for good.
THEOREM NothingReadAfterEnd == Spec => [][EndStep]_vars
<1>1. StartOrder /\ [Next]_vars => [EndStep]_vars
  <2> SUFFICES ASSUME StartOrder, Next PROVE EndStep
    OBVIOUS
  <2>1. CASE BuildClients \/ SpawnTasks \/ Bind \/ InstallMetrics \/ SpawnApi
    BY <2>1 DEF EndStep, BuildClients, SpawnTasks, Bind, InstallMetrics, SpawnApi, tasks
  <2>2. CASE Return \/ Cancel
    BY <2>2 DEF StartOrder, EndStep, Return, Cancel, tasks, links
  <2>3. CASE DropRuntime
    BY <2>3 DEF StartOrder, EndStep, DropRuntime
  <2>4. CASE HeartbeatBegins \/ HeartbeatTick \/ SendHeartbeat \/ HeartbeatStops
    BY <2>4 DEF StartOrder, EndStep, HeartbeatBegins, HeartbeatTick, SendHeartbeat,
                HeartbeatStops, HeartbeatGoes, links
  <2>5. CASE SyncTick \/ SyncReturns \/ SyncStops
    BY <2>5 DEF StartOrder, EndStep, SyncTick, SyncReturns, SyncStops, SyncGoes, links
  <2>6. CASE StartApi \/ StopApi \/ ApiDrained
    BY <2>6 DEF StartOrder, EndStep, StartApi, StopApi, ApiDrained, ApiGoes, links
  <2>7. ASSUME NEW h \in Client,
               \/ Accept(h) \/ Read(h) \/ Execute(h) \/ Executed(h) \/ Drained(h)
               \/ PeerGone(h) \/ HandlerStops(h)
        PROVE  EndStep
    BY <2>7 DEF StartOrder, EndStep, Accept, Read, Execute, Executed, Drained, PeerGone,
                HandlerStops, HandlerGoes, links
  <2>8. ASSUME NEW l \in Link,
             \/ Connect(l) \/ ReaderEnds(l) \/ Written(l) \/ WriterEnds(l)
             \/ \E h \in Client : Send(h, l)
        PROVE  EndStep
    BY <2>8 DEF StartOrder, EndStep, Connect, ReaderEnds, Send, Written, WriterEnds,
              LinkGoes
  <2> QED
    BY <2>1, <2>2, <2>3, <2>4, <2>5, <2>6, <2>7, <2>8 DEF Next, MainStep
<1>2. Init => StartOrder
  BY DEF Init, StartOrder
<1> QED
  BY <1>1, <1>2, StartOrderStep, PTL DEF Spec

=============================================================================
