------------------------------- MODULE Bridge -------------------------------
(***************************************************************************)
(* The life of a bridge: async_main (src/src/lib.rs) builds the clients,   *)
(* spawns the heartbeat and the sync task, binds the listener, spawns the  *)
(* API server and serves; a cancellation ends it.  Under main              *)
(* (src/src/main.rs) the runtime goes when async_main returns, and with it *)
(* every task; a program that embeds async_main, as the tests do, keeps    *)
(* its runtime.                                                            *)
(***************************************************************************)

CONSTANTS
  Client,     \* inbound connections
  Link        \* connections to nodes whose tasks are there (bound)

VARIABLES
  main,       \* where async_main is; "ok" or "err" once it has ended
  embedded,   \* the runtime is the caller's
  runtime,    \* it is there
  cancelled,  \* the cancellation token
  heartbeat,  \* where the heartbeat task is
  sync,       \* where the sync task is
  api,        \* where the API server is
  handler,    \* where the handler of each connection is
  readers,    \* the connections to nodes whose read task is there
  writers,    \* the connections to nodes whose write task is there
  unwritten   \* those of them whose write task has a frame to write

links == <<readers, writers, unwritten>>
tasks == <<heartbeat, sync, api, handler, links>>
vars == <<main, embedded, runtime, cancelled, tasks>>

Init ==
  /\ main = "clients" /\ embedded \in BOOLEAN /\ runtime = TRUE /\ cancelled = FALSE
  /\ heartbeat = "none" /\ sync = "none" /\ api = "none"
  /\ handler = [h \in Client |-> "none"]
  /\ readers = {} /\ writers = {} /\ unwritten = {}

-----------------------------------------------------------------------------
(* async_main and main                                                     *)

\* The clients of RzID, RzPoint and the nodes' API.
BuildClients ==
  /\ main = "clients" /\ main' \in {"spawn", "err"}
  /\ UNCHANGED <<embedded, runtime, cancelled, tasks>>

MutantApiFirst ==
  /\ main = "spawn" /\ main' = "bind"
  /\ heartbeat' = "new" /\ sync' = "wait" /\ api' = "start"
  /\ UNCHANGED <<embedded, runtime, cancelled, handler, links>>

\* The heartbeat and the sync task run before the listener is bound.
SpawnTasks ==
  /\ main = "spawn" /\ main' = "bind"
  /\ heartbeat' = "new" /\ sync' = "wait"
  /\ UNCHANGED <<embedded, runtime, cancelled, api, handler, links>>

Bind ==
  /\ main = "bind" /\ main' \in {"metrics", "err"}
  /\ UNCHANGED <<embedded, runtime, cancelled, tasks>>

\* A process has one recorder: Metrics::new panics when a bridge that ran in
\* this process before has installed it.
InstallMetrics ==
  /\ main = "metrics"
  /\ \/ main' = "api"
     \/ embedded /\ main' = "err"
  /\ UNCHANGED <<embedded, runtime, cancelled, tasks>>

SpawnApi ==
  /\ main = "api" /\ main' = "serve"
  /\ api' = "start"
  /\ UNCHANGED <<embedded, runtime, cancelled, heartbeat, sync, handler, links>>

MutantJoinsHandlers ==
  /\ main = "serve" /\ cancelled /\ \A h \in Client : handler[h] = "none"
  /\ main' = "ok"
  /\ UNCHANGED <<embedded, runtime, cancelled, tasks>>

\* Neither the select here nor server.run waits for the handlers.
Return ==
  /\ main = "serve" /\ cancelled
  /\ main' = "ok"
  /\ UNCHANGED <<embedded, runtime, cancelled, tasks>>

\* block_on has returned: the runtime drops every task where it waits.
DropRuntime ==
  /\ main \in {"ok", "err"} /\ ~embedded
  /\ runtime /\ runtime' = FALSE
  /\ heartbeat' = "none" /\ sync' = "none" /\ api' = "none"
  /\ handler' = [h \in Client |-> "none"]
  /\ readers' = {} /\ writers' = {} /\ unwritten' = {}
  /\ UNCHANGED <<main, embedded, cancelled>>

\* Ctrl+C, or the caller.
Cancel ==
  /\ runtime /\ ~cancelled /\ cancelled' = TRUE
  /\ UNCHANGED <<main, embedded, runtime, tasks>>

-----------------------------------------------------------------------------
(* The heartbeat task (src/src/rzid.rs)                                    *)

HeartbeatGoes(from, to) ==
  /\ heartbeat = from /\ heartbeat' = to
  /\ UNCHANGED <<main, embedded, runtime, cancelled, sync, api, handler, links>>

\* The task builds a client of its own.
HeartbeatBegins == HeartbeatGoes("new", "tick") \/ HeartbeatGoes("new", "failed")

HeartbeatTick == HeartbeatGoes("tick", "send")

MutantGivesUp == HeartbeatGoes("send", "tick") \/ HeartbeatGoes("send", "done")

\* send_heartbeat: RzID took it, refused it or did not answer in time; an error
\* is logged.
SendHeartbeat == HeartbeatGoes("send", "tick")

MutantOtherToken == FALSE /\ HeartbeatGoes("tick", "done")

HeartbeatStops == cancelled /\ HeartbeatGoes("tick", "done")

-----------------------------------------------------------------------------
(* The sync task: see ClusterHandler for what it does.  It may never come  *)
(* back from a sync.                                                       *)

SyncGoes(from, to) ==
  /\ sync = from /\ sync' = to
  /\ UNCHANGED <<main, embedded, runtime, cancelled, heartbeat, api, handler, links>>

SyncTick == SyncGoes("wait", "sync")

SyncReturns == SyncGoes("sync", "wait")

SyncStops == cancelled /\ SyncGoes("wait", "done")

-----------------------------------------------------------------------------
(* The tasks of a connection to a node (src/src/connection.rs).  A sync    *)
(* spawns them, and nothing tells them of the cancellation.                *)

LinkGoes == UNCHANGED <<main, embedded, runtime, cancelled, heartbeat, sync, api, handler>>

Connect(l) ==
  /\ sync = "sync" /\ l \notin readers \cup writers
  /\ readers' = readers \cup {l} /\ writers' = writers \cup {l}
  /\ LinkGoes /\ UNCHANGED unwritten

\* The node closes the connection, or sends what cannot be read.
ReaderEnds(l) ==
  /\ l \in readers /\ readers' = readers \ {l}
  /\ LinkGoes /\ UNCHANGED <<writers, unwritten>>

\* A handler in execute() hands over a frame, also where the read task is gone.
Send(h, l) ==
  /\ handler[h] = "execute" /\ l \in writers
  /\ unwritten' = unwritten \cup {l}
  /\ LinkGoes /\ UNCHANGED <<readers, writers>>

\* The last of the frames is written (one that leaves others is a stutter).
Written(l) ==
  /\ l \in unwritten /\ unwritten' = unwritten \ {l}
  /\ LinkGoes /\ UNCHANGED <<readers, writers>>

\* A frame cannot be written.  Nothing else ends the write task: it holds a
\* sender of the channel it waits for.
WriterEnds(l) ==
  /\ l \in unwritten /\ unwritten' = unwritten \ {l}
  /\ writers' = writers \ {l}
  /\ LinkGoes /\ UNCHANGED readers

-----------------------------------------------------------------------------
(* The API server (src/src/api.rs)                                         *)

ApiGoes(from, to) ==
  /\ api = from /\ api' = to
  /\ UNCHANGED <<main, embedded, runtime, cancelled, heartbeat, sync, handler, links>>

\* The address does not parse or cannot be bound: logged, and that is all.
StartApi == ApiGoes("start", "serve") \/ ApiGoes("start", "done")

\* No new connections, and two seconds for those there are.
StopApi == cancelled /\ ApiGoes("serve", "drain")

ApiDrained == ApiGoes("drain", "done")

-----------------------------------------------------------------------------
(* Connections: see TcpServer.  A handler may never come back from         *)
(* execute(), and goes through all it has read before it looks at the      *)
(* token again.                                                            *)

HandlerGoes(h, from, to) ==
  /\ handler[h] = from /\ handler' = [handler EXCEPT ![h] = to]
  /\ UNCHANGED <<main, embedded, runtime, cancelled, heartbeat, sync, api, links>>

Accept(h) == main = "serve" /\ HandlerGoes(h, "none", "select")

\* The select of a handler is biased: after the cancellation nothing is read.
Read(h) == ~cancelled /\ HandlerGoes(h, "select", "drain")

Execute(h) == HandlerGoes(h, "drain", "execute")

Executed(h) == HandlerGoes(h, "execute", "drain") \/ HandlerGoes(h, "execute", "none")

Drained(h) == HandlerGoes(h, "drain", "select") \/ HandlerGoes(h, "drain", "none")

PeerGone(h) == ~cancelled /\ HandlerGoes(h, "select", "none")

HandlerStops(h) == cancelled /\ HandlerGoes(h, "select", "none")

-----------------------------------------------------------------------------
MainStep ==
  \/ BuildClients \/ SpawnTasks \/ Bind \/ InstallMetrics \/ SpawnApi \/ Return
  \/ DropRuntime

Next ==
  \/ MainStep \/ Cancel
  \/ HeartbeatBegins \/ HeartbeatTick \/ SendHeartbeat \/ HeartbeatStops
  \/ SyncTick \/ SyncReturns \/ SyncStops
  \/ StartApi \/ StopApi \/ ApiDrained
  \/ \E h \in Client :
        \/ Accept(h) \/ Read(h) \/ Execute(h) \/ Executed(h) \/ Drained(h)
        \/ PeerGone(h) \/ HandlerStops(h)
  \/ \E l \in Link :
        \/ Connect(l) \/ ReaderEnds(l) \/ Written(l) \/ WriterEnds(l)
        \/ \E h \in Client : Send(h, l)

Spec == Init /\ [][Next]_vars

\* async_main runs on; HTTP requests time out and intervals tick; a select that
\* is not biased picks at random, so that it does not pass over a ready
\* cancellation for ever.  Nothing is assumed of execute() or of a sync.
FairSpec ==
  /\ Spec /\ WF_vars(MainStep)
  /\ WF_vars(HeartbeatBegins) /\ WF_vars(HeartbeatTick) /\ WF_vars(SendHeartbeat)
  /\ SF_vars(HeartbeatStops) /\ SF_vars(SyncStops)
  /\ WF_vars(StartApi) /\ WF_vars(StopApi) /\ WF_vars(ApiDrained)
  /\ \A h \in Client : SF_vars(HandlerStops(h))

-----------------------------------------------------------------------------
(* Properties                                                              *)

\* A bridge whose /health answers has bound its listener, also while it starts:
\* a readiness probe never precedes the port, and a start that failed is never
\* reported as healthy.
ReadyMeansBound == api = "serve" => main = "serve" \/ cancelled

\* A cancellation ends the process, at whatever point of its start it comes,
\* whether or not handlers hang in execute() or the sync task is stuck; so does
\* a failed start, with the tasks that were already running.
ProcessEnds == (~embedded /\ (cancelled \/ main = "err")) ~> ~runtime

\* In a runtime that lives on, a cancellation ends all that knows the token,
\* wherever it waits at that moment: the heartbeats, the API server, the sync
\* task unless it is stuck in a sync, and each handler unless it has requests to
\* go through (see ShutdownEnds in TcpServer).  The tasks of connections to nodes
\* stay.
TokenHoldersEnd ==
  cancelled ~> []( /\ heartbeat \in {"none", "failed", "done"}
                   /\ api \in {"none", "done"}
                   /\ sync # "wait" /\ \A h \in Client : handler[h] # "select")

\* Heartbeats go on until the cancellation or the end of the runtime, whatever
\* RzID answers: once the task has its client, the next one always comes.
HeartbeatGoesOn ==
  [](heartbeat \in {"tick", "send"} =>
       []<>(heartbeat = "send" \/ cancelled \/ ~runtime))

=============================================================================
