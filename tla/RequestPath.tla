---------------------------- MODULE RequestPath -----------------------------
(***************************************************************************)
(* One request from execute() to its answer: the retry loop of             *)
(* src/src/cluster_handler.rs, the connections of src/src/connection.rs    *)
(* with their read and write tasks, and the map from correlation ids to    *)
(* waiting requests of src/src/demux.rs.                                   *)
(*                                                                         *)
(* A frame is a triple <<connection, correlation id, request>>; so is an   *)
(* entry of a connection's demux map.  Frames in transit form sets: the    *)
(* send channel keeps their order, but a node answers in any order.  The   *)
(* pool is abstract here (FollowerPool and LeaderPool have the details):   *)
(* next_*_conn returns some open pooled connection, or nothing.            *)
(***************************************************************************)
EXTENDS Integers, FiniteSets

CONSTANTS
  Req,        \* calls of execute()
  Conn,       \* connections, each opened at most once
  NoConn,     \* no connection yet
  IdSpace,    \* number of correlation ids (2^32 for the u32 counter)
  QueueCap,   \* capacity of a send channel
  OtherIds,   \* bound: the other calls of execute() take ids below it
  Pending, Dropped, Empty   \* states of a oneshot channel without a response

ASSUME IdSpaceAssumption == IdSpace \in Nat \ {0}
ASSUME QueueAssumption == QueueCap \in Nat \ {0} /\ OtherIds \in Nat
ASSUME NoConnAssumption == NoConn \notin Conn
ASSUME ChannelAssumption ==
  /\ Pending \notin Req /\ Dropped \notin Req /\ Empty \notin Req
  /\ Pending # Dropped /\ Pending # Empty /\ Dropped # Empty

MaxAttempts == 3

VARIABLES
  fresh,      \* connections that are not opened yet
  pool,       \* connections that next_*_conn can return
  closed,     \* ConnectionInner.closed
  reading,    \* connections whose read task runs
  writing,    \* connections whose write task runs, and holds the receiver
  issued,     \* ConnectionInner.corr_id, before it is cut to 32 bits
  entries,    \* the demux maps
  old,        \* entries stored more than 2 * timeout_sec ago
  queued,     \* frames in the send channels
  atNode,     \* frames that have reached the node (external)
  executed,   \* frames whose request the node has carried out (external)
  replies,    \* responses on their way back
  pc,         \* where each request is in execute()
  attempts,   \* its counter
  conn, id,   \* the connection and the correlation id of its last attempt
  reply       \* its oneshot channel: a state, or the request that is answered

connVars == <<fresh, pool, closed, reading, writing, issued>>
netVars == <<queued, atNode, executed, replies>>
reqVars == <<pc, attempts, conn, id, reply>>
vars == <<connVars, entries, old, netVars, reqVars>>

Ids == 0 .. IdSpace - 1
Frame == Conn \X Ids \X Req

Init ==
  /\ fresh = Conn /\ pool = {} /\ closed = {} /\ reading = {} /\ writing = {}
  /\ issued = [c \in Conn |-> 1]
  /\ entries = {} /\ old = {}
  /\ queued = {} /\ atNode = {} /\ executed = {} /\ replies = {}
  /\ pc = [r \in Req |-> "idle"] /\ attempts = [r \in Req |-> 0]
  /\ conn = [r \in Req |-> NoConn] /\ id = [r \in Req |-> 0]
  /\ reply = [r \in Req |-> Pending]

-----------------------------------------------------------------------------
(* The demux map                                                           *)

\* The request that stored e still holds the receiver of its channel.
Current(e) ==
  /\ pc[e[3]] \in {"send", "wait"}
  /\ conn[e[3]] = e[1] /\ id[e[3]] = e[2]

SameKey(e, f) == e[1] = f[1] /\ e[2] = f[2]

\* cleanup: the entries of the connections `met` that are too old ...
TimedOut(met) == {e \in old : e[1] \in met}

MutantDropsWaiters(gone) ==
  [q \in Req |-> IF \E e \in gone : e[3] = q /\ Current(e) THEN Dropped ELSE reply[q]]

\* ... are removed, and those who wait for them get an empty response.
WokenBy(gone) ==
  [q \in Req |-> IF \E e \in gone : e[3] = q /\ Current(e) THEN Empty ELSE reply[q]]

-----------------------------------------------------------------------------
(* execute                                                                 *)

\* The frame is too short or has the wrong magic byte.
Reject(r) ==
  /\ pc[r] = "idle"
  /\ pc' = [pc EXCEPT ![r] = "err"]
  /\ UNCHANGED <<connVars, entries, old, netVars, attempts, conn, id, reply>>

Call(r) ==
  /\ pc[r] = "idle"
  /\ pc' = [pc EXCEPT ![r] = "pick"]
  /\ UNCHANGED <<connVars, entries, old, netVars, attempts, conn, id, reply>>

MutantOneTooMany(r) ==
  /\ attempts' = [attempts EXCEPT ![r] = @ + 1]
  /\ pc' = [pc EXCEPT ![r] = IF attempts[r] + 1 > MaxAttempts THEN "err" ELSE "pick"]

MutantNotCounted(r) ==
  pc' = [pc EXCEPT ![r] = "pick"] /\ UNCHANGED attempts

AttemptFails(r) ==
  /\ attempts' = [attempts EXCEPT ![r] = @ + 1]
  /\ pc' = [pc EXCEPT ![r] = IF attempts[r] + 1 >= MaxAttempts THEN "err" ELSE "pick"]

MutantMayMeet == pool

\* next_*_conn cleans up the closed connections it meets ...
MayMeet == pool \cap closed

\* ... and next_follower_conn removes them; next_leader_conn leaves them.
PoolAfter(met) == {pool, pool \ met}

\* No connection, or one that closed before execute() looked at it again.
PickNone(r, met) ==
  /\ pc[r] = "pick" /\ met \subseteq MayMeet
  /\ pool' \in PoolAfter(met)
  /\ entries' = entries \ TimedOut(met) /\ old' = old \ TimedOut(met)
  /\ reply' = WokenBy(TimedOut(met))
  /\ AttemptFails(r)
  /\ UNCHANGED <<fresh, closed, reading, writing, issued, netVars, conn, id>>

MutantSameId(c) == 0

NextId(c) == issued[c] % IdSpace

\* An open connection: takes the next correlation id and stores the sender.  An
\* entry that still has this id (the counter went round) is overwritten, and
\* its request finds its channel dropped.
PickConn(r, met, c) ==
  /\ pc[r] = "pick" /\ met \subseteq MayMeet
  /\ c \in pool \ closed
  /\ pool' \in PoolAfter(met)
  /\ issued' = [issued EXCEPT ![c] = @ + 1]
  /\ LET e == <<c, NextId(c), r>>
         lost == {f \in entries : SameKey(e, f)}
         gone == TimedOut(met)
     IN  /\ entries' = ((entries \ gone) \ lost) \cup {e}
         /\ old' = (old \ gone) \ lost
         /\ reply' = [q \in Req |->
                        IF q = r THEN Pending
                        ELSE IF \E f \in lost : f[3] = q /\ Current(f) THEN Dropped
                        ELSE WokenBy(gone)[q]]
  /\ pc' = [pc EXCEPT ![r] = "send"]
  /\ conn' = [conn EXCEPT ![r] = c] /\ id' = [id EXCEPT ![r] = NextId(c)]
  /\ UNCHANGED <<fresh, closed, reading, writing, netVars, attempts>>

\* send_raw: waits while the channel is full, fails once the write task has
\* ended.
Send(r) ==
  /\ pc[r] = "send"
  /\ \/ /\ conn[r] \in writing
        /\ Cardinality({f \in queued : f[1] = conn[r]}) < QueueCap
        /\ queued' = queued \cup {<<conn[r], id[r], r>>}
        /\ pc' = [pc EXCEPT ![r] = "wait"]
        /\ UNCHANGED attempts
     \/ /\ conn[r] \notin writing
        /\ AttemptFails(r)
        /\ UNCHANGED queued
  /\ UNCHANGED <<connVars, entries, old, atNode, executed, replies, conn, id, reply>>

MutantGivesUp(r) ==
  /\ pc[r] = "wait"
  /\ pc' = [pc EXCEPT ![r] = "err"]
  /\ UNCHANGED <<connVars, entries, old, netVars, attempts, conn, id, reply>>

\* resp_rx.await: a response, or an error when the sender was dropped.
Receive(r) ==
  /\ pc[r] = "wait" /\ reply[r] # Pending
  /\ \/ /\ reply[r] # Dropped
        /\ pc' = [pc EXCEPT ![r] = "ok"]
        /\ UNCHANGED attempts
     \/ /\ reply[r] = Dropped
        /\ AttemptFails(r)
  /\ UNCHANGED <<connVars, entries, old, netVars, conn, id, reply>>

-----------------------------------------------------------------------------
(* The tasks of a connection                                               *)

\* The write loop sends one frame.
Write(f) ==
  /\ f \in queued /\ f[1] \in writing
  /\ queued' = queued \ {f} /\ atNode' = atNode \cup {f}
  /\ UNCHANGED <<connVars, entries, old, executed, replies, reqVars>>

MutantStaysOpen(f) ==
  /\ f \in queued /\ f[1] \in writing
  /\ queued' = {g \in queued : g[1] # f[1]}
  /\ writing' = writing \ {f[1]}
  /\ UNCHANGED <<fresh, pool, closed, reading, issued, entries, old, atNode,
                 executed, replies, reqVars>>

\* Writing f fails, before or after the node has got it: the loop ends, and the
\* channel is dropped with its frames.
WriteFails(f) ==
  /\ f \in queued /\ f[1] \in writing
  /\ atNode' \in {atNode, atNode \cup {f}}
  /\ queued' = {g \in queued : g[1] # f[1]}
  /\ writing' = writing \ {f[1]} /\ closed' = closed \cup {f[1]}
  /\ UNCHANGED <<fresh, pool, reading, issued, entries, old, executed, replies,
                 reqVars>>

\* The node carries out a request and answers (external).
NodeAnswers(f) ==
  /\ f \in atNode
  /\ atNode' = atNode \ {f}
  /\ executed' = executed \cup {f} /\ replies' = replies \cup {f}
  /\ UNCHANGED <<connVars, entries, old, queued, reqVars>>

\* The read loop gets a response.  It goes to the request whose entry has its
\* id; without such an entry the loop ends.
Read(f) ==
  /\ f \in replies /\ f[1] \in reading
  /\ replies' = replies \ {f}
  /\ LET hit == {e \in entries : SameKey(e, f)}
     IN  /\ entries' = entries \ hit /\ old' = old \ hit
         /\ reply' = [q \in Req |->
                        IF \E e \in hit : e[3] = q /\ Current(e) THEN f[3] ELSE reply[q]]
         /\ \/ hit # {} /\ UNCHANGED <<reading, closed>>
            \/ /\ hit = {}
               /\ reading' = reading \ {f[1]} /\ closed' = closed \cup {f[1]}
  /\ UNCHANGED <<fresh, pool, writing, issued, queued, atNode, executed, pc,
                 attempts, conn, id>>

MutantReadFailsWakes(c) ==
  /\ c \in reading
  /\ reading' = reading \ {c} /\ closed' = closed \cup {c}
  /\ entries' = {e \in entries : e[1] # c} /\ old' = {e \in old : e[1] # c}
  /\ reply' = [q \in Req |-> IF \E e \in entries : e[1] = c /\ e[3] = q /\ Current(e)
                             THEN Dropped ELSE reply[q]]
  /\ UNCHANGED <<fresh, pool, writing, issued, netVars, pc, attempts, conn, id>>

\* End of stream, a read error or a malformed frame ends the read loop.
ReadFails(c) ==
  /\ c \in reading
  /\ reading' = reading \ {c} /\ closed' = closed \cup {c}
  /\ UNCHANGED <<fresh, pool, writing, issued, entries, old, netVars, reqVars>>

-----------------------------------------------------------------------------
(* The environment: sync task and time                                     *)

\* Connection::connect succeeds; the connection may replace a closed one.
Connect(c, gone) ==
  /\ c \in fresh /\ gone \subseteq pool \cap closed
  /\ fresh' = fresh \ {c}
  /\ pool' = (pool \ gone) \cup {c}
  /\ reading' = reading \cup {c} /\ writing' = writing \cup {c}
  /\ UNCHANGED <<closed, issued, entries, old, netVars, reqVars>>

\* sync_leader empties the pool.  The tasks of the connections hold on to them,
\* so nothing is closed.
LeaderChanges ==
  /\ pool # {} /\ pool' = {}
  /\ UNCHANGED <<fresh, closed, reading, writing, issued, entries, old, netVars,
                 reqVars>>

\* A call of execute() outside Req uses the connection too.  It takes an id,
\* overwrites the entry that still has it, and gets its answer.
OtherCall(c) ==
  /\ c \in pool \ closed /\ issued[c] < OtherIds
  /\ issued' = [issued EXCEPT ![c] = @ + 1]
  /\ LET lost == {f \in entries : f[1] = c /\ f[2] = NextId(c)}
     IN  /\ entries' = entries \ lost /\ old' = old \ lost
         /\ reply' = [q \in Req |-> IF \E f \in lost : f[3] = q /\ Current(f)
                                    THEN Dropped ELSE reply[q]]
  /\ UNCHANGED <<fresh, pool, closed, reading, writing, netVars, pc, attempts, conn, id>>

\* More than 2 * timeout_sec pass.
Age(e) ==
  /\ e \in entries \ old
  /\ old' = old \cup {e}
  /\ UNCHANGED <<connVars, entries, netVars, reqVars>>

-----------------------------------------------------------------------------
Pick(r) ==
  \E met \in SUBSET MayMeet : PickNone(r, met) \/ \E c \in Conn : PickConn(r, met, c)

Next ==
  \/ \E r \in Req : Reject(r) \/ Call(r) \/ Pick(r) \/ Send(r) \/ Receive(r)
  \/ \E f \in queued : Write(f) \/ WriteFails(f)
  \/ \E f \in atNode : NodeAnswers(f)
  \/ \E f \in replies : Read(f)
  \/ \E e \in entries : Age(e)
  \/ \E c \in Conn : ReadFails(c) \/ OtherCall(c)
  \/ \E c \in Conn : \E gone \in SUBSET (pool \cap closed) : Connect(c, gone)
  \/ LeaderChanges

Spec == Init /\ [][Next]_vars

\* A request and the read task of a connection run on, and so does time.  That
\* next_*_conn returns (Pick) is what ClusterHandler shows of it, short of the
\* deadlock of its locks.
FairSpec ==
  /\ Spec
  /\ \A r \in Req : WF_vars(Pick(r)) /\ WF_vars(Send(r)) /\ WF_vars(Receive(r))
  /\ \A c \in Conn : WF_vars(\E f \in replies : f[1] = c /\ Read(f))
  /\ WF_vars(\E e \in entries : Age(e))

\* The nodes read what is sent to them, so that write_all (which has no timeout)
\* comes to an end, and they answer.
NodesAnswerSpec ==
  /\ FairSpec
  /\ \A c \in Conn : WF_vars(\E f \in queued : f[1] = c /\ Write(f))
  /\ WF_vars(\E f \in atNode : NodeAnswers(f))

-----------------------------------------------------------------------------
(* Properties                                                              *)

\* The state of requests, connections and demux maps has its type.
TypeOK ==
  /\ fresh \subseteq Conn /\ pool \subseteq Conn \ fresh
  /\ closed \subseteq Conn \ fresh /\ reading \subseteq Conn \ fresh
  /\ writing \subseteq Conn \ fresh
  /\ issued \in [Conn -> Nat]
  /\ entries \subseteq Frame /\ old \subseteq entries
  /\ queued \subseteq Frame /\ atNode \subseteq Frame
  /\ executed \subseteq Frame /\ replies \subseteq Frame
  /\ pc \in [Req -> {"idle", "pick", "send", "wait", "ok", "err"}]
  /\ attempts \in [Req -> 0 .. MaxAttempts]
  /\ \A r \in Req : attempts[r] = MaxAttempts => pc[r] = "err"
  /\ conn \in [Req -> Conn \cup {NoConn}] /\ id \in [Req -> Ids]
  /\ \A r \in Req : pc[r] \in {"send", "wait"} => conn[r] \in Conn
  /\ reply \in [Req -> Req \cup {Pending, Dropped, Empty}]

\* No connection has gone through all its correlation ids.
NoWrap == \A c \in Conn : issued[c] <= IdSpace

\* A request gets the answer to itself, or the empty one of cleanup: two
\* requests that share a connection, retries, clean-ups and late responses never
\* mix up answers, as long as no correlation id is used twice.
ResponseIsOwn ==
  NoWrap => \A r \in Req : pc[r] = "ok" => reply[r] \in {r, Empty}

\* A node carries out a request at most once: execute() retries only while the
\* frame has not been handed to a connection.
AtMostOnce ==
  NoWrap => \A f, g \in executed : f[3] = g[3] => f = g

\* An error returned by execute() means that no node has carried out the
\* request, or ever will: the client may safely send it again.
ErrorMeansNotExecuted ==
  NoWrap => \A f \in queued \cup atNode \cup executed : pc[f[3]] # "err"

\* A response finds the entry of its request unless its connection was closed
\* before: entries are stored before the frame is sent and cleaned up on closed
\* connections only, so a late answer never tears down a good connection.
ResponseFindsEntry ==
  NoWrap => \A f \in replies : f \in entries \/ f[1] \in closed

\* If the nodes read and answer, no request waits on a living connection for
\* ever, whoever else uses the connection, whether or not its id is taken again
\* meanwhile, and also when a leader change has dropped the connection from the
\* pool: its tasks go on, and the answer comes over it.
AnsweredUnlessClosed ==
  \A r \in Req : pc[r] = "wait" ~> (pc[r] \in {"ok", "err"} \/ conn[r] \in closed)

\* If the nodes read what is sent to them, the retry loop does not go on for
\* ever, nor does the wait for room in the channel: a call ends, or its frame is
\* on its way and it waits for the response.
LoopSettles == \A r \in Req : pc[r] = "pick" ~> pc[r] \in {"wait", "ok", "err"}

-----------------------------------------------------------------------------
(* The abstract specification that execute() implements                    *)

\* How often the nodes have carried out r: never, once, or (2) more often.
TimesExecuted(r) ==
  IF \A f \in executed : f[3] # r THEN 0
  ELSE IF \A f, g \in executed : f[3] = r /\ g[3] = r => f = g THEN 1 ELSE 2

Phase(r) ==
  CASE pc[r] \in {"pick", "send"} -> "open"
    [] pc[r] = "wait" -> "handed"
    [] OTHER -> pc[r]

Reply == INSTANCE RequestReply WITH
           phase <- [r \in Req |-> Phase(r)],
           times <- [r \in Req |-> TimesExecuted(r)],
           answer <- [r \in Req |-> IF pc[r] = "ok" THEN reply[r] ELSE Pending]

\* execute() keeps its promise: behind retries, shared connections, clean-ups
\* and late responses, each request is handed over at most once, carried out at
\* most once, and never after an error; an answer that is not empty is its own
\* and comes after it was carried out.
KeepsPromise == Reply!Spec

-----------------------------------------------------------------------------
(* What comments and documentation say, and the code does not do           *)

\* cluster_handler.rs:145, "In-flight requests on them will fail and be retried
\* by `execute`", cluster_handler.rs:483, "oneshot dropped -> timeout / connection
\* closed", and config.rs:71, "Request timeout in seconds": a request that waits
\* on a connection which a leader change has dropped and which is closed does not
\* wait for ever.
LostRequestEnds ==
  \A r \in Req : (pc[r] = "wait" /\ conn[r] \in closed \ pool) ~> pc[r] # "wait"

=============================================================================
