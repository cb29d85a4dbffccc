------------------------- MODULE RequestPathProofs --------------------------
(***************************************************************************)
(* Proofs about RequestPath, for any number of requests, connections and   *)
(* correlation ids.                                                        *)
(***************************************************************************)
EXTENDS RequestPath, TLAPS

\* The frames that some node has, had or may get.
Sent == queued \cup atNode \cup executed \cup replies

\* The key under which a request has just stored its sender.
Attempt(r) == <<conn[r], id[r], r>>

\* Everything that carries a correlation id.
Known == entries \cup Sent \cup {Attempt(r) : r \in {q \in Req : pc[q] = "send"}}

\* Ids in use have been issued, and an id belongs to one request.
IdsIssued == \A f \in Known : f[2] < issued[f[1]]
OneOwner == \A f, g \in Known : SameKey(f, g) => f = g

\* A frame is sent by the last attempt of a request that does not try again.
SentByLast == \A f \in Sent : pc[f[3]] \in {"wait", "ok"} /\ f = Attempt(f[3])

\* A frame moves from the channel to the node and back, and is nowhere twice.
InOnePlace ==
  /\ queued \cap (atNode \cup executed) = {}
  /\ atNode \cap executed = {} /\ replies \subseteq executed

\* The channel of a request never has the answer to another one.
OwnReply == \A r \in Req : reply[r] \in {Pending, Empty, r}

\* A request that has returned a response has had one.
OkAnswered == \A r \in Req : pc[r] = "ok" => reply[r] # Pending

\* A channel that holds an answer holds that of a request carried out.
AnswerExecuted ==
  /\ replies \subseteq executed
  /\ \A r \in Req : reply[r] = r => \E f \in executed : f[3] = r

\* Until the answer is read the entry is there, or the connection has closed.
EntryKept ==
  \A f \in queued \cup atNode \cup replies
             \cup {Attempt(r) : r \in {q \in Req : pc[q] = "send"}} :
     f \in entries \/ f[1] \in closed

PathInv ==
  /\ IdsIssued /\ OneOwner /\ SentByLast /\ InOnePlace /\ OwnReply /\ EntryKept

IInv == TypeOK /\ OkAnswered /\ AnswerExecuted /\ (NoWrap => PathInv)

-----------------------------------------------------------------------------
LEMMA ModSmall == ASSUME NEW k \in Nat, NEW n \in Nat \ {0}, k < n PROVE k % n = k
  OBVIOUS

LEMMA NextIdType ==
  ASSUME TypeOK, NEW c \in Conn PROVE NextId(c) \in Ids
  BY IdSpaceAssumption DEF TypeOK, NextId, Ids

LEMMA AttemptsType ==
  ASSUME TypeOK, NEW r \in Req, pc[r] # "err", AttemptFails(r)
  PROVE  /\ attempts' \in [Req -> 0 .. MaxAttempts]
         /\ pc' \in [Req -> {"idle", "pick", "send", "wait", "ok", "err"}]
         /\ \A q \in Req : attempts'[q] = MaxAttempts => pc'[q] = "err"
         /\ \A q \in Req : pc'[q] \in {"send", "wait"} => pc'[q] = pc[q]
  BY DEF TypeOK, AttemptFails, MaxAttempts

\* What the clean-up of the connections met leaves of the demux maps.
LEMMA CleanupType ==
  ASSUME TypeOK, NEW met
  PROVE  /\ TimedOut(met) \subseteq entries
         /\ old \ TimedOut(met) \subseteq entries \ TimedOut(met)
         /\ WokenBy(TimedOut(met)) \in [Req -> Req \cup {Pending, Dropped, Empty}]
  BY DEF TypeOK, TimedOut, WokenBy

LEMMA TypeInit == Init => TypeOK
  BY IdSpaceAssumption DEF Init, TypeOK, Ids, MaxAttempts

LEMMA TypeStep == TypeOK /\ [Next]_vars => TypeOK'
  <1> SUFFICES ASSUME TypeOK, [Next]_vars PROVE TypeOK'
      OBVIOUS
  <1>1. ASSUME NEW r \in Req, Reject(r) \/ Call(r) PROVE TypeOK'
    BY <1>1 DEF TypeOK, Reject, Call, connVars, netVars, MaxAttempts
  <1>2. ASSUME NEW r \in Req, NEW met, PickNone(r, met) PROVE TypeOK'
    <2>1. pool' \subseteq Conn \ fresh
      BY <1>2 DEF TypeOK, PickNone, PoolAfter
    <2> QED
      BY <1>2, <2>1, AttemptsType, CleanupType DEF TypeOK, PickNone, netVars
  <1>3. ASSUME NEW r \in Req, NEW met, NEW c \in Conn, PickConn(r, met, c)
        PROVE  TypeOK'
    <2> DEFINE e == <<c, NextId(c), r>>
               lost == {f \in entries : SameKey(e, f)}
               gone == TimedOut(met)
    <2>1. /\ entries' = ((entries \ gone) \ lost) \cup {e}
          /\ old' = (old \ gone) \ lost
          /\ reply' = [q \in Req |->
                        IF q = r THEN Pending
                        ELSE IF \E f \in lost : f[3] = q /\ Current(f) THEN Dropped
                        ELSE WokenBy(gone)[q]]
      BY <1>3 DEF PickConn
    <2>2. entries' \subseteq Frame /\ old' \subseteq entries'
      BY <2>1, NextIdType DEF TypeOK, Frame
    <2>3. reply' \in [Req -> Req \cup {Pending, Dropped, Empty}]
      <3> HIDE DEF lost, gone
      <3>1. WokenBy(gone) \in [Req -> Req \cup {Pending, Dropped, Empty}]
        BY CleanupType DEF gone
      <3> QED  BY <2>1, <3>1
    <2>4. pool' \subseteq Conn \ fresh
      BY <1>3 DEF TypeOK, PickConn, PoolAfter
    <2>5. issued' \in [Conn -> Nat] /\ conn' \in [Req -> Conn \cup {NoConn}]
          /\ id' \in [Req -> Ids]
      BY <1>3, NextIdType DEF TypeOK, PickConn
    <2>6. /\ pc' \in [Req -> {"idle", "pick", "send", "wait", "ok", "err"}]
          /\ \A q \in Req : attempts'[q] = MaxAttempts => pc'[q] = "err"
          /\ \A q \in Req : pc'[q] \in {"send", "wait"} => conn'[q] \in Conn
      BY <1>3 DEF TypeOK, PickConn
    <2> QED
      BY <1>3, <2>2, <2>3, <2>4, <2>5, <2>6 DEF TypeOK, PickConn, netVars
  <1>4. ASSUME NEW r \in Req, Send(r) PROVE TypeOK'
    <2>1. CASE conn[r] \in writing
      <3>1. queued' \subseteq Frame
        BY <1>4, <2>1 DEF TypeOK, Send, Frame
      <3> QED  BY <1>4, <2>1, <3>1 DEF TypeOK, Send, connVars
    <2>2. CASE conn[r] \notin writing
      BY <1>4, <2>2, AttemptsType DEF TypeOK, Send, connVars
    <2> QED  BY <2>1, <2>2
  <1>5. ASSUME NEW r \in Req, Receive(r) PROVE TypeOK'
    <2>1. CASE reply[r] # Dropped
      BY <1>5, <2>1 DEF TypeOK, Receive, connVars, netVars
    <2>2. CASE reply[r] = Dropped
      BY <1>5, <2>2, AttemptsType DEF TypeOK, Receive, connVars, netVars
    <2> QED  BY <2>1, <2>2
  <1>6. ASSUME NEW f \in queued, Write(f) \/ WriteFails(f) PROVE TypeOK'
    BY <1>6 DEF TypeOK, Write, WriteFails, connVars, reqVars, Frame
  <1>7. ASSUME NEW f \in atNode, NodeAnswers(f) PROVE TypeOK'
    BY <1>7 DEF TypeOK, NodeAnswers, connVars, reqVars
  <1>8. ASSUME NEW f \in replies, Read(f) PROVE TypeOK'
    <2>1. f[1] \in Conn /\ f[3] \in Req
      BY DEF TypeOK, Frame
    <2>2. reply' \in [Req -> Req \cup {Pending, Dropped, Empty}]
      BY <1>8, <2>1 DEF TypeOK, Read
    <2>3. reading' \subseteq Conn \ fresh /\ closed' \subseteq Conn \ fresh
      BY <1>8, <2>1 DEF TypeOK, Read
    <2>4. entries' \subseteq Frame /\ old' \subseteq entries'
      BY <1>8 DEF TypeOK, Read
    <2> QED  BY <1>8, <2>2, <2>3, <2>4 DEF TypeOK, Read
  <1>9. ASSUME NEW e \in entries, Age(e) PROVE TypeOK'
    BY <1>9 DEF TypeOK, Age, connVars, netVars, reqVars
  <1>10. ASSUME NEW c \in Conn, ReadFails(c) PROVE TypeOK'
    BY <1>10 DEF TypeOK, ReadFails, netVars, reqVars
  <1>11. ASSUME NEW c \in Conn, NEW gone, Connect(c, gone) PROVE TypeOK'
    BY <1>11 DEF TypeOK, Connect, netVars, reqVars
  <1>12. ASSUME LeaderChanges PROVE TypeOK'
    BY <1>12 DEF TypeOK, LeaderChanges, netVars, reqVars
  <1>13. ASSUME NEW c \in Conn, OtherCall(c) PROVE TypeOK'
    BY <1>13 DEF TypeOK, OtherCall, netVars
  <1>14. CASE UNCHANGED vars
    BY <1>14 DEF TypeOK, vars, connVars, netVars, reqVars
  <1> QED
    BY <1>1, <1>2, <1>3, <1>4, <1>5, <1>6, <1>7, <1>8, <1>9, <1>10, <1>11, <1>12,
       <1>13, <1>14 DEF Next, Pick

-----------------------------------------------------------------------------
LEMMA PathInit == Init => PathInv
  BY DEF Init, PathInv, IdsIssued, OneOwner, SentByLast, InOnePlace, OwnReply,
         EntryKept, Known, Sent

\* A step that issues no id keeps the ids apart if it introduces no new key.
LEMMA NoNewIds ==
  ASSUME IdsIssued, OneOwner, Known' \subseteq Known, UNCHANGED issued
  PROVE  IdsIssued' /\ OneOwner'
  BY DEF IdsIssued, OneOwner, SameKey

\* The clean-up of closed connections wakes requests with an empty response.
LEMMA CleanupKeeps ==
  ASSUME TypeOK, OwnReply, NEW met, met \subseteq MayMeet
  PROVE  /\ \A q \in Req : WokenBy(TimedOut(met))[q] \in {Pending, Empty, q}
         /\ \A f \in entries : f \in entries \ TimedOut(met) \/ f[1] \in closed
  BY DEF TypeOK, OwnReply, MayMeet, TimedOut, WokenBy

\* A request whose attempt failed before it was sent has nothing in transit.
LEMMA FailKeeps ==
  ASSUME TypeOK, SentByLast, NEW r \in Req, pc[r] \in {"pick", "send"},
         AttemptFails(r), UNCHANGED <<netVars, conn, id>>
  PROVE  /\ SentByLast'
         /\ {q \in Req : pc'[q] = "send"} \subseteq {q \in Req : pc[q] = "send"}
  BY DEF TypeOK, SentByLast, Sent, Attempt, AttemptFails, netVars, Frame

LEMMA OkStep == TypeOK /\ OkAnswered /\ [Next]_vars => OkAnswered'
  <1> SUFFICES ASSUME TypeOK, OkAnswered, [Next]_vars, NEW q \in Req, pc'[q] = "ok"
               PROVE  reply'[q] # Pending
      BY DEF OkAnswered
  <1>1. ASSUME NEW r \in Req, Receive(r) PROVE reply'[q] # Pending
    BY <1>1 DEF OkAnswered, TypeOK, Receive, AttemptFails
  <1>2. ASSUME NEW r \in Req, Reject(r) \/ Call(r) \/ Send(r) PROVE reply'[q] # Pending
    BY <1>2 DEF OkAnswered, TypeOK, Reject, Call, Send, AttemptFails
  <1>3. ASSUME NEW gone, pc[q] = "ok" PROVE WokenBy(gone)[q] # Pending
    BY <1>3, ChannelAssumption DEF OkAnswered, WokenBy
  <1>4. ASSUME NEW r \in Req, NEW met, PickNone(r, met) PROVE reply'[q] # Pending
    <2>1. pc[q] = "ok"
      BY <1>4 DEF PickNone, AttemptFails, TypeOK
    <2> QED  BY <1>3, <1>4, <2>1 DEF PickNone
  <1>5. ASSUME NEW r \in Req, NEW met, NEW c \in Conn, PickConn(r, met, c)
        PROVE  reply'[q] # Pending
    <2>1. pc[q] = "ok" /\ q # r
      BY <1>5 DEF PickConn, TypeOK
    <2>2. reply'[q] \in {Dropped, WokenBy(TimedOut(met))[q]}
      BY <1>5, <2>1 DEF PickConn
    <2> QED  BY <1>3, <2>1, <2>2, ChannelAssumption
  <1>6. ASSUME NEW f \in replies, Read(f) PROVE reply'[q] # Pending
    <2>1. pc[q] = "ok" /\ f[3] # Pending
      BY <1>6, ChannelAssumption DEF Read, TypeOK, Frame
    <2> QED  BY <1>6, <2>1 DEF OkAnswered, Read
  <1>7. ASSUME NEW c \in Conn, OtherCall(c) PROVE reply'[q] # Pending
    BY <1>7, ChannelAssumption DEF OkAnswered, OtherCall
  <1>8. CASE UNCHANGED <<pc, reply>>
    BY <1>8 DEF OkAnswered
  <1> QED
    BY <1>1, <1>2, <1>4, <1>5, <1>6, <1>7, <1>8
       DEF Next, Pick, Write, WriteFails, NodeAnswers, Age, ReadFails, Connect,
           LeaderChanges, vars, reqVars

LEMMA AnswerStep == TypeOK /\ AnswerExecuted /\ [Next]_vars => AnswerExecuted'
  <1> SUFFICES ASSUME TypeOK, AnswerExecuted, [Next]_vars PROVE AnswerExecuted'
      OBVIOUS
  <1>1. replies' \subseteq executed' /\ executed \subseteq executed'
    <2>1. ASSUME NEW f, NodeAnswers(f)
          PROVE  replies' \subseteq executed' /\ executed \subseteq executed'
      BY <2>1 DEF AnswerExecuted, NodeAnswers
    <2>2. ASSUME NEW f, Read(f)
          PROVE  replies' \subseteq executed' /\ executed \subseteq executed'
      BY <2>2 DEF AnswerExecuted, Read
    <2>3. ASSUME NEW r \in Req, Pick(r) PROVE UNCHANGED <<replies, executed>>
      BY <2>3 DEF Pick, PickNone, PickConn, netVars
    <2>4. ASSUME NEW r \in Req, Reject(r) \/ Call(r) \/ Send(r) \/ Receive(r)
          PROVE  UNCHANGED <<replies, executed>>
      BY <2>4 DEF Reject, Call, Send, Receive, netVars
    <2>5. ASSUME NEW f, Write(f) \/ WriteFails(f)
          PROVE  UNCHANGED <<replies, executed>>
      BY <2>5 DEF Write, WriteFails
    <2>6. CASE UNCHANGED <<replies, executed>>
      BY <2>6 DEF AnswerExecuted
    <2> QED
      BY <2>1, <2>2, <2>3, <2>4, <2>5, <2>6
         DEF Next, Age, ReadFails, OtherCall, Connect, LeaderChanges, vars, netVars
  <1>2. ASSUME NEW q \in Req, reply'[q] = q PROVE \E f \in executed : f[3] = q
    <2>1. q # Pending /\ q # Dropped /\ q # Empty
      BY ChannelAssumption
    <2>2. ASSUME NEW gone, WokenBy(gone)[q] = q PROVE reply[q] = q
      BY <2>1, <2>2 DEF WokenBy
    <2>3. ASSUME NEW r \in Req, NEW met, PickNone(r, met) PROVE reply[q] = q
      BY <1>2, <2>2, <2>3 DEF PickNone
    <2>4. ASSUME NEW r \in Req, NEW met, NEW c \in Conn, PickConn(r, met, c)
          PROVE  reply[q] = q
      <3>1. reply'[q] \in {Pending, Dropped, WokenBy(TimedOut(met))[q]}
        BY <2>4 DEF PickConn
      <3> QED  BY <1>2, <2>1, <2>2, <3>1
    <2>5. ASSUME NEW f \in replies, Read(f) PROVE reply[q] = q \/ f[3] = q
      BY <1>2, <2>5 DEF Read
    <2>6. ASSUME NEW c \in Conn, OtherCall(c) PROVE reply[q] = q
      BY <1>2, <2>1, <2>6 DEF OtherCall
    <2>7. CASE UNCHANGED reply
      BY <1>2, <2>7 DEF AnswerExecuted
    <2> QED
      BY <1>2, <2>3, <2>4, <2>5, <2>6, <2>7
         DEF AnswerExecuted, Next, Pick, Reject, Call, Send, Receive, Write, WriteFails,
             NodeAnswers, Age, ReadFails, Connect, LeaderChanges, vars, reqVars
  <1> QED  BY <1>1, <1>2 DEF AnswerExecuted

LEMMA IssuedGrows ==
  ASSUME TypeOK, [Next]_vars, NEW c \in Conn PROVE issued[c] <= issued'[c]
  <1>1. CASE \E r \in Req : Pick(r)
    <2>1. PICK r \in Req, met \in SUBSET MayMeet :
            PickNone(r, met) \/ \E d \in Conn : PickConn(r, met, d)
      BY <1>1 DEF Pick
    <2>2. CASE PickNone(r, met)
      BY <2>2 DEF PickNone, TypeOK
    <2>3. CASE \E d \in Conn : PickConn(r, met, d)
      BY <2>3 DEF PickConn, TypeOK
    <2> QED  BY <2>1, <2>2, <2>3
  <1>3. CASE \E d \in Conn : OtherCall(d)
    BY <1>3 DEF OtherCall, TypeOK
  <1>2. CASE ~(\E r \in Req : Pick(r)) /\ ~(\E d \in Conn : OtherCall(d))
    <2>1. UNCHANGED issued
      BY <1>2 DEF Next, Reject, Call, Send, Receive, Write, WriteFails, NodeAnswers,
                  Read, Age, ReadFails, Connect, LeaderChanges, vars, connVars
    <2> QED  BY <2>1 DEF TypeOK
  <1> QED  BY <1>1, <1>2, <1>3

LEMMA PathStep ==
  TypeOK /\ PathInv /\ NoWrap' /\ [Next]_vars => PathInv'
  <1> SUFFICES ASSUME TypeOK, PathInv, NoWrap', [Next]_vars PROVE PathInv'
      OBVIOUS
  <1> USE DEF PathInv
  <1>1. ASSUME NEW r \in Req, Reject(r) \/ Call(r) PROVE PathInv'
    <2>1. {q \in Req : pc'[q] = "send"} = {q \in Req : pc[q] = "send"}
      BY <1>1 DEF Reject, Call, TypeOK
    <2>2. SentByLast'
      BY <1>1 DEF Reject, Call, TypeOK, SentByLast, Sent, Attempt, netVars, Frame
    <2>3. Known' = Known /\ EntryKept'
      BY <1>1, <2>1 DEF Reject, Call, Known, Sent, Attempt, EntryKept, connVars, netVars
    <2>4. InOnePlace' /\ OwnReply' /\ UNCHANGED issued
      BY <1>1 DEF Reject, Call, InOnePlace, OwnReply, netVars, connVars
    <2> QED  BY <2>2, <2>3, <2>4, NoNewIds
  <1>2. ASSUME NEW r \in Req, NEW met, PickNone(r, met) PROVE PathInv'
    <2> USE <1>2 DEF PickNone
    <2>1. SentByLast' /\ {q \in Req : pc'[q] = "send"} \subseteq {q \in Req : pc[q] = "send"}
      BY FailKeeps
    <2>2. Known' \subseteq Known
      BY <2>1 DEF Known, Sent, Attempt, netVars
    <2>3. InOnePlace' /\ OwnReply'
      BY CleanupKeeps DEF InOnePlace, OwnReply, netVars
    <2>4. EntryKept'
      <3>1. entries' = entries \ TimedOut(met) /\ UNCHANGED <<closed, conn, id, queued, atNode, replies>>
        BY DEF netVars
      <3>2. \A f \in entries : f \in entries' \/ f[1] \in closed'
        BY <3>1, CleanupKeeps
      <3>3. {Attempt(q) : q \in {p \in Req : pc[p] = "send"}}'
              \subseteq {Attempt(q) : q \in {p \in Req : pc[p] = "send"}}
        BY <2>1, <3>1 DEF Attempt
      <3> QED  BY <3>1, <3>2, <3>3 DEF EntryKept
    <2> QED  BY <2>1, <2>2, <2>3, <2>4, NoNewIds
  <1>4. ASSUME NEW r \in Req, Send(r) PROVE PathInv'
    <2> USE <1>4 DEF Send
    <2>1. CASE conn[r] \in writing
      <3>1. /\ queued' = queued \cup {Attempt(r)}
            /\ pc' = [pc EXCEPT ![r] = "wait"]
            /\ UNCHANGED <<atNode, executed, replies, conn, id, entries, closed, issued, reply>>
        BY <2>1 DEF Attempt, connVars
      <3>2. {q \in Req : pc'[q] = "send"} \subseteq {q \in Req : pc[q] = "send"}
        BY <3>1 DEF TypeOK
      <3>3. Known' \subseteq Known
        BY <3>1, <3>2 DEF Known, Sent, Attempt
      <3>4. SentByLast'
        BY <3>1 DEF SentByLast, Sent, Attempt, TypeOK
      <3>5. InOnePlace'
        BY <3>1 DEF InOnePlace, SentByLast, Sent, Attempt
      <3>6. EntryKept'
        BY <3>1, <3>2 DEF EntryKept, Attempt
      <3> QED  BY <3>1, <3>3, <3>4, <3>5, <3>6, NoNewIds DEF OwnReply
    <2>2. CASE conn[r] \notin writing
      <3>1. SentByLast' /\ {q \in Req : pc'[q] = "send"} \subseteq {q \in Req : pc[q] = "send"}
        BY <2>2, FailKeeps DEF netVars
      <3>2. Known' \subseteq Known
        BY <2>2, <3>1 DEF Known, Sent, Attempt
      <3>3. InOnePlace' /\ OwnReply' /\ EntryKept'
        BY <2>2, <3>1 DEF InOnePlace, OwnReply, EntryKept, Attempt, connVars
      <3> QED  BY <3>1, <3>2, <3>3, NoNewIds DEF connVars
    <2> QED  BY <2>1, <2>2
  <1>5. ASSUME NEW r \in Req, Receive(r) PROVE PathInv'
    <2> USE <1>5 DEF Receive
    <2>1. pc' = [pc EXCEPT ![r] = "ok"]
      BY ChannelAssumption DEF OwnReply
    <2>2. {q \in Req : pc'[q] = "send"} = {q \in Req : pc[q] = "send"}
      BY <2>1 DEF TypeOK
    <2>3. SentByLast'
      BY <2>1 DEF TypeOK, SentByLast, Sent, Attempt, netVars
    <2>4. Known' = Known /\ EntryKept'
      BY <2>2 DEF Known, Sent, Attempt, EntryKept, connVars, netVars
    <2>5. InOnePlace' /\ OwnReply' /\ UNCHANGED issued
      BY DEF InOnePlace, OwnReply, netVars, connVars
    <2> QED  BY <2>3, <2>4, <2>5, NoNewIds
  <1>3. ASSUME NEW r \in Req, NEW met, NEW c \in Conn, PickConn(r, met, c)
        PROVE  PathInv'
    <2> DEFINE e == <<c, issued[c], r>>
               gone == TimedOut(met)
    <2>1. NextId(c) = issued[c] /\ issued' = [issued EXCEPT ![c] = @ + 1]
      <3>1. issued' = [issued EXCEPT ![c] = @ + 1] /\ issued'[c] <= IdSpace
        BY <1>3 DEF PickConn, NoWrap
      <3> QED
        BY <3>1, ModSmall, IdSpaceAssumption DEF NextId, TypeOK
    <2>2. {f \in entries : SameKey(<<c, NextId(c), r>>, f)} = {}
      BY <2>1 DEF SameKey, IdsIssued, Known, TypeOK
    <2>3. /\ entries' = (entries \ gone) \cup {e}
          /\ reply' = [q \in Req |-> IF q = r THEN Pending ELSE WokenBy(gone)[q]]
      BY <1>3, <2>1, <2>2 DEF PickConn
    <2>4. /\ pc' = [pc EXCEPT ![r] = "send"] /\ conn' = [conn EXCEPT ![r] = c]
          /\ id' = [id EXCEPT ![r] = issued[c]] /\ UNCHANGED <<netVars, closed>>
          /\ pc[r] = "pick" /\ met \subseteq MayMeet
      BY <1>3, <2>1 DEF PickConn
    <2> HIDE DEF gone
    <2>5. {Attempt(q)' : q \in {q \in Req : pc'[q] = "send"}} \subseteq
             {Attempt(q) : q \in {q \in Req : pc[q] = "send"}} \cup {e}
      BY <2>4 DEF TypeOK, Attempt
    <2>6. Known' \subseteq Known \cup {e}
      BY <2>3, <2>4, <2>5 DEF Known, Sent, netVars
    <2>7. \A f \in Known : f[1] = c => f[2] < issued[c]
      BY DEF IdsIssued
    <2>8. \A f \in Known : f[1] \in Conn /\ f[2] \in Ids
      BY DEF Known, Sent, TypeOK, Attempt, Frame
    <2>9. IdsIssued'
      BY <2>1, <2>6, <2>8 DEF IdsIssued, TypeOK, Ids
    <2>14. OneOwner'
      BY <2>6, <2>7, <2>8 DEF OneOwner, SameKey, TypeOK, Ids
    <2>10. SentByLast'
      BY <2>4 DEF SentByLast, Sent, Attempt, TypeOK, netVars, Frame
    <2>11. InOnePlace'
      BY <2>4 DEF InOnePlace, netVars
    <2>12. OwnReply'
      BY <2>3, <2>4, CleanupKeeps DEF OwnReply, gone
    <2>13. EntryKept'
      BY <2>3, <2>4, <2>5, CleanupKeeps DEF EntryKept, netVars, gone
    <2> QED  BY <2>9, <2>10, <2>11, <2>12, <2>13, <2>14
  <1>6. ASSUME NEW f \in queued, Write(f) \/ WriteFails(f) PROVE PathInv'
    <2>1. /\ queued' \subseteq queued \ {f} /\ atNode' \subseteq atNode \cup {f}
          /\ closed \subseteq closed'
          /\ UNCHANGED <<executed, replies, entries, pc, conn, id, reply, issued>>
      BY <1>6 DEF Write, WriteFails, connVars, reqVars
    <2>2. Known' \subseteq Known /\ Sent' \subseteq Sent
      BY <2>1 DEF Known, Sent, Attempt
    <2>3. SentByLast' /\ InOnePlace' /\ OwnReply'
      BY <2>1, <2>2 DEF SentByLast, InOnePlace, OwnReply, Attempt
    <2>4. EntryKept'
      BY <2>1 DEF EntryKept, Attempt
    <2> QED  BY <2>1, <2>2, <2>3, <2>4, NoNewIds
  <1>7. ASSUME NEW f \in atNode, NodeAnswers(f) PROVE PathInv'
    <2>1. /\ atNode' = atNode \ {f} /\ executed' = executed \cup {f}
          /\ replies' = replies \cup {f}
          /\ UNCHANGED <<queued, closed, entries, pc, conn, id, reply, issued>>
      BY <1>7 DEF NodeAnswers, connVars, reqVars
    <2>2. Known' \subseteq Known /\ Sent' \subseteq Sent
      BY <2>1 DEF Known, Sent, Attempt
    <2>3. SentByLast' /\ InOnePlace' /\ OwnReply'
      BY <2>1, <2>2 DEF SentByLast, InOnePlace, OwnReply, Attempt
    <2>4. EntryKept'
      BY <2>1 DEF EntryKept, Attempt
    <2> QED  BY <2>1, <2>2, <2>3, <2>4, NoNewIds
  <1>8. ASSUME NEW f \in replies, Read(f) PROVE PathInv'
    <2>1. \A g \in entries : SameKey(g, f) => g = f
      BY DEF OneOwner, Known, Sent
    <2>2. /\ replies' = replies \ {f} /\ entries' = entries \ {f}
          /\ closed \subseteq closed'
          /\ UNCHANGED <<queued, atNode, executed, pc, conn, id, issued>>
      BY <1>8, <2>1 DEF Read, SameKey
    <2>3. OwnReply'
      BY <1>8, <2>1 DEF OwnReply, Read
    <2>4. Known' \subseteq Known /\ Sent' \subseteq Sent
      BY <2>2 DEF Known, Sent, Attempt
    <2>5. SentByLast' /\ InOnePlace'
      BY <2>2, <2>4 DEF SentByLast, InOnePlace, Attempt
    <2>6. f \notin queued \cup atNode
      BY DEF InOnePlace
    <2>7. \A q \in Req : pc[q] = "send" => Attempt(q) # f
      BY DEF SentByLast, Sent, Attempt
    <2>8. EntryKept'
      BY <2>2, <2>6, <2>7 DEF EntryKept, Attempt
    <2> QED  BY <2>2, <2>3, <2>4, <2>5, <2>8, NoNewIds
  <1>9. CASE \/ \E e \in entries : Age(e)
             \/ \E c \in Conn : ReadFails(c)
             \/ \E c \in Conn : \E gone \in SUBSET (pool \cap closed) : Connect(c, gone)
             \/ LeaderChanges
             \/ UNCHANGED vars
    <2>1. closed \subseteq closed' /\ UNCHANGED <<issued, entries, netVars, reqVars>>
      BY <1>9 DEF Age, ReadFails, Connect, LeaderChanges, vars, connVars
    <2>2. Known' = Known /\ Sent' = Sent
      BY <2>1 DEF Known, Sent, Attempt, netVars, reqVars
    <2>3. SentByLast' /\ InOnePlace' /\ OwnReply'
      BY <2>1, <2>2 DEF SentByLast, InOnePlace, OwnReply, Attempt, netVars, reqVars
    <2>4. EntryKept'
      BY <2>1 DEF EntryKept, Attempt, netVars, reqVars
    <2> QED  BY <2>1, <2>2, <2>3, <2>4, NoNewIds
  <1>10. ASSUME NEW c \in Conn, OtherCall(c) PROVE PathInv'
    <2>1. NextId(c) = issued[c] /\ issued' = [issued EXCEPT ![c] = @ + 1]
      <3>1. issued' = [issued EXCEPT ![c] = @ + 1] /\ issued'[c] <= IdSpace
        BY <1>10 DEF OtherCall, NoWrap
      <3> QED
        BY <3>1, ModSmall, IdSpaceAssumption DEF NextId, TypeOK
    <2>2. {f \in entries : f[1] = c /\ f[2] = NextId(c)} = {}
      BY <2>1 DEF IdsIssued, Known, TypeOK
    <2>3. reply' = reply /\ UNCHANGED <<entries, closed, netVars, pc, conn, id>>
      BY <1>10, <2>2 DEF OtherCall, TypeOK
    <2>4. Known' = Known /\ Sent' = Sent
      BY <2>3 DEF Known, Sent, Attempt, netVars
    <2>5. \A f \in Known : f[1] \in Conn /\ f[2] \in Ids
      BY DEF Known, Sent, TypeOK, Attempt, Frame
    <2>6. IdsIssued' /\ OneOwner'
      BY <2>1, <2>4, <2>5 DEF IdsIssued, OneOwner, SameKey, TypeOK, Ids
    <2>7. SentByLast' /\ InOnePlace' /\ OwnReply'
      BY <2>3, <2>4 DEF SentByLast, InOnePlace, OwnReply, Attempt, netVars
    <2>8. EntryKept'
      BY <2>3 DEF EntryKept, Attempt, netVars
    <2> QED  BY <2>6, <2>7, <2>8
  <1> QED
    BY <1>1, <1>2, <1>3, <1>4, <1>5, <1>6, <1>7, <1>8, <1>9, <1>10 DEF Next, Pick

-----------------------------------------------------------------------------
(* The results                                                             *)

\* The inductive invariant of RequestPath: types, and, while no correlation id
\* has been used twice, the relation between entries, frames and requests.
THEOREM Invariance == Spec => []IInv
  <1>1. Init => IInv
    BY TypeInit, PathInit, ChannelAssumption DEF IInv, Init, OkAnswered, AnswerExecuted
  <1>2. IInv /\ [Next]_vars => IInv'
    <2> SUFFICES ASSUME IInv, [Next]_vars PROVE IInv'
        OBVIOUS
    <2>1. TypeOK' /\ OkAnswered' /\ AnswerExecuted'
      BY TypeStep, OkStep, AnswerStep DEF IInv
    <2>2. ASSUME NoWrap' PROVE PathInv'
      <3>1. \A c \in Conn : issued[c] <= issued'[c]
        BY IssuedGrows DEF IInv
      <3>2. NoWrap
        BY <2>1, <2>2, <3>1, IdSpaceAssumption DEF IInv, NoWrap, TypeOK
      <3> QED  BY <2>2, <3>2, PathStep DEF IInv
    <2> QED  BY <2>1, <2>2 DEF IInv
  <1> QED  BY <1>1, <1>2, PTL DEF Spec

\* Type correctness of execute(), the connections and the demux maps.
THEOREM TypeCorrect == Spec => []TypeOK
  BY Invariance, PTL DEF IInv

\* No request is given the answer to another one, however many requests share
\* a connection (connection.rs read loop, demux.rs load_remove).
THEOREM AnswersAreOwn == Spec => []ResponseIsOwn
  <1>1. IInv => ResponseIsOwn
    BY DEF IInv, PathInv, OwnReply, OkAnswered, ResponseIsOwn
  <1> QED  BY <1>1, Invariance, PTL

\* No request is carried out twice by the nodes, whatever execute() retries.
THEOREM ExecutedAtMostOnce == Spec => []AtMostOnce
  <1>1. IInv => AtMostOnce
    BY DEF IInv, PathInv, SentByLast, Sent, AtMostOnce
  <1> QED  BY <1>1, Invariance, PTL

\* A request for which execute() returns an error is never carried out.
THEOREM ErrorsAreClean == Spec => []ErrorMeansNotExecuted
  <1>1. IInv => ErrorMeansNotExecuted
    BY DEF IInv, PathInv, SentByLast, Sent, ErrorMeansNotExecuted
  <1> QED  BY <1>1, Invariance, PTL

\* A response without an entry, which ends the read loop, comes on closed
\* connections only.
THEOREM ResponsesFindEntries == Spec => []ResponseFindsEntry
  <1>1. IInv => ResponseFindsEntry
    BY DEF IInv, PathInv, EntryKept, ResponseFindsEntry
  <1> QED  BY <1>1, Invariance, PTL

-----------------------------------------------------------------------------
(* The refinement                                                          *)

\* A step that leaves requests alone, and carries out none, is no step of the
\* abstract specification.
LEMMA SameView ==
  ASSUME UNCHANGED <<pc, executed>>,
         \A r \in Req : pc[r] = "ok" => reply'[r] = reply[r]
  PROVE  UNCHANGED Reply!vars
  BY DEF Reply!vars, Phase, TimesExecuted

\* Requests move one at a time; the others look as before.
LEMMA OneMoves ==
  ASSUME TypeOK, NEW r \in Req, NEW s, pc' = [pc EXCEPT ![r] = s], UNCHANGED executed,
         s # "ok", pc[r] # "ok", \A q \in Req : pc[q] = "ok" => reply'[q] = reply[q],
         NEW t, t = CASE s \in {"pick", "send"} -> "open" [] s = "wait" -> "handed"
                      [] OTHER -> s
  PROVE  /\ [q \in Req |-> Phase(q)]' = [[q \in Req |-> Phase(q)] EXCEPT ![r] = t]
         /\ UNCHANGED [q \in Req |-> TimesExecuted(q)]
         /\ UNCHANGED [q \in Req |-> IF pc[q] = "ok" THEN reply[q] ELSE Pending]
  BY DEF TypeOK, Phase, TimesExecuted

\* A response that is returned is no longer touched by clean-ups and reads.
LEMMA AnswerStays ==
  ASSUME TypeOK, NEW gone, NEW q \in Req, pc[q] = "ok"
  PROVE  WokenBy(gone)[q] = reply[q]
  BY DEF WokenBy, Current

LEMMA PromiseInit == Init => Reply!Init
  BY DEF Init, Reply!Init, Phase, TimesExecuted

LEMMA PromiseStep ==
  TypeOK /\ OkAnswered /\ AnswerExecuted /\ PathInv /\ NoWrap' /\ [Next]_vars
     => [Reply!Next]_Reply!vars
  <1> SUFFICES ASSUME TypeOK, OkAnswered, AnswerExecuted, PathInv, NoWrap', [Next]_vars
               PROVE  [Reply!Next]_Reply!vars
      OBVIOUS
  <1>1. ASSUME NEW r \in Req, Reject(r) PROVE Reply!Refuse(r)
    <2>1. pc' = [pc EXCEPT ![r] = "err"] /\ pc[r] = "idle" /\ UNCHANGED <<executed, reply>>
      BY <1>1 DEF Reject, netVars
    <2>2. /\ [q \in Req |-> Phase(q)]' = [[q \in Req |-> Phase(q)] EXCEPT ![r] = "err"]
          /\ UNCHANGED [q \in Req |-> TimesExecuted(q)]
          /\ UNCHANGED [q \in Req |-> IF pc[q] = "ok" THEN reply[q] ELSE Pending]
      BY <2>1, OneMoves
    <2>3. Phase(r) = "idle"
      BY <2>1 DEF Phase
    <2> QED  BY <2>2, <2>3 DEF Reply!Refuse
  <1>2. ASSUME NEW r \in Req, Call(r) PROVE Reply!Accept(r)
    <2>1. pc' = [pc EXCEPT ![r] = "pick"] /\ pc[r] = "idle" /\ UNCHANGED <<executed, reply>>
      BY <1>2 DEF Call, netVars
    <2>2. /\ [q \in Req |-> Phase(q)]' = [[q \in Req |-> Phase(q)] EXCEPT ![r] = "open"]
          /\ UNCHANGED [q \in Req |-> TimesExecuted(q)]
          /\ UNCHANGED [q \in Req |-> IF pc[q] = "ok" THEN reply[q] ELSE Pending]
      BY <2>1, OneMoves
    <2>3. Phase(r) = "idle"
      BY <2>1 DEF Phase
    <2> QED  BY <2>2, <2>3 DEF Reply!Accept
  <1>3. ASSUME NEW r \in Req, pc[r] \in {"pick", "send"}, AttemptFails(r),
               UNCHANGED executed, \A q \in Req : pc[q] = "ok" => reply'[q] = reply[q]
        PROVE  Reply!Refuse(r) \/ UNCHANGED Reply!vars
    <2>1. CASE pc' = [pc EXCEPT ![r] = "err"]
      <3>1. Phase(r) = "open"
        BY <1>3 DEF Phase
      <3>2. /\ [q \in Req |-> Phase(q)]' = [[q \in Req |-> Phase(q)] EXCEPT ![r] = "err"]
            /\ UNCHANGED [q \in Req |-> TimesExecuted(q)]
            /\ UNCHANGED [q \in Req |-> IF pc[q] = "ok" THEN reply[q] ELSE Pending]
        BY <1>3, <2>1, OneMoves
      <3> QED  BY <3>1, <3>2 DEF Reply!Refuse
    <2>2. CASE pc' = [pc EXCEPT ![r] = "pick"]
      <3>1. [q \in Req |-> Phase(q)]' = [[q \in Req |-> Phase(q)] EXCEPT ![r] = "open"]
            /\ UNCHANGED [q \in Req |-> TimesExecuted(q)]
            /\ UNCHANGED [q \in Req |-> IF pc[q] = "ok" THEN reply[q] ELSE Pending]
        BY <1>3, <2>2, OneMoves
      <3>2. Phase(r) = "open"
        BY <1>3 DEF Phase
      <3> QED  BY <3>1, <3>2 DEF Reply!vars
    <2> QED  BY <1>3, <2>1, <2>2 DEF AttemptFails
  <1>4. ASSUME NEW r \in Req, NEW met, PickNone(r, met)
        PROVE  Reply!Refuse(r) \/ UNCHANGED Reply!vars
    <2>1. /\ pc[r] = "pick" /\ AttemptFails(r) /\ UNCHANGED executed
          /\ reply' = WokenBy(TimedOut(met))
      BY <1>4 DEF PickNone, netVars
    <2> QED  BY <1>3, <2>1, AnswerStays
  <1>5. ASSUME NEW r \in Req, NEW met, met \subseteq MayMeet, NEW c \in Conn,
               PickConn(r, met, c)
        PROVE  UNCHANGED Reply!vars
    <2>1. pc' = [pc EXCEPT ![r] = "send"] /\ pc[r] = "pick" /\ UNCHANGED executed
      BY <1>5 DEF PickConn, netVars
    <2>2. ASSUME NEW q \in Req, pc[q] = "ok" PROVE reply'[q] = reply[q]
      <3>1. q # r
        BY <2>1, <2>2
      <3>2. reply'[q] = IF \E f \in {g \in entries : SameKey(<<c, NextId(c), r>>, g)} :
                             f[3] = q /\ Current(f)
                        THEN Dropped ELSE WokenBy(TimedOut(met))[q]
        BY <1>5, <3>1 DEF PickConn
      <3>3. \A f : f[3] = q => ~Current(f)
        BY <2>2 DEF Current
      <3> QED  BY <2>2, <3>2, <3>3, AnswerStays
    <2>3. /\ [q \in Req |-> Phase(q)]' = [[q \in Req |-> Phase(q)] EXCEPT ![r] = "open"]
          /\ UNCHANGED [q \in Req |-> TimesExecuted(q)]
          /\ UNCHANGED [q \in Req |-> IF pc[q] = "ok" THEN reply[q] ELSE Pending]
      BY <2>1, <2>2, OneMoves
    <2>4. Phase(r) = "open"
      BY <2>1 DEF Phase
    <2> QED  BY <2>3, <2>4 DEF Reply!vars
  <1>6. ASSUME NEW r \in Req, Send(r)
        PROVE  Reply!HandOver(r) \/ Reply!Refuse(r) \/ UNCHANGED Reply!vars
    <2>1. pc[r] = "send" /\ UNCHANGED <<executed, reply>>
      BY <1>6 DEF Send
    <2>2. CASE pc' = [pc EXCEPT ![r] = "wait"]
      <3>1. Phase(r) = "open"
        BY <2>1 DEF Phase
      <3>2. /\ [q \in Req |-> Phase(q)]' = [[q \in Req |-> Phase(q)] EXCEPT ![r] = "handed"]
            /\ UNCHANGED [q \in Req |-> TimesExecuted(q)]
            /\ UNCHANGED [q \in Req |-> IF pc[q] = "ok" THEN reply[q] ELSE Pending]
        BY <2>1, <2>2, OneMoves
      <3> QED  BY <3>1, <3>2 DEF Reply!HandOver
    <2>3. CASE AttemptFails(r)
      BY <1>3, <2>1, <2>3
    <2> QED  BY <1>6, <2>2, <2>3 DEF Send
  <1>7. ASSUME NEW r \in Req, Receive(r) PROVE Reply!Answer(r)
    <2>1. pc[r] = "wait" /\ reply[r] \in {Empty, r} /\ pc' = [pc EXCEPT ![r] = "ok"]
          /\ UNCHANGED <<executed, reply>>
      BY <1>7, ChannelAssumption DEF Receive, PathInv, OwnReply, netVars
    <2>2. [q \in Req |-> Phase(q)]' = [[q \in Req |-> Phase(q)] EXCEPT ![r] = "ok"]
      BY <2>1 DEF TypeOK, Phase
    <2>3. UNCHANGED [q \in Req |-> TimesExecuted(q)]
      BY <2>1 DEF TimesExecuted
    <2>4. [q \in Req |-> IF pc[q] = "ok" THEN reply[q] ELSE Pending]' =
             [[q \in Req |-> IF pc[q] = "ok" THEN reply[q] ELSE Pending] EXCEPT ![r] = reply[r]]
      BY <2>1 DEF TypeOK
    <2>5. reply[r] = r => TimesExecuted(r) = 1
      BY DEF AnswerExecuted, PathInv, SentByLast, Sent, TimesExecuted
    <2>6. Phase(r) = "handed"
      BY <2>1 DEF Phase
    <2> QED  BY <2>1, <2>2, <2>3, <2>4, <2>5, <2>6 DEF Reply!Answer
  <1>8. ASSUME NEW f \in atNode, NodeAnswers(f) PROVE \E r \in Req : Reply!CarryOut(r)
    <2>1. f[3] \in Req /\ executed' = executed \cup {f} /\ UNCHANGED <<pc, reply>>
      BY <1>8 DEF TypeOK, Frame, NodeAnswers, reqVars
    <2>2. f \in Sent /\ f \notin executed
      BY DEF Sent, PathInv, InOnePlace
    <2>3. pc[f[3]] \in {"wait", "ok"} /\ \A g \in executed : g[3] = f[3] => g = f
      BY <2>2 DEF PathInv, SentByLast, Sent
    <2>4. TimesExecuted(f[3]) = 0 /\ TimesExecuted(f[3])' = 1
      BY <2>1, <2>2, <2>3 DEF TimesExecuted
    <2>5. \A q \in Req : q # f[3] => TimesExecuted(q)' = TimesExecuted(q)
      BY <2>1 DEF TimesExecuted
    <2>6. [q \in Req |-> TimesExecuted(q)]' =
             [[q \in Req |-> TimesExecuted(q)] EXCEPT ![f[3]] = 1]
      BY <2>1, <2>4, <2>5
    <2>7. Phase(f[3]) \in {"handed", "ok"}
      BY <2>3 DEF Phase
    <2>8. UNCHANGED [q \in Req |-> Phase(q)]
          /\ UNCHANGED [q \in Req |-> IF pc[q] = "ok" THEN reply[q] ELSE Pending]
      BY <2>1 DEF Phase
    <2> QED  BY <2>1, <2>4, <2>6, <2>7, <2>8 DEF Reply!CarryOut
  <1>9. ASSUME NEW f \in replies, Read(f) PROVE UNCHANGED Reply!vars
    <2>1. UNCHANGED <<pc, executed>>
      BY <1>9 DEF Read
    <2>2. \A q \in Req : pc[q] = "ok" => reply'[q] = reply[q]
      BY <1>9 DEF Read, Current
    <2> QED  BY <2>1, <2>2, SameView
  <1>10. ASSUME NEW c \in Conn, OtherCall(c) PROVE UNCHANGED Reply!vars
    <2>1. UNCHANGED <<pc, executed>>
      BY <1>10 DEF OtherCall, netVars
    <2>2. \A q \in Req : pc[q] = "ok" => reply'[q] = reply[q]
      BY <1>10 DEF OtherCall, Current
    <2> QED  BY <2>1, <2>2, SameView
  <1>11. CASE UNCHANGED <<pc, executed, reply>>
    BY <1>11, SameView
  <1> QED
    BY <1>1, <1>2, <1>4, <1>5, <1>6, <1>7, <1>8, <1>9, <1>10, <1>11
       DEF Next, Pick, Write, WriteFails, Age, ReadFails, Connect, LeaderChanges, vars,
           netVars, reqVars, Reply!Next

\* execute() implements RequestReply as long as no connection has used up its
\* correlation ids, whatever the number of requests, connections and ids.
THEOREM PromiseKept == Spec /\ []NoWrap => KeepsPromise
  <1>1. IInv /\ NoWrap /\ NoWrap' /\ [Next]_vars => [Reply!Next]_Reply!vars
    BY PromiseStep DEF IInv
  <1> QED
    BY <1>1, PromiseInit, Invariance, PTL DEF Spec, KeepsPromise, Reply!Spec

-----------------------------------------------------------------------------
(* What the retry loop may still do, and what it waits for in vain         *)

\* The steps that a call has left at most: four for each attempt, and those
\* of the attempt it is at.
StepsLeft(r) ==
  CASE pc[r] = "idle" -> 4 * (MaxAttempts - attempts[r]) + 4
    [] pc[r] = "pick" -> 4 * (MaxAttempts - attempts[r]) + 3
    [] pc[r] = "send" -> 4 * (MaxAttempts - attempts[r]) + 2
    [] pc[r] = "wait" -> 4 * (MaxAttempts - attempts[r]) + 1
    [] OTHER -> 0

CallBounded == \A r \in Req : StepsLeft(r) \in 0 .. 4 * MaxAttempts + 4

\* A step of a call leaves it fewer steps, and no step of another call, of a
\* connection's tasks or of the nodes gives it one back.
CallAdvances ==
  \A r \in Req : (pc'[r] = pc[r] /\ attempts'[r] = attempts[r])
                   \/ StepsLeft(r)' < StepsLeft(r)

LEMMA FailAdvances ==
  ASSUME TypeOK, NEW r \in Req, pc[r] \in {"pick", "send", "wait"}, AttemptFails(r)
  PROVE  CallAdvances
  <1>1. attempts[r] \in 0 .. MaxAttempts /\ attempts[r] # MaxAttempts
    BY DEF TypeOK
  <1>2. attempts'[r] = attempts[r] + 1 /\ pc'[r] \in {"err", "pick"}
    BY DEF AttemptFails, TypeOK
  <1>3. \A q \in Req : q # r => pc'[q] = pc[q] /\ attempts'[q] = attempts[q]
    BY DEF AttemptFails, TypeOK
  <1>4. StepsLeft(r)' < StepsLeft(r)
    BY <1>1, <1>2 DEF StepsLeft, MaxAttempts
  <1> QED  BY <1>3, <1>4 DEF CallAdvances

LEMMA MoveAdvances ==
  ASSUME TypeOK, NEW r \in Req, NEW p, UNCHANGED attempts, pc' = [pc EXCEPT ![r] = p],
         \/ pc[r] = "idle" /\ p \in {"err", "pick"}
         \/ pc[r] = "pick" /\ p = "send"
         \/ pc[r] = "send" /\ p = "wait"
         \/ pc[r] = "wait" /\ p = "ok"
  PROVE  CallAdvances
  <1>1. attempts[r] \in 0 .. MaxAttempts /\ pc'[r] = p
    BY DEF TypeOK
  <1>2. \A q \in Req : q # r => pc'[q] = pc[q] /\ attempts'[q] = attempts[q]
    BY DEF TypeOK
  <1>3. StepsLeft(r)' < StepsLeft(r)
    BY <1>1 DEF StepsLeft, MaxAttempts
  <1> QED  BY <1>2, <1>3 DEF CallAdvances

\* The retry loop is bounded: a call of execute() takes at most 16 steps of its
\* own, whatever the pools, the connections, the nodes and the other calls do,
\* and one that has returned takes none.  What is left of LoopSettles is that
\* it is given its steps.
THEOREM CallsAreBounded == Spec => []CallBounded /\ [][CallAdvances]_vars
  <1>1. TypeOK => CallBounded
    BY DEF TypeOK, CallBounded, StepsLeft, MaxAttempts
  <1>2. TypeOK /\ [Next]_vars => [CallAdvances]_vars
    <2> SUFFICES ASSUME TypeOK, Next PROVE CallAdvances
        OBVIOUS
    <2>1. ASSUME NEW r \in Req, Reject(r) \/ Call(r) PROVE CallAdvances
      BY <2>1, MoveAdvances DEF Reject, Call
    <2>2. ASSUME NEW r \in Req, NEW met, PickNone(r, met) PROVE CallAdvances
      BY <2>2, FailAdvances DEF PickNone
    <2>3. ASSUME NEW r \in Req, NEW met, NEW c, PickConn(r, met, c) PROVE CallAdvances
      BY <2>3, MoveAdvances DEF PickConn
    <2>4. ASSUME NEW r \in Req, Send(r) PROVE CallAdvances
      BY <2>4, MoveAdvances, FailAdvances DEF Send
    <2>5. ASSUME NEW r \in Req, Receive(r) PROVE CallAdvances
      BY <2>5, MoveAdvances, FailAdvances DEF Receive
    <2>6. ASSUME UNCHANGED <<pc, attempts>> PROVE CallAdvances
      BY <2>6 DEF CallAdvances
    <2>7. ASSUME NEW f, Write(f) \/ WriteFails(f) \/ NodeAnswers(f) \/ Read(f) \/ Age(f)
          PROVE  CallAdvances
      BY <2>6, <2>7 DEF Write, WriteFails, NodeAnswers, Read, Age, reqVars
    <2>8. ASSUME NEW c, NEW gone,
                 ReadFails(c) \/ OtherCall(c) \/ Connect(c, gone) \/ LeaderChanges
          PROVE  CallAdvances
      BY <2>6, <2>8 DEF ReadFails, OtherCall, Connect, LeaderChanges, reqVars
    <2> QED
      BY <2>1, <2>2, <2>3, <2>4, <2>5, <2>7, <2>8 DEF Next, Pick
  <1> QED  BY <1>1, <1>2, TypeCorrect, PTL DEF Spec

\* r waits for a response on a connection that nobody reads from any more and
\* that no next_*_conn will meet.
Lost(r) ==
  /\ pc[r] = "wait" /\ reply[r] = Pending
  /\ conn[r] \notin fresh \cup pool \cup reading

\* A clean-up of pooled connections, or a response that is read, does not reach
\* a lost request.
LEMMA LostNotReached ==
  ASSUME NEW r \in Req, Lost(r), NEW e, Current(e), e[3] = r
  PROVE  e[1] \notin pool \cup reading
  BY DEF Lost, Current

LEMMA LostStep ==
  ASSUME TypeOK, [Next]_vars, NEW r \in Req, Lost(r)
  PROVE  Lost(r)'
  <1> DEFINE c == conn[r]
  <1>1. c \in Conn /\ c \notin fresh /\ c \notin pool /\ c \notin reading
    BY DEF Lost, TypeOK
  <1>2. ASSUME UNCHANGED <<pc, reply, conn>>, fresh' \subseteq fresh,
               c \notin pool', c \notin reading'
        PROVE  Lost(r)'
    BY <1>1, <1>2 DEF Lost
  <1>3. ASSUME NEW q \in Req, q # r, NEW p, pc' = [pc EXCEPT ![q] = p],
               UNCHANGED <<fresh, reading>>, pool' \subseteq pool,
               conn'[r] = c, reply'[r] = reply[r]
        PROVE  Lost(r)'
    BY <1>1, <1>3 DEF Lost, TypeOK
  <1>4. ASSUME NEW met \in SUBSET MayMeet PROVE WokenBy(TimedOut(met))[r] = reply[r]
    BY LostNotReached DEF WokenBy, TimedOut, MayMeet
  <1>5. ASSUME NEW q \in Req, Reject(q) \/ Call(q) \/ Send(q) \/ Receive(q)
        PROVE  Lost(r)'
    BY <1>3, <1>5 DEF Reject, Call, Send, Receive, AttemptFails, connVars, Lost
  <1>6. ASSUME NEW q \in Req, NEW met \in SUBSET MayMeet, PickNone(q, met)
        PROVE  Lost(r)'
    BY <1>3, <1>4, <1>6 DEF PickNone, AttemptFails, PoolAfter, Lost
  <1>7. ASSUME NEW q \in Req, NEW met \in SUBSET MayMeet, NEW d \in Conn,
               PickConn(q, met, d)
        PROVE  Lost(r)'
    <2>1. q # r /\ d \in pool /\ pool' \subseteq pool /\ UNCHANGED <<fresh, reading>>
      BY <1>7 DEF PickConn, PoolAfter, Lost
    <2>2. conn'[r] = c
      BY <1>7, <2>1 DEF PickConn, TypeOK
    <2>3. ASSUME NEW f \in entries, SameKey(<<d, NextId(d), q>>, f), f[3] = r, Current(f)
          PROVE  FALSE
      BY <2>1, <2>3, LostNotReached DEF SameKey
    <2>4. reply'[r] = reply[r]
      BY <1>4, <1>7, <2>1, <2>3 DEF PickConn
    <2> QED  BY <1>3, <1>7, <2>1, <2>2, <2>4 DEF PickConn
  <1>8. ASSUME NEW f, Write(f) \/ WriteFails(f) \/ NodeAnswers(f) \/ Age(f)
        PROVE  Lost(r)'
    BY <1>1, <1>2, <1>8 DEF Write, WriteFails, NodeAnswers, Age, connVars, reqVars
  <1>9. ASSUME NEW f \in replies, Read(f) PROVE Lost(r)'
    <2>1. ASSUME NEW e \in entries, SameKey(e, f), e[3] = r, Current(e) PROVE FALSE
      BY <1>9, <2>1, LostNotReached DEF Read, SameKey
    <2>2. reply'[r] = reply[r]
      BY <1>9, <2>1 DEF Read
    <2>3. UNCHANGED <<pc, conn, fresh, pool>> /\ reading' \subseteq reading
      BY <1>9 DEF Read
    <2> QED  BY <1>1, <2>2, <2>3 DEF Lost
  <1>10. ASSUME NEW d, NEW gone, ReadFails(d) \/ Connect(d, gone) PROVE Lost(r)'
    BY <1>1, <1>2, <1>10 DEF ReadFails, Connect, reqVars
  <1>11. CASE LeaderChanges \/ UNCHANGED vars
    BY <1>1, <1>2, <1>11 DEF LeaderChanges, vars, connVars, reqVars
  <1>12. ASSUME NEW d \in Conn, OtherCall(d) PROVE Lost(r)'
    <2>1. reply'[r] = reply[r]
      BY <1>12, LostNotReached DEF OtherCall
    <2> QED  BY <1>1, <1>12, <2>1 DEF OtherCall, Lost
  <1> QED
    BY <1>5, <1>6, <1>7, <1>8, <1>9, <1>10, <1>11, <1>12 DEF Next, Pick

\* A request whose connection has been lost and has left the pool hangs for
\* ever, whatever the nodes, the sync task and the other requests do: time alone
\* never wakes it.  This is what the violation of LostRequestEnds shows on one
\* behaviour.
THEOREM LostRequestsHang ==
  ASSUME NEW r \in Req
  PROVE  Spec => [](Lost(r) => []Lost(r))
  <1>1. TypeOK /\ Lost(r) /\ [Next]_vars => Lost(r)'
    BY LostStep
  <1> QED  BY <1>1, TypeCorrect, PTL DEF Spec

=============================================================================
