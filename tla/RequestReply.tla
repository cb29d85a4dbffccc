---------------------------- MODULE RequestReply ----------------------------
(***************************************************************************)
(* What ClusterHandler::execute promises its caller, without connections,  *)
(* correlation ids or retries: a request is handed to the shard at most    *)
(* once, carried out at most once and only then, and returns its own       *)
(* answer, an empty one, or an error that means it was not handed over.    *)
(* RequestPath implements this as long as no correlation id is used twice. *)
(***************************************************************************)
EXTENDS Naturals

CONSTANTS
  Req,       \* calls of execute()
  Pending,   \* no answer yet
  Empty      \* the empty answer

VARIABLES
  phase,    \* of each request: "idle", "open", "handed", "ok" or "err"
  times,    \* how often the shard has carried it out
  answer    \* what execute() returned

vars == <<phase, times, answer>>

Init ==
  /\ phase = [r \in Req |-> "idle"]
  /\ times = [r \in Req |-> 0]
  /\ answer = [r \in Req |-> Pending]

Accept(r) ==
  /\ phase[r] = "idle" /\ phase' = [phase EXCEPT ![r] = "open"]
  /\ UNCHANGED <<times, answer>>

Refuse(r) ==
  /\ phase[r] \in {"idle", "open"} /\ phase' = [phase EXCEPT ![r] = "err"]
  /\ UNCHANGED <<times, answer>>

HandOver(r) ==
  /\ phase[r] = "open" /\ phase' = [phase EXCEPT ![r] = "handed"]
  /\ UNCHANGED <<times, answer>>

\* Possibly after the caller has got the empty answer.
CarryOut(r) ==
  /\ phase[r] \in {"handed", "ok"} /\ times[r] = 0
  /\ times' = [times EXCEPT ![r] = 1]
  /\ UNCHANGED <<phase, answer>>

Answer(r) ==
  /\ phase[r] = "handed" /\ phase' = [phase EXCEPT ![r] = "ok"]
  /\ \/ times[r] = 1 /\ answer' = [answer EXCEPT ![r] = r]
     \/ answer' = [answer EXCEPT ![r] = Empty]
  /\ UNCHANGED times

Next ==
  \E r \in Req : Accept(r) \/ Refuse(r) \/ HandOver(r) \/ CarryOut(r) \/ Answer(r)

Spec == Init /\ [][Next]_vars

=============================================================================
