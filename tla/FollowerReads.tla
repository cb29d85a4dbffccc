--------------------------- MODULE FollowerReads ----------------------------
(***************************************************************************)
(* FollowerPool with two history variables about the current call of each  *)
(* reader: the connections that have been in the pool and open at every    *)
(* moment of it, and whether the round through follower_history that it    *)
(* makes has been left alone.                                              *)
(***************************************************************************)
EXTENDS FollowerPool

VARIABLES
  steady,   \* the connections that were pooled and open all along
  alone     \* the readers whose round began dense and was left alone

allVars == <<vars, steady, alone>>

\* The node indexes in the history are 0, 1, ... without a gap or a repetition.
Dense ==
  /\ {p[2] : p \in DOMAIN history} = 0 .. Cardinality(DOMAIN history) - 1
  /\ \A p, q \in DOMAIN history : p[2] = q[2] => p = q

\* This step adds no node to the history, and if it moves last_node_id it is
\* one of r.
LeavesAlone(r) ==
  /\ DOMAIN history' = DOMAIN history
  /\ last' # last => <<rpc[r], left[r]>>' # <<rpc[r], left[r]>>

ReadsInit ==
  /\ Init
  /\ steady = [r \in Reader |-> {}] /\ alone = {}

ReadsNext ==
  /\ Next
  /\ steady' = [r \in Reader |-> IF ReadBegin(r) THEN Open
                                 ELSE IF Calling(r) THEN steady[r] \cap Open' ELSE {}]
  /\ alone' = {r \in Reader : \/ ReadBegin(r) /\ Dense
                              \/ Calling(r) /\ r \in alone /\ LeavesAlone(r)}

ReadsSpec == ReadsInit /\ [][ReadsNext]_allVars

\* error.rs:29, "no follower node found in cluster": a read only comes back
\* without a connection when no connection was open all along.
NoneMeansNoneOpen == \A r \in Reader : rpc[r] = "none" => steady[r] = {}

\* next_follower_conn goes once round the history: a call that nobody else's
\* call and no new node disturbs, and that starts from indexes without a gap,
\* returns no connection only if none was pooled and open throughout, whatever
\* closes, is cleaned up or is refilled meanwhile.
LoneReadFindsOpen ==
  \A r \in alone : rpc[r] = "none" => steady[r] = {}

=============================================================================
