------------------------- MODULE ConnectionRegistry -------------------------
(***************************************************************************)
(* What the connection ids of the secure service promise.  Peers exchange  *)
(* them as RVCID of their station URLs and the NAT traversal service sends *)
(* probes to whatever PrudpServer.clientByConnectionId finds, so an id has *)
(* to designate one connection while that is open, and nothing afterwards. *)
(***************************************************************************)
EXTENDS Functions

CONSTANTS Ids,    \* connection ids
          Peers   \* server signatures, which name the open connections

VARIABLES live,   \* the ids that designate a connection, with that connection
          used    \* the ids handed out so far

vars == <<live, used>>

Init == /\ live = [id \in {} |-> id]
        /\ used = {}

\* A connection without an id gets one that was never handed out before.
Register(id, peer) ==
  /\ id \notin used
  /\ \A i \in DOMAIN live : live[i] # peer
  /\ live' = [i \in DOMAIN live \union {id} |-> IF i = id THEN peer ELSE live[i]]
  /\ used' = used \union {id}

\* Some connections end, and their ids with them.
Release(ended) ==
  /\ live' = Restrict(live, {id \in DOMAIN live : live[id] \notin ended})
  /\ UNCHANGED used

Next == \/ \E id \in Ids, peer \in Peers : Register(id, peer)
        \/ \E ended \in SUBSET Peers : Release(ended)

Spec == Init /\ [][Next]_vars
=============================================================================
