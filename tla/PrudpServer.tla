---------------------------- MODULE PrudpServer ----------------------------
(***************************************************************************)
(* The connection table of PrudpServer, one action per packet handler and  *)
(* one for the expiry timer.                                               *)
(*                                                                         *)
(* Every handler runs to completion on the event loop, so it is one atomic *)
(* step.  UDP may lose, repeat and reorder datagrams: any packet may come  *)
(* at any time for any signature.  Packets a handler ignores change        *)
(* nothing and are no steps of their own.  Time is counted in ticks; a     *)
(* client record holds the age of lastSeen instead of lastSeen itself.     *)
(*                                                                         *)
(* The registered stream handlers are opaque here: as wired up for the     *)
(* secure service, none of them writes to the state of the server.         *)
(***************************************************************************)
EXTENDS Integers, FiniteSets, Sequences, Maps, Fragments

CONSTANTS
  Signatures,         \* values randomU32 may draw for serverSignature
  Users,              \* principal ids
  None,               \* undefined
  IdSpace,            \* number of u32 values, 2^32 in the code
  FirstConnectionId,  \* FIRST_CONNECTION_ID
  SessionTimeout,     \* SESSION_TIMEOUT_MS, in ticks
  FragmentIds,        \* fragment ids that occur in DATA packets
  Payloads,           \* payloads that occur in DATA packets
  AllowCollisions,    \* may randomU32 return the signature of a known client?
  MaxLogins           \* bound: number of tickets accepted in a behaviour

ConnectionIds == 0 .. IdSpace - 1

ASSUME ServerAssumption ==
  /\ IdSpace \in Nat \ {0}
  /\ FirstConnectionId \in ConnectionIds
  /\ SessionTimeout \in Nat
  /\ MaxLogins \in Nat
  /\ FragmentIds \subseteq Nat
  /\ AllowCollisions \in BOOLEAN
  /\ None \notin Users
  /\ None \notin ConnectionIds

VARIABLES
  newClients,        \* clients that sent a SYN but no CONNECT yet, by signature
  clients,           \* connected clients by signature
  connectionIds,     \* connection id -> signature
  nextConnectionId,
  issued             \* history: number of connection ids handed out

vars == <<newClients, clients, connectionIds, nextConnectionId, issued>>

-----------------------------------------------------------------------------
(***************************************************************************)
(* Client records.                                                         *)
(***************************************************************************)
\* ages beyond the timeout are all alike
Ages == 0 .. SessionTimeout + 1

\* ClientInfo. "idle" is the age of lastSeen; "silent" is history, the age of
\* the last packet the server got from the client, whether it called seen() or
\* not. Sequence counters, sessions and addresses play no part here.
ClientInfo ==
  [idle : Ages,
   silent : Ages,
   userId : Users \union {None},
   connectionId : ConnectionIds \union {None},
   fragments : UNION {[ids -> Payloads] : ids \in SUBSET (FragmentIds \ {0})}]

NewClient ==
  [idle |-> 0, silent |-> 0, userId |-> None, connectionId |-> None,
   fragments |-> NoFragments]

Seen(client) == [client EXCEPT !.idle = 0, !.silent = 0]

Older(age) == IF age > SessionTimeout THEN age ELSE age + 1

Aged(client) == [client EXCEPT !.idle = Older(@), !.silent = Older(@)]

IsExpired(client) == client.idle > SessionTimeout

\* Mutants: no wrap around at 2^32; the id is not advanced.
SuccessorUnbounded(id) == id + 1

SuccessorSame(id) == id

\* (nextConnectionId + 1) >>> 0
Successor(id) == IF id + 1 = IdSpace THEN 0 ELSE id + 1

\* CONNECT payloads: none, a ticket that cannot be read or opened, an expired
\* one, one whose challenge does not decode, and a good one.
Tickets == [state : {"absent", "unopenable", "expired", "garbled", "good"}, user : Users]

\* acceptTicket assigns the identity before it decodes the challenge.
IsAccepted(ticket) == ticket.state \in {"garbled", "good"}

\* clientByConnectionId as a function on the ids for which it finds a client.
ResolvedIds ==
  [id \in {i \in DOMAIN connectionIds : connectionIds[i] \in DOMAIN clients} |->
     connectionIds[id]]

-----------------------------------------------------------------------------
Init ==
  /\ newClients = EmptyMap
  /\ clients = EmptyMap
  /\ connectionIds = EmptyMap
  /\ nextConnectionId = FirstConnectionId
  /\ issued = 0

\* Mutant: a SYN under a signature in use makes the old client unreachable.
HandleSynForgetting(s) ==
  /\ AllowCollisions \/ s \notin DOMAIN newClients \union DOMAIN clients
  /\ newClients' = Put(newClients, s, NewClient)
  /\ connectionIds' = Delete(connectionIds, {id \in DOMAIN connectionIds : connectionIds[id] = s})
  /\ UNCHANGED <<clients, nextConnectionId, issued>>

\* A SYN creates a half-open client under a random signature.
HandleSyn(s) ==
  /\ AllowCollisions \/ s \notin DOMAIN newClients \union DOMAIN clients
  /\ newClients' = Put(newClients, s, NewClient)
  /\ UNCHANGED <<clients, connectionIds, nextConnectionId, issued>>

\* A CONNECT moves the client to the connected ones. It does not call seen().
Promoted(s) == [newClients[s] EXCEPT !.silent = 0]

ConnectAnonymously(s) ==
  /\ clients' = Put(clients, s, Promoted(s))
  /\ UNCHANGED <<connectionIds, nextConnectionId, issued>>

ConnectAs(s, user) ==
  /\ issued < MaxLogins
  /\ clients' = Put(clients, s, [Promoted(s) EXCEPT !.userId = user,
                                                    !.connectionId = nextConnectionId])
  /\ connectionIds' = Put(connectionIds, nextConnectionId, s)
  /\ nextConnectionId' = Successor(nextConnectionId)
  /\ issued' = issued + 1

\* Mutants: the challenge is decoded between the assignments of user and id; the
\* client stays half-open.
HandleConnectDecodingFirst(s, ticket) ==
  /\ s \in DOMAIN newClients
  /\ newClients' = Delete(newClients, {s})
  /\ \/ ~IsAccepted(ticket) /\ ConnectAnonymously(s)
     \/ ticket.state = "good" /\ ConnectAs(s, ticket.user)
     \/ /\ ticket.state = "garbled"
        /\ clients' = Put(clients, s, [Promoted(s) EXCEPT !.userId = ticket.user])
        /\ UNCHANGED <<connectionIds, nextConnectionId, issued>>

HandleConnectRepeatedly(s, ticket) ==
  /\ s \in DOMAIN newClients
  /\ UNCHANGED newClients
  /\ \/ ~IsAccepted(ticket) /\ ConnectAnonymously(s)
     \/ IsAccepted(ticket) /\ ConnectAs(s, ticket.user)

HandleConnect(s, ticket) ==
  /\ s \in DOMAIN newClients
  /\ newClients' = Delete(newClients, {s})
  /\ \/ ~IsAccepted(ticket) /\ ConnectAnonymously(s)
     \/ IsAccepted(ticket) /\ ConnectAs(s, ticket.user)

\* DATA is acknowledged and buffered or, with fragment 0, passed on.
WithFragment(client, fid, payload) ==
  [Seen(client) EXCEPT !.fragments = NextBuffer(client.fragments, fid, payload)]

HandleData(s, fid, payload) ==
  /\ s \in DOMAIN clients
  /\ clients' = [clients EXCEPT ![s] = WithFragment(@, fid, payload)]
  /\ UNCHANGED <<newClients, connectionIds, nextConnectionId, issued>>

HandlePing(s) ==
  /\ s \in DOMAIN clients
  /\ clients' = [clients EXCEPT ![s] = Seen(@)]
  /\ UNCHANGED <<newClients, connectionIds, nextConnectionId, issued>>

\* An ACK is ignored, it only shows that the client is there.
ReceiveAck(s) ==
  /\ s \in DOMAIN clients
  /\ clients' = [clients EXCEPT ![s].silent = 0]
  /\ UNCHANGED <<newClients, connectionIds, nextConnectionId, issued>>

\* Mutant: the id of a removed client stays.
RemoveClientsOnly(gone) ==
  /\ clients' = Delete(clients, gone)
  /\ UNCHANGED connectionIds

RemoveClients(gone) ==
  /\ clients' = Delete(clients, gone)
  /\ connectionIds' = Delete(connectionIds, {clients[s].connectionId : s \in gone})

HandleDisconnect(s) ==
  /\ s \in DOMAIN clients
  /\ RemoveClients({s})
  /\ UNCHANGED <<newClients, nextConnectionId, issued>>

\* Mutant: half-open clients never expire.
ClearExpiredConnected ==
  LET gone == {s \in DOMAIN clients : IsExpired(clients[s])}
  IN  /\ gone # {}
      /\ RemoveClients(gone)
      /\ UNCHANGED <<newClients, nextConnectionId, issued>>

\* The timer drops the expired clients of both maps in one go.
ClearExpiredClients ==
  LET gone   == {s \in DOMAIN clients : IsExpired(clients[s])}
      lapsed == {s \in DOMAIN newClients : IsExpired(newClients[s])}
  IN  /\ gone \union lapsed # {}
      /\ RemoveClients(gone)
      /\ newClients' = Delete(newClients, lapsed)
      /\ UNCHANGED <<nextConnectionId, issued>>

Tick ==
  /\ newClients' = [s \in DOMAIN newClients |-> Aged(newClients[s])]
  /\ clients' = [s \in DOMAIN clients |-> Aged(clients[s])]
  /\ UNCHANGED <<connectionIds, nextConnectionId, issued>>

Next ==
  \/ \E s \in Signatures :
       \/ HandleSyn(s)
       \/ \E ticket \in Tickets : HandleConnect(s, ticket)
       \/ \E fid \in FragmentIds, payload \in Payloads : HandleData(s, fid, payload)
       \/ HandlePing(s)
       \/ ReceiveAck(s)
       \/ HandleDisconnect(s)
  \/ ClearExpiredClients
  \/ Tick

Spec == Init /\ [][Next]_vars

\* The clock runs and the interval timer fires again and again, whatever the
\* clients do.
FairSpec == Spec /\ WF_vars(Tick) /\ WF_vars(ClearExpiredClients)
-----------------------------------------------------------------------------
(***************************************************************************)
(* Properties.                                                             *)
(***************************************************************************)

\* Every variable keeps the shape the code gives it.
TypeOK ==
  /\ DOMAIN newClients \subseteq Signatures
  /\ \A s \in DOMAIN newClients : newClients[s] \in ClientInfo
  /\ DOMAIN clients \subseteq Signatures
  /\ \A s \in DOMAIN clients : clients[s] \in ClientInfo
  /\ DOMAIN connectionIds \subseteq ConnectionIds
  /\ \A id \in DOMAIN connectionIds : connectionIds[id] \in Signatures
  /\ nextConnectionId \in ConnectionIds
  /\ issued \in 0 .. MaxLogins

\* A connected client is found under its own connection id, whatever other
\* clients come, go or (with collisions) take its place: the NAT traversal
\* service can reach every logged in client (clientByConnectionId).
OwnIdResolves ==
  \A s \in DOMAIN clients :
    LET id == clients[s].connectionId
    IN  id # None => id \in DOMAIN connectionIds /\ connectionIds[id] = s

\* Nothing dangles: an id in connectionIds belongs to the connected client it
\* leads to. removeClient, the expiry timer and handleConnect change the two
\* maps together.
NoDanglingIds ==
  \A id \in DOMAIN connectionIds :
    LET s == connectionIds[id]
    IN  s \in DOMAIN clients /\ clients[s].connectionId = id

ConnectionIndex == OwnIdResolves /\ NoDanglingIds

\* A client is half-open or connected, never both, and as long as it is
\* half-open nobody is logged in on it and nothing is buffered for it.
HalfOpen ==
  \A s \in DOMAIN newClients :
    /\ s \notin DOMAIN clients
    /\ newClients[s].userId = None
    /\ newClients[s].connectionId = None
    /\ newClients[s].fragments = NoFragments

\* "Assigned when the client connected with its ticket, i.e. together with the
\* user id" (secure-connection.ts): register() relies on a logged in client
\* having a connection id.
IdentityIsWhole ==
  \A s \in DOMAIN clients :
    (clients[s].userId = None) <=> (clients[s].connectionId = None)

\* Who a connection belongs to is settled by its CONNECT. No later packet, be it
\* a repeated CONNECT with another ticket, changes it or takes it away while
\* the connection lasts.
IdentityIsSettled ==
  [][\A s \in DOMAIN clients \intersect DOMAIN clients' :
       /\ clients'[s].userId = clients[s].userId
       /\ clients'[s].connectionId = clients[s].connectionId]_vars

\* The ids issued so far. They repeat only after IdSpace logins.
NthId(n) == IF FirstConnectionId + n < IdSpace
            THEN FirstConnectionId + n
            ELSE FirstConnectionId + n - IdSpace

IssuedIds == {NthId(n) : n \in 0 .. issued - 1}

\* The server implements the registry of connection ids: what
\* clientByConnectionId finds is what the registry lists.
Registry == INSTANCE ConnectionRegistry WITH
  Ids   <- ConnectionIds,
  Peers <- Signatures,
  live  <- ResolvedIds,
  used  <- IssuedIds

ImplementsRegistry == Registry!Spec

\* A silent client does not stay: every entry of either map is removed or heard
\* of (DATA, PING or a new SYN) again and again (clearExpiredClients).
SilentClientsGo ==
  \A s \in Signatures :
    /\ []<>(s \in DOMAIN clients => clients[s].idle = 0)
    /\ []<>(s \in DOMAIN newClients => newClients[s].idle = 0)

\* "Drops clients that were silent for longer than SESSION_TIMEOUT_MS"
\* (clearExpiredClients): a client the timer would drop was silent that long.
DueClientsWereSilent ==
  \A s \in DOMAIN clients :
    IsExpired(clients[s]) => clients[s].silent > SessionTimeout
=============================================================================
