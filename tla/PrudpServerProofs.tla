------------------------- MODULE PrudpServerProofs -------------------------
(***************************************************************************)
(* Proofs about the connection table, for any number of signatures, users, *)
(* ids and ticks.                                                          *)
(***************************************************************************)
EXTENDS PrudpServer, TLAPS

(***************************************************************************)
(* Lemmas about client records.                                            *)
(***************************************************************************)

\* A buffer holds payloads under fragment ids other than 0, whatever arrives.
Buffers == UNION {[ids -> Payloads] : ids \in SUBSET (FragmentIds \ {0})}

LEMMA NoFragmentsTyped == NoFragments \in Buffers
<1>1. NoFragments \in [{} -> Payloads]
  BY DEF NoFragments
<1> QED BY <1>1 DEF Buffers

LEMMA NextBufferTyped ==
  ASSUME NEW buffer \in Buffers, NEW fid \in FragmentIds, NEW payload \in Payloads
  PROVE  NextBuffer(buffer, fid, payload) \in Buffers
<1>1. PICK ids \in SUBSET (FragmentIds \ {0}) : buffer \in [ids -> Payloads]
  BY DEF Buffers
<1>2. CASE fid = 0
  BY <1>2, NoFragmentsTyped DEF NextBuffer
<1>3. CASE fid # 0
  <2> DEFINE stored == [f \in DOMAIN buffer \union {fid} |->
                          IF f = fid THEN payload ELSE buffer[f]]
  <2>1. stored \in [ids \union {fid} -> Payloads]
    BY <1>1
  <2>2. stored \in Buffers
    BY <1>3, <2>1 DEF Buffers
  <2> QED BY <1>3, <2>2, NoFragmentsTyped DEF NextBuffer, Store
<1> QED BY <1>2, <1>3

\* The updates of a client record give client records.
LEMMA RecordsTyped ==
  ASSUME NEW c \in ClientInfo
  PROVE  /\ Seen(c) \in ClientInfo
         /\ Aged(c) \in ClientInfo
         /\ [c EXCEPT !.silent = 0] \in ClientInfo
         /\ \A u \in Users, id \in ConnectionIds :
              [[c EXCEPT !.silent = 0] EXCEPT !.userId = u, !.connectionId = id] \in ClientInfo
         /\ \A fid \in FragmentIds, payload \in Payloads :
              WithFragment(c, fid, payload) \in ClientInfo
<1>1. ClientInfo = [idle : Ages, silent : Ages, userId : Users \union {None},
                    connectionId : ConnectionIds \union {None}, fragments : Buffers]
  BY DEF ClientInfo, Buffers
<1>2. 0 \in Ages /\ \A age \in Ages : Older(age) \in Ages
  BY ServerAssumption DEF Ages, Older
<1> HIDE DEF ClientInfo
<1>3. Seen(c) \in ClientInfo
  BY <1>1, <1>2 DEF Seen
<1>4. Aged(c) \in ClientInfo
  BY <1>1, <1>2 DEF Aged
<1>5. \A fid \in FragmentIds, payload \in Payloads :
         WithFragment(c, fid, payload) \in ClientInfo
  BY <1>1, <1>3, NextBufferTyped DEF WithFragment
<1> QED BY <1>1, <1>2, <1>3, <1>4, <1>5

LEMMA NewClientTyped == NewClient \in ClientInfo
BY NoFragmentsTyped, ServerAssumption DEF NewClient, ClientInfo, Buffers, Ages

(***************************************************************************)
(* Type correctness.                                                       *)
(***************************************************************************)

LEMMA ConnectTyped ==
  ASSUME TypeOK, NEW s \in Signatures, NEW ticket \in Tickets, HandleConnect(s, ticket)
  PROVE  TypeOK'
<1> USE ServerAssumption DEF TypeOK
<1>1. newClients[s] \in ClientInfo /\ ticket.user \in Users
  BY DEF HandleConnect, Tickets
<1>2. /\ DOMAIN newClients' \subseteq Signatures
      /\ \A k \in DOMAIN newClients' : newClients'[k] \in ClientInfo
  <2>1. newClients' = Delete(newClients, {s})
    BY DEF HandleConnect
  <2> QED BY <2>1 DEF Delete, Restrict
<1>3. CASE ConnectAnonymously(s)
  <2>1. Promoted(s) \in ClientInfo
    BY <1>1, RecordsTyped DEF Promoted
  <2>2. /\ DOMAIN clients' \subseteq Signatures
        /\ \A k \in DOMAIN clients' : clients'[k] \in ClientInfo
    <3>1. clients' = Put(clients, s, Promoted(s))
      BY <1>3 DEF ConnectAnonymously
    <3> QED BY <2>1, <3>1 DEF Put
  <2> QED BY <1>2, <1>3, <2>2 DEF ConnectAnonymously
<1>4. CASE ConnectAs(s, ticket.user)
  <2>1. [Promoted(s) EXCEPT !.userId = ticket.user, !.connectionId = nextConnectionId]
          \in ClientInfo
    BY <1>1, RecordsTyped DEF Promoted
  <2>2. /\ DOMAIN clients' \subseteq Signatures
        /\ \A k \in DOMAIN clients' : clients'[k] \in ClientInfo
    <3>1. clients' = Put(clients, s, [Promoted(s) EXCEPT !.userId = ticket.user,
                                                 !.connectionId = nextConnectionId])
      BY <1>4 DEF ConnectAs
    <3> QED BY <2>1, <3>1 DEF Put
  <2>3. /\ DOMAIN connectionIds' \subseteq ConnectionIds
        /\ \A id \in DOMAIN connectionIds' : connectionIds'[id] \in Signatures
    <3>1. connectionIds' = Put(connectionIds, nextConnectionId, s)
      BY <1>4 DEF ConnectAs
    <3> QED BY <3>1 DEF Put
  <2>4. nextConnectionId' \in ConnectionIds
    BY <1>4 DEF ConnectAs, Successor, ConnectionIds
  <2>5. issued' \in 0 .. MaxLogins
    BY <1>4 DEF ConnectAs
  <2> QED BY <1>2, <2>2, <2>3, <2>4, <2>5
<1> QED BY <1>3, <1>4 DEF HandleConnect

\* Removing clients keeps the types of both maps.
LEMMA RemoveTyped ==
  ASSUME TypeOK, NEW gone, RemoveClients(gone)
  PROVE  /\ DOMAIN clients' \subseteq Signatures
         /\ \A s \in DOMAIN clients' : clients'[s] \in ClientInfo
         /\ DOMAIN connectionIds' \subseteq ConnectionIds
         /\ \A id \in DOMAIN connectionIds' : connectionIds'[id] \in Signatures
<1>1. clients' = Delete(clients, gone)
  BY DEF RemoveClients
<1>2. connectionIds' = Delete(connectionIds, {clients[s].connectionId : s \in gone})
  BY DEF RemoveClients
<1> QED BY <1>1, <1>2 DEF TypeOK, Delete, Restrict

LEMMA TypeInit == Init => TypeOK
BY ServerAssumption DEF Init, TypeOK, EmptyMap

LEMMA TypeStep == TypeOK /\ [Next]_vars => TypeOK'
<1> SUFFICES ASSUME TypeOK, [Next]_vars PROVE TypeOK'
  OBVIOUS
<1> USE ServerAssumption
<1>1. ASSUME NEW s \in Signatures, HandleSyn(s) PROVE TypeOK'
  BY <1>1, NewClientTyped DEF HandleSyn, Put, TypeOK
<1>2. ASSUME NEW s \in Signatures, NEW ticket \in Tickets, HandleConnect(s, ticket)
      PROVE  TypeOK'
  BY <1>2, ConnectTyped
<1>3. ASSUME NEW s \in Signatures, NEW fid \in FragmentIds, NEW payload \in Payloads,
             HandleData(s, fid, payload)
      PROVE  TypeOK'
  <2>1. WithFragment(clients[s], fid, payload) \in ClientInfo
    BY <1>3, RecordsTyped DEF HandleData, TypeOK
  <2> QED BY <1>3, <2>1 DEF HandleData, TypeOK
<1>4. ASSUME NEW s \in Signatures, HandlePing(s) PROVE TypeOK'
  <2>1. Seen(clients[s]) \in ClientInfo
    BY <1>4, RecordsTyped DEF HandlePing, TypeOK
  <2> QED BY <1>4, <2>1 DEF HandlePing, TypeOK
<1>5. ASSUME NEW s \in Signatures, ReceiveAck(s) PROVE TypeOK'
  <2>1. [clients[s] EXCEPT !.silent = 0] \in ClientInfo
    BY <1>5, RecordsTyped DEF ReceiveAck, TypeOK
  <2> QED BY <1>5, <2>1 DEF ReceiveAck, TypeOK
<1>6. ASSUME NEW s \in Signatures, HandleDisconnect(s) PROVE TypeOK'
  BY <1>6, RemoveTyped DEF HandleDisconnect, TypeOK
<1>7. CASE ClearExpiredClients
  <2>1. PICK gone : RemoveClients(gone)
    BY <1>7 DEF ClearExpiredClients
  <2>2. PICK lapsed : newClients' = Delete(newClients, lapsed)
    BY <1>7 DEF ClearExpiredClients
  <2>3. /\ DOMAIN newClients' \subseteq Signatures
        /\ \A s \in DOMAIN newClients' : newClients'[s] \in ClientInfo
    BY <2>2 DEF TypeOK, Delete, Restrict
  <2> QED BY <1>7, <2>1, <2>3, RemoveTyped DEF ClearExpiredClients, TypeOK
<1>8. CASE Tick
  <2>1. \A s \in DOMAIN newClients : Aged(newClients[s]) \in ClientInfo
    BY RecordsTyped DEF TypeOK
  <2>2. \A s \in DOMAIN clients : Aged(clients[s]) \in ClientInfo
    BY RecordsTyped DEF TypeOK
  <2> QED BY <1>8, <2>1, <2>2 DEF Tick, TypeOK
<1>9. CASE UNCHANGED vars
  BY <1>9 DEF vars, TypeOK
<1> QED BY <1>1, <1>2, <1>3, <1>4, <1>5, <1>6, <1>7, <1>8, <1>9 DEF Next

\* Every variable keeps its type, whatever packets arrive.
THEOREM TypeCorrect == Spec => []TypeOK
BY TypeInit, TypeStep, PTL DEF Spec

-----------------------------------------------------------------------------
(***************************************************************************)
(* Connection ids.  Nothing here depends on signatures being fresh.        *)
(***************************************************************************)

\* The bound on logins keeps the ids from repeating, as 2^32 does in practice.
IdsSuffice == MaxLogins <= IdSpace

LEMMA NextIdIsFresh ==
  ASSUME IdsSuffice, issued \in Nat, issued < MaxLogins
  PROVE  /\ NthId(issued) \in ConnectionIds
         /\ NthId(issued) \notin IssuedIds
         /\ Successor(NthId(issued)) = NthId(issued + 1)
<1> USE ServerAssumption DEF NthId, ConnectionIds, IdsSuffice
<1>1. NthId(issued) \in ConnectionIds
  OBVIOUS
<1>2. ASSUME NEW n \in 0 .. issued - 1 PROVE NthId(n) # NthId(issued)
  OBVIOUS
<1>3. NthId(issued) \notin IssuedIds
  BY <1>2 DEF IssuedIds
<1>4. Successor(NthId(issued)) = NthId(issued + 1)
  BY DEF Successor
<1> QED BY <1>1, <1>3, <1>4

LEMMA IssuedGrow ==
  ASSUME issued \in Nat, issued' = issued + 1
  PROVE  IssuedIds' = IssuedIds \union {NthId(issued)}
<1>1. 0 .. issued' - 1 = (0 .. issued - 1) \union {issued}
  OBVIOUS
<1> QED BY <1>1 DEF IssuedIds, NthId

\* The ids in the table were issued and the next one was not, half-open clients
\* have none, and every connected client resolves to itself.
IdInv ==
  /\ TypeOK
  /\ nextConnectionId = NthId(issued)
  /\ DOMAIN connectionIds \subseteq IssuedIds
  /\ \A s \in DOMAIN newClients : newClients[s].connectionId = None
  /\ OwnIdResolves

LEMMA IdInit == Init => IdInv
BY TypeInit, ServerAssumption
   DEF Init, IdInv, OwnIdResolves, EmptyMap, NthId, IssuedIds, ConnectionIds

\* Steps that leave the identities and the index alone: DATA, PING, ACK, time.
LEMMA IdUntouched ==
  ASSUME IdInv, TypeOK',
         DOMAIN clients' = DOMAIN clients,
         \A s \in DOMAIN clients : clients'[s].connectionId = clients[s].connectionId,
         DOMAIN newClients' = DOMAIN newClients,
         \A s \in DOMAIN newClients :
            newClients'[s].connectionId = newClients[s].connectionId,
         UNCHANGED <<connectionIds, nextConnectionId, issued>>
  PROVE  IdInv'
BY DEF IdInv, OwnIdResolves, IssuedIds, NthId

LEMMA IdConnect ==
  ASSUME IdsSuffice, IdInv, TypeOK', NEW s \in Signatures, NEW ticket \in Tickets,
         HandleConnect(s, ticket)
  PROVE  IdInv'
<1>1. newClients[s].connectionId = None /\ Promoted(s).connectionId = None
  <2>1. newClients[s] \in ClientInfo
    BY DEF HandleConnect, IdInv, TypeOK
  <2> QED BY <2>1 DEF HandleConnect, IdInv, Promoted, ClientInfo
<1>2. \A k \in DOMAIN newClients' : newClients'[k].connectionId = None
  BY DEF HandleConnect, IdInv, Delete, Restrict
<1>3. CASE ConnectAnonymously(s)
  BY <1>1, <1>2, <1>3 DEF ConnectAnonymously, IdInv, OwnIdResolves, Put, IssuedIds, NthId
<1>4. CASE ConnectAs(s, ticket.user)
  <2> DEFINE id == nextConnectionId
             c  == [Promoted(s) EXCEPT !.userId = ticket.user, !.connectionId = id]
  <2>1. issued \in Nat /\ issued < MaxLogins /\ issued' = issued + 1
    BY <1>4, ServerAssumption DEF ConnectAs, IdInv, TypeOK
  <2>2. /\ id = NthId(issued) /\ id \in ConnectionIds
        /\ id \notin DOMAIN connectionIds
        /\ nextConnectionId' = NthId(issued')
        /\ IssuedIds' = IssuedIds \union {id}
    BY <1>4, <2>1, NextIdIsFresh, IssuedGrow DEF ConnectAs, IdInv
  <2>3. connectionIds' = Put(connectionIds, id, s) /\ clients' = Put(clients, s, c)
    BY <1>4 DEF ConnectAs
  <2>4. c.connectionId = id
    <3>1. newClients[s] \in ClientInfo
      BY DEF HandleConnect, IdInv, TypeOK
    <3> QED BY <3>1 DEF Promoted, ClientInfo
  <2>5. DOMAIN connectionIds' \subseteq IssuedIds'
    BY <2>2, <2>3 DEF Put, IdInv
  <2>6. OwnIdResolves'
    <3> SUFFICES ASSUME NEW k \in DOMAIN clients', clients'[k].connectionId # None
                 PROVE  /\ clients'[k].connectionId \in DOMAIN connectionIds'
                        /\ connectionIds'[clients'[k].connectionId] = k
      BY DEF OwnIdResolves
    <3>1. CASE k = s
      <4>1. clients'[s] = c
        BY <2>3 DEF Put
      <4>2. id \in DOMAIN connectionIds' /\ connectionIds'[id] = s
        BY <2>3 DEF Put
      <4> QED BY <2>4, <3>1, <4>1, <4>2
    <3>2. CASE k # s
      <4>1. k \in DOMAIN clients /\ clients'[k] = clients[k]
        BY <2>3, <3>2 DEF Put
      <4>2. /\ clients[k].connectionId \in DOMAIN connectionIds
            /\ connectionIds[clients[k].connectionId] = k
        BY <4>1 DEF IdInv, OwnIdResolves
      <4> QED BY <2>2, <2>3, <4>1, <4>2 DEF Put
    <3> QED BY <3>1, <3>2
  <2>7. nextConnectionId' = NthId(issued)'
    BY <2>2 DEF NthId
  <2> QED BY <1>2, <2>5, <2>6, <2>7 DEF IdInv
<1> QED BY <1>3, <1>4 DEF HandleConnect

LEMMA IdRemove ==
  ASSUME IdInv, TypeOK', NEW gone \in SUBSET DOMAIN clients, RemoveClients(gone),
         UNCHANGED <<nextConnectionId, issued>>,
         \A s \in DOMAIN newClients' : newClients'[s].connectionId = None
  PROVE  IdInv'
<1> DEFINE ids == {clients[s].connectionId : s \in gone}
<1>1. clients' = Delete(clients, gone) /\ connectionIds' = Delete(connectionIds, ids)
  BY DEF RemoveClients
<1>2. OwnIdResolves'
  <2> SUFFICES ASSUME NEW s \in DOMAIN clients', clients'[s].connectionId # None
               PROVE  /\ clients'[s].connectionId \in DOMAIN connectionIds'
                      /\ connectionIds'[clients'[s].connectionId] = s
    BY DEF OwnIdResolves
  <2> DEFINE id == clients[s].connectionId
  <2>1. s \in DOMAIN clients \ gone /\ clients'[s] = clients[s]
    BY <1>1 DEF Delete, Restrict
  <2>2. id \in DOMAIN connectionIds /\ connectionIds[id] = s
    BY <2>1 DEF IdInv, OwnIdResolves
  <2>3. id \notin ids
    BY <2>1, <2>2 DEF IdInv, OwnIdResolves
  <2> QED BY <1>1, <2>1, <2>2, <2>3 DEF Delete, Restrict
<1>3. DOMAIN connectionIds' \subseteq IssuedIds'
  BY <1>1 DEF Delete, Restrict, IdInv, IssuedIds, NthId
<1>4. nextConnectionId' = NthId(issued)'
  BY DEF IdInv, NthId
<1> QED BY <1>2, <1>3, <1>4 DEF IdInv

LEMMA IdStep ==
  ASSUME IdsSuffice, IdInv, [Next]_vars
  PROVE  IdInv'
<1>0. TypeOK /\ TypeOK'
  BY TypeStep DEF IdInv
<1>1. ASSUME NEW s \in Signatures, HandleSyn(s) PROVE IdInv'
  <2>1. NewClient.connectionId = None
    BY DEF NewClient
  <2>2. \A k \in DOMAIN newClients' : newClients'[k].connectionId = None
    BY <1>1, <2>1 DEF HandleSyn, Put, IdInv
  <2> QED BY <1>0, <1>1, <2>2 DEF HandleSyn, IdInv, OwnIdResolves, IssuedIds, NthId
<1>2. ASSUME NEW s \in Signatures, NEW ticket \in Tickets, HandleConnect(s, ticket)
      PROVE  IdInv'
  BY <1>0, <1>2, IdConnect
<1>3. ASSUME NEW s \in Signatures, NEW fid \in FragmentIds, NEW payload \in Payloads,
             HandleData(s, fid, payload)
      PROVE  IdInv'
  <2>1. clients[s] \in ClientInfo
    BY <1>0, <1>3 DEF HandleData, TypeOK
  <2>2. WithFragment(clients[s], fid, payload).connectionId = clients[s].connectionId
    BY <2>1 DEF WithFragment, Seen, ClientInfo
  <2> QED BY <1>0, <1>3, <2>2, IdUntouched DEF HandleData
<1>4. ASSUME NEW s \in Signatures, HandlePing(s) PROVE IdInv'
  <2>1. Seen(clients[s]).connectionId = clients[s].connectionId
    BY <1>0, <1>4 DEF HandlePing, TypeOK, Seen, ClientInfo
  <2> QED BY <1>0, <1>4, <2>1, IdUntouched DEF HandlePing
<1>5. ASSUME NEW s \in Signatures, ReceiveAck(s) PROVE IdInv'
  <2>1. [clients[s] EXCEPT !.silent = 0].connectionId = clients[s].connectionId
    BY <1>0, <1>5 DEF ReceiveAck, TypeOK, ClientInfo
  <2> QED BY <1>0, <1>5, <2>1, IdUntouched DEF ReceiveAck
<1>6. ASSUME NEW s \in Signatures, HandleDisconnect(s) PROVE IdInv'
  BY <1>0, <1>6, IdRemove DEF HandleDisconnect, IdInv
<1>7. CASE ClearExpiredClients
  <2>1. PICK gone \in SUBSET DOMAIN clients : RemoveClients(gone)
    BY <1>7 DEF ClearExpiredClients
  <2>2. \A s \in DOMAIN newClients' : newClients'[s].connectionId = None
    BY <1>7 DEF ClearExpiredClients, Delete, Restrict, IdInv
  <2> QED BY <1>0, <1>7, <2>1, <2>2, IdRemove DEF ClearExpiredClients
<1>8. CASE Tick
  <2>1. \A s \in DOMAIN clients : Aged(clients[s]).connectionId = clients[s].connectionId
    BY <1>0 DEF TypeOK, Aged, ClientInfo
  <2>2. \A s \in DOMAIN newClients :
           Aged(newClients[s]).connectionId = newClients[s].connectionId
    BY <1>0 DEF TypeOK, Aged, ClientInfo
  <2> QED BY <1>0, <1>8, <2>1, <2>2, IdUntouched DEF Tick
<1>9. CASE UNCHANGED vars
  BY <1>0, <1>9, IdUntouched DEF vars
<1> QED BY <1>1, <1>2, <1>3, <1>4, <1>5, <1>6, <1>7, <1>8, <1>9 DEF Next

\* A logged in client is found under its own connection id, even when random
\* signatures collide: clientByConnectionId never misses it.
THEOREM OwnIdsResolve ==
  ASSUME IdsSuffice PROVE Spec => []OwnIdResolves
<1>1. IdInv /\ [Next]_vars => IdInv'
  BY IdStep
<1>2. IdInv => OwnIdResolves
  BY DEF IdInv
<1> QED BY IdInit, <1>1, <1>2, PTL DEF Spec

-----------------------------------------------------------------------------
(***************************************************************************)
(* The whole index, when no SYN draws a signature that is in use.          *)
(***************************************************************************)
IndexInv ==
  /\ IdInv
  /\ NoDanglingIds
  /\ IdentityIsWhole
  /\ HalfOpen

LEMMA IndexInit == Init => IndexInv
BY IdInit DEF Init, IndexInv, NoDanglingIds, IdentityIsWhole, HalfOpen, EmptyMap

\* Steps that leave identities, half-open clients and the index alone.
LEMMA IndexUntouched ==
  ASSUME IndexInv, IdInv',
         DOMAIN clients' = DOMAIN clients,
         \A s \in DOMAIN clients :
            /\ clients'[s].userId = clients[s].userId
            /\ clients'[s].connectionId = clients[s].connectionId,
         DOMAIN newClients' = DOMAIN newClients,
         \A s \in DOMAIN newClients :
            /\ newClients'[s].userId = newClients[s].userId
            /\ newClients'[s].connectionId = newClients[s].connectionId
            /\ newClients'[s].fragments = newClients[s].fragments,
         UNCHANGED connectionIds
  PROVE  IndexInv'
BY DEF IndexInv, NoDanglingIds, IdentityIsWhole, HalfOpen

LEMMA IndexConnect ==
  ASSUME IndexInv, IdInv', NEW s \in Signatures, NEW ticket \in Tickets,
         HandleConnect(s, ticket)
  PROVE  IndexInv'
<1>0. TypeOK
  BY DEF IndexInv, IdInv
<1>1. /\ s \in DOMAIN newClients /\ s \notin DOMAIN clients
      /\ newClients[s] \in ClientInfo
      /\ Promoted(s).userId = None /\ Promoted(s).connectionId = None
  BY <1>0 DEF HandleConnect, IndexInv, HalfOpen, Promoted, ClientInfo, TypeOK
<1>2. HalfOpen'
  <2>1. newClients' = Delete(newClients, {s})
    BY DEF HandleConnect
  <2>2. DOMAIN clients' = DOMAIN clients \union {s}
    BY DEF HandleConnect, ConnectAnonymously, ConnectAs, Put
  <2> QED BY <2>1, <2>2 DEF IndexInv, HalfOpen, Delete, Restrict
<1>3. CASE ConnectAnonymously(s)
  <2>1. connectionIds' = connectionIds /\ clients' = Put(clients, s, Promoted(s))
    BY <1>3 DEF ConnectAnonymously
  <2>2. NoDanglingIds'
    BY <1>1, <2>1 DEF IndexInv, NoDanglingIds, Put
  <2>3. IdentityIsWhole'
    BY <1>1, <2>1 DEF IndexInv, IdentityIsWhole, Put
  <2> QED BY <1>2, <2>2, <2>3 DEF IndexInv
<1>4. CASE ConnectAs(s, ticket.user)
  <2> DEFINE id == nextConnectionId
             c  == [Promoted(s) EXCEPT !.userId = ticket.user, !.connectionId = id]
  <2>1. connectionIds' = Put(connectionIds, id, s) /\ clients' = Put(clients, s, c)
    BY <1>4 DEF ConnectAs
  <2>2. c.userId # None /\ c.connectionId = id /\ id # None
    <3>1. Promoted(s) \in ClientInfo
      BY <1>1, RecordsTyped DEF Promoted
    <3>2. ticket.user # None /\ id # None
      BY <1>0, ServerAssumption DEF Tickets, TypeOK
    <3> QED BY <3>1, <3>2 DEF ClientInfo
  <2> HIDE DEF c
  <2>3. NoDanglingIds'
    <3> SUFFICES ASSUME NEW i \in DOMAIN connectionIds'
                 PROVE  /\ connectionIds'[i] \in DOMAIN clients'
                        /\ clients'[connectionIds'[i]].connectionId = i
      BY DEF NoDanglingIds
    <3>1. CASE i = id
      BY <2>1, <2>2, <3>1 DEF Put
    <3>2. CASE i # id
      <4>1. i \in DOMAIN connectionIds /\ connectionIds'[i] = connectionIds[i]
        BY <2>1, <3>2 DEF Put
      <4>2. /\ connectionIds[i] \in DOMAIN clients
            /\ clients[connectionIds[i]].connectionId = i
        BY <4>1 DEF IndexInv, NoDanglingIds
      <4> QED BY <1>1, <2>1, <4>1, <4>2 DEF Put
    <3> QED BY <3>1, <3>2
  <2>4. IdentityIsWhole'
    BY <2>1, <2>2 DEF IndexInv, IdentityIsWhole, Put
  <2> QED BY <1>2, <2>3, <2>4 DEF IndexInv
<1> QED BY <1>3, <1>4 DEF HandleConnect

LEMMA IndexRemove ==
  ASSUME IndexInv, IdInv', NEW gone \in SUBSET DOMAIN clients, RemoveClients(gone),
         DOMAIN newClients' \subseteq DOMAIN newClients,
         \A s \in DOMAIN newClients' : newClients'[s] = newClients[s]
  PROVE  IndexInv'
<1> DEFINE ids == {clients[s].connectionId : s \in gone}
<1>1. clients' = Delete(clients, gone) /\ connectionIds' = Delete(connectionIds, ids)
  BY DEF RemoveClients
<1>2. NoDanglingIds'
  <2> SUFFICES ASSUME NEW id \in DOMAIN connectionIds'
               PROVE  /\ connectionIds'[id] \in DOMAIN clients'
                      /\ clients'[connectionIds'[id]].connectionId = id
    BY DEF NoDanglingIds
  <2>1. /\ id \in DOMAIN connectionIds /\ id \notin ids
        /\ connectionIds'[id] = connectionIds[id]
    BY <1>1 DEF Delete, Restrict
  <2>2. /\ connectionIds[id] \in DOMAIN clients
        /\ clients[connectionIds[id]].connectionId = id
    BY <2>1 DEF IndexInv, NoDanglingIds
  <2>3. connectionIds[id] \notin gone
    BY <2>1, <2>2
  <2> QED BY <1>1, <2>1, <2>2, <2>3 DEF Delete, Restrict
<1>3. IdentityIsWhole'
  BY <1>1 DEF IndexInv, IdentityIsWhole, Delete, Restrict
<1>4. HalfOpen'
  BY <1>1 DEF IndexInv, HalfOpen, Delete, Restrict
<1> QED BY <1>2, <1>3, <1>4 DEF IndexInv

LEMMA IndexStep ==
  ASSUME IdsSuffice, ~AllowCollisions, IndexInv, [Next]_vars
  PROVE  IndexInv'
<1>0. TypeOK /\ IdInv'
  BY IdStep DEF IndexInv, IdInv
<1>1. ASSUME NEW s \in Signatures, HandleSyn(s) PROVE IndexInv'
  <2>1. /\ NewClient.userId = None /\ NewClient.connectionId = None
        /\ NewClient.fragments = NoFragments
    BY DEF NewClient
  <2>2. HalfOpen'
    BY <1>1, <2>1 DEF HandleSyn, Put, IndexInv, HalfOpen
  <2> QED BY <1>0, <1>1, <2>2 DEF HandleSyn, IndexInv, NoDanglingIds, IdentityIsWhole
<1>2. ASSUME NEW s \in Signatures, NEW ticket \in Tickets, HandleConnect(s, ticket)
      PROVE  IndexInv'
  BY <1>0, <1>2, IndexConnect
<1>3. ASSUME NEW s \in Signatures, NEW fid \in FragmentIds, NEW payload \in Payloads,
             HandleData(s, fid, payload)
      PROVE  IndexInv'
  <2>1. /\ WithFragment(clients[s], fid, payload).userId = clients[s].userId
        /\ WithFragment(clients[s], fid, payload).connectionId = clients[s].connectionId
    BY <1>0, <1>3 DEF HandleData, TypeOK, WithFragment, Seen, ClientInfo
  <2> QED BY <1>0, <1>3, <2>1, IndexUntouched DEF HandleData
<1>4. ASSUME NEW s \in Signatures, HandlePing(s) PROVE IndexInv'
  <2>1. /\ Seen(clients[s]).userId = clients[s].userId
        /\ Seen(clients[s]).connectionId = clients[s].connectionId
    BY <1>0, <1>4 DEF HandlePing, TypeOK, Seen, ClientInfo
  <2> QED BY <1>0, <1>4, <2>1, IndexUntouched DEF HandlePing
<1>5. ASSUME NEW s \in Signatures, ReceiveAck(s) PROVE IndexInv'
  <2>1. /\ [clients[s] EXCEPT !.silent = 0].userId = clients[s].userId
        /\ [clients[s] EXCEPT !.silent = 0].connectionId = clients[s].connectionId
    BY <1>0, <1>5 DEF ReceiveAck, TypeOK, ClientInfo
  <2> QED BY <1>0, <1>5, <2>1, IndexUntouched DEF ReceiveAck
<1>6. ASSUME NEW s \in Signatures, HandleDisconnect(s) PROVE IndexInv'
  BY <1>0, <1>6, IndexRemove DEF HandleDisconnect
<1>7. CASE ClearExpiredClients
  <2>1. PICK gone \in SUBSET DOMAIN clients : RemoveClients(gone)
    BY <1>7 DEF ClearExpiredClients
  <2>2. /\ DOMAIN newClients' \subseteq DOMAIN newClients
        /\ \A s \in DOMAIN newClients' : newClients'[s] = newClients[s]
    BY <1>7 DEF ClearExpiredClients, Delete, Restrict
  <2> QED BY <1>0, <2>1, <2>2, IndexRemove
<1>8. CASE Tick
  <2>1. \A s \in DOMAIN clients :
           /\ Aged(clients[s]).userId = clients[s].userId
           /\ Aged(clients[s]).connectionId = clients[s].connectionId
    BY <1>0 DEF TypeOK, Aged, ClientInfo
  <2>2. \A s \in DOMAIN newClients :
           /\ Aged(newClients[s]).userId = newClients[s].userId
           /\ Aged(newClients[s]).connectionId = newClients[s].connectionId
           /\ Aged(newClients[s]).fragments = newClients[s].fragments
    BY <1>0 DEF TypeOK, Aged, ClientInfo
  <2> QED BY <1>0, <1>8, <2>1, <2>2, IndexUntouched DEF Tick
<1>9. CASE UNCHANGED vars
  BY <1>0, <1>9, IndexUntouched DEF vars
<1> QED BY <1>1, <1>2, <1>3, <1>4, <1>5, <1>6, <1>7, <1>8, <1>9 DEF Next

\* As long as signatures are fresh, the two maps agree in both directions: each
\* connected client is found under its id and no id leads anywhere else.
THEOREM IndexCorrect ==
  ASSUME IdsSuffice, ~AllowCollisions PROVE Spec => []ConnectionIndex
<1>1. IndexInv /\ [Next]_vars => IndexInv'
  BY IndexStep
<1>2. IndexInv => ConnectionIndex
  BY DEF IndexInv, IdInv, ConnectionIndex
<1> QED BY IndexInit, <1>1, <1>2, PTL DEF Spec

\* A client is logged in exactly when it has a connection id, so that register()
\* of the secure connection service finds one for every logged in caller.
THEOREM IdentityWhole ==
  ASSUME IdsSuffice, ~AllowCollisions PROVE Spec => []IdentityIsWhole
<1>1. IndexInv /\ [Next]_vars => IndexInv'
  BY IndexStep
<1>2. IndexInv => IdentityIsWhole
  BY DEF IndexInv
<1> QED BY IndexInit, <1>1, <1>2, PTL DEF Spec

SettledStep ==
  \A s \in DOMAIN clients \intersect DOMAIN clients' :
    /\ clients'[s].userId = clients[s].userId
    /\ clients'[s].connectionId = clients[s].connectionId

LEMMA SettledByStep ==
  ASSUME IndexInv, [Next]_vars
  PROVE  SettledStep
<1>0. TypeOK
  BY DEF IndexInv, IdInv
<1>1. ASSUME NEW s \in Signatures, NEW ticket \in Tickets, HandleConnect(s, ticket)
      PROVE  SettledStep
  <2>1. s \notin DOMAIN clients
    BY <1>1 DEF HandleConnect, IndexInv, HalfOpen
  <2>2. \A k \in DOMAIN clients : clients'[k] = clients[k]
    BY <1>1, <2>1 DEF HandleConnect, ConnectAnonymously, ConnectAs, Put
  <2> QED BY <2>2 DEF SettledStep
<1>2. ASSUME NEW s \in Signatures, NEW fid \in FragmentIds, NEW payload \in Payloads,
             HandleData(s, fid, payload)
      PROVE  SettledStep
  BY <1>0, <1>2 DEF HandleData, TypeOK, WithFragment, Seen, ClientInfo, SettledStep
<1>3. ASSUME NEW s \in Signatures, HandlePing(s) \/ ReceiveAck(s) PROVE SettledStep
  <2>1. clients[s] \in ClientInfo
    BY <1>0, <1>3 DEF HandlePing, ReceiveAck, TypeOK
  <2>2. CASE HandlePing(s)
    BY <2>1, <2>2 DEF HandlePing, Seen, ClientInfo, SettledStep
  <2>3. CASE ReceiveAck(s)
    <3>1. clients' = [clients EXCEPT ![s] = [clients[s] EXCEPT !.silent = 0]]
      BY <2>3 DEF ReceiveAck
    <3> QED BY <2>1, <3>1 DEF ClientInfo, SettledStep
  <2> QED BY <1>3, <2>2, <2>3
<1>4. ASSUME NEW gone, RemoveClients(gone) PROVE SettledStep
  <2>1. clients' = Delete(clients, gone)
    BY <1>4 DEF RemoveClients
  <2> QED BY <2>1 DEF Delete, Restrict, SettledStep
<1>5. CASE Tick
  <2>1. clients' = [s \in DOMAIN clients |-> Aged(clients[s])]
    BY <1>5 DEF Tick
  <2>2. \A s \in DOMAIN clients :
           /\ Aged(clients[s]).userId = clients[s].userId
           /\ Aged(clients[s]).connectionId = clients[s].connectionId
    BY <1>0 DEF TypeOK, Aged, ClientInfo
  <2> QED BY <2>1, <2>2 DEF SettledStep
<1>6. ASSUME UNCHANGED clients PROVE SettledStep
  BY <1>6 DEF SettledStep
<1>7. ASSUME NEW s \in Signatures, HandleSyn(s) PROVE SettledStep
  BY <1>6, <1>7 DEF HandleSyn
<1>8. ASSUME NEW s \in Signatures, HandleDisconnect(s) PROVE SettledStep
  BY <1>4, <1>8 DEF HandleDisconnect
<1>9. CASE ClearExpiredClients
  BY <1>4, <1>9 DEF ClearExpiredClients
<1>10. CASE UNCHANGED vars
  BY <1>6, <1>10 DEF vars
<1> QED BY <1>1, <1>2, <1>3, <1>5, <1>7, <1>8, <1>9, <1>10 DEF Next

\* The CONNECT that promotes a client settles who it is: no later packet and no
\* timer step changes the user or the connection id of a connected client.
THEOREM IdentitySettled ==
  ASSUME IdsSuffice, ~AllowCollisions PROVE Spec => IdentityIsSettled
<1>1. IndexInv /\ [Next]_vars => IndexInv'
  BY IndexStep
<1>2. IndexInv /\ [Next]_vars => [SettledStep]_vars
  BY SettledByStep
<1>3. Spec => [][SettledStep]_vars
  BY IndexInit, <1>1, <1>2, PTL DEF Spec
<1> QED BY <1>3 DEF IdentityIsSettled, SettledStep

-----------------------------------------------------------------------------
(***************************************************************************)
(* The server implements the registry of connection ids.                   *)
(***************************************************************************)

LEMMA RegistryInit == Init => Registry!Init
BY DEF Init, Registry!Init, ResolvedIds, IssuedIds, EmptyMap

LEMMA RegistryStep ==
  ASSUME IdsSuffice, IndexInv, IndexInv', [Next]_vars
  PROVE  [Registry!Next]_(Registry!vars)
<1>0. TypeOK /\ TypeOK'
  BY DEF IndexInv, IdInv
<1>1. /\ ResolvedIds = [id \in DOMAIN connectionIds |-> connectionIds[id]]
      /\ ResolvedIds' = [id \in DOMAIN connectionIds' |-> connectionIds'[id]]
  BY DEF IndexInv, NoDanglingIds, ResolvedIds
<1>2. ASSUME UNCHANGED <<connectionIds, issued>> PROVE UNCHANGED Registry!vars
  BY <1>1, <1>2 DEF Registry!vars, IssuedIds, NthId
<1>3. ASSUME NEW s \in Signatures, NEW user, s \in DOMAIN newClients, ConnectAs(s, user)
      PROVE  Registry!Next
  <2> DEFINE id == nextConnectionId
  <2>1. issued \in Nat /\ issued < MaxLogins /\ issued' = issued + 1
    BY <1>0, <1>3, ServerAssumption DEF ConnectAs, TypeOK
  <2>2. /\ id \in ConnectionIds /\ id \notin IssuedIds
        /\ IssuedIds' = IssuedIds \union {id}
    BY <2>1, NextIdIsFresh, IssuedGrow DEF IndexInv, IdInv
  <2>3. \A i \in DOMAIN ResolvedIds : ResolvedIds[i] # s
    BY <1>1, <1>3 DEF IndexInv, NoDanglingIds, HalfOpen
  <2>4. connectionIds' = Put(connectionIds, id, s)
    BY <1>3 DEF ConnectAs
  <2>5. ResolvedIds' = [i \in DOMAIN ResolvedIds \union {id} |->
                          IF i = id THEN s ELSE ResolvedIds[i]]
    BY <1>1, <2>4 DEF Put
  <2>6. Registry!Register(id, s)
    BY <2>2, <2>3, <2>5 DEF Registry!Register
  <2> QED BY <2>2, <2>6 DEF Registry!Next
<1>4. ASSUME NEW gone \in SUBSET DOMAIN clients, RemoveClients(gone), UNCHANGED issued
      PROVE  Registry!Next
  <2> DEFINE ids  == {clients[s].connectionId : s \in gone}
             left == {id \in DOMAIN ResolvedIds : ResolvedIds[id] \notin gone}
  <2>1. connectionIds' = Delete(connectionIds, ids)
    BY <1>4 DEF RemoveClients
  <2>2. ASSUME NEW id \in DOMAIN connectionIds
        PROVE  id \in ids <=> connectionIds[id] \in gone
    <3>1. /\ connectionIds[id] \in DOMAIN clients
          /\ clients[connectionIds[id]].connectionId = id
      BY <2>2 DEF IndexInv, NoDanglingIds
    <3>2. ASSUME NEW s \in gone, clients[s].connectionId = id
          PROVE  connectionIds[id] = s
      <4>1. id # None
        BY <1>0, ServerAssumption DEF TypeOK
      <4> QED BY <3>2, <4>1 DEF IndexInv, IdInv, OwnIdResolves
    <3> QED BY <3>1, <3>2
  <2>3. left = DOMAIN connectionIds \ ids
    BY <1>1, <2>2
  <2>4. ResolvedIds' = Restrict(ResolvedIds, left)
    BY <1>1, <2>1, <2>3 DEF Delete, Restrict
  <2>5. IssuedIds' = IssuedIds
    BY <1>4 DEF IssuedIds, NthId
  <2>6. Registry!Release(gone)
    BY <2>4, <2>5 DEF Registry!Release, Registry!Restrict, Restrict
  <2>7. gone \in SUBSET Signatures
    BY <1>0 DEF TypeOK
  <2> QED BY <2>6, <2>7 DEF Registry!Next
<1>5. ASSUME NEW s \in Signatures, NEW ticket \in Tickets, HandleConnect(s, ticket)
      PROVE  [Registry!Next]_(Registry!vars)
  BY <1>2, <1>3, <1>5 DEF HandleConnect, ConnectAnonymously
<1>6. ASSUME NEW s \in Signatures, HandleDisconnect(s) PROVE Registry!Next
  BY <1>4, <1>6 DEF HandleDisconnect
<1>7. CASE ClearExpiredClients
  BY <1>4, <1>7 DEF ClearExpiredClients
<1> QED
  BY <1>2, <1>5, <1>6, <1>7
     DEF Next, HandleSyn, HandleData, HandlePing, ReceiveAck, Tick, vars

\* Every behaviour of the server is one of the registry: ids are handed out once,
\* name one connection each, and name nothing once that connection has ended.
THEOREM RegistryImplemented ==
  ASSUME IdsSuffice, ~AllowCollisions PROVE Spec => ImplementsRegistry
<1>1. IndexInv /\ [Next]_vars => IndexInv'
  BY IndexStep
<1>2. IndexInv /\ IndexInv' /\ [Next]_vars => [Registry!Next]_(Registry!vars)
  BY RegistryStep
<1> QED BY IndexInit, RegistryInit, <1>1, <1>2, PTL
       DEF Spec, ImplementsRegistry, Registry!Spec
=============================================================================
