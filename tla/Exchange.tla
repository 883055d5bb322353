------------------------------- MODULE Exchange -------------------------------
(***************************************************************************)
(* DATA packets between connected clients and a service: how PrudpServer   *)
(* takes the datagrams of its clients, hands whole messages to a handler,  *)
(* and sends the answers, the probes and the acknowledgements.             *)
(*                                                                         *)
(* A client is the object its handshake made (ClientInfo); its position in *)
(* infos is its server signature.  The handshake itself is the subject of  *)
(* PrudpServer, here it is one step.  The network may deliver the packets  *)
(* of the clients late, in another order, twice or not at all.             *)
(***************************************************************************)
EXTENDS Packets, Fragments, Maps

CONSTANTS
  Plans,               \* what clients may set out to do, with the faults that may happen
  Handle(_, _),        \* what the handler of the service makes of a call and a message
  MaxPayload,          \* MAX_PAYLOAD_SIZE, in cells
  SequenceSpace,       \* number of sequence ids, 65536
  FirstConnectionId    \* FIRST_CONNECTION_ID

ASSUME ExchangeAssumption ==
  /\ MaxPayload \in Nat \ {0} /\ MaxPayload <= MaxDecompressedSize
  /\ SequenceSpace \in Nat \ {0}
  /\ FirstConnectionId \in Nat \ {0}

\* An undefined user or connection id.
Nobody == 0

VARIABLES
  plan,              \* the one of the plans this behaviour follows
  infos,             \* the ClientInfo objects ever connected, by server signature
  clients,           \* the signatures of those connected
  connectionIds,     \* connection id -> signature
  nextConnectionId,
  flight,            \* copies of datagrams on their way to the server
  packets,           \* what is left of the datagram being handled
  jobs,              \* the messages given to the handler, with what became of them
  acked, answered, probed    \* the packets sent to each client, by their purpose

server == <<infos, clients, connectionIds, nextConnectionId>>
logs == <<acked, answered, probed>>
vars == <<plan, server, flight, packets, jobs, logs>>

Signatures == 1 .. Len(infos)

Init ==
  /\ \E i \in DOMAIN Plans : plan = Plans[i]
  /\ infos = << >>
  /\ clients = {}
  /\ connectionIds = EmptyMap
  /\ nextConnectionId = FirstConnectionId
  /\ flight = [sent |-> 0, copies |-> {}, lost |-> 0, repeated |-> 0]
  /\ packets = << >>
  /\ jobs = << >>
  /\ acked = << >> /\ answered = << >> /\ probed = << >>

\* A datagram is handled, and a promise resolved, before anything else happens.
Idle == packets = << >>

-----------------------------------------------------------------------------
(***************************************************************************)
(* Clients come and go.                                                    *)
(***************************************************************************)
ClientInfo(guest, id) ==
  [address |-> guest.address, userId |-> guest.userId, connectionId |-> id,
   clientSignature |-> guest.signature, clientSession |-> guest.session,
   serverSession |-> guest.serverSession,
   serverSequenceId |-> 1 % SequenceSpace, clientSequenceId |-> 1 % SequenceSpace,
   packetFragments |-> NoFragments]

\* SYN and CONNECT of the next guest. One with a ticket gets its user and a
\* connection id.
Connect ==
  /\ Idle
  /\ Len(infos) < Len(plan.guests)
  /\ LET guest == plan.guests[Len(infos) + 1]
         id    == IF guest.userId = Nobody THEN Nobody ELSE nextConnectionId
     IN  /\ infos' = Append(infos, ClientInfo(guest, id))
         /\ clients' = clients \union {Len(infos) + 1}
         /\ connectionIds' = IF id = Nobody THEN connectionIds
                             ELSE Put(connectionIds, id, Len(infos) + 1)
         /\ nextConnectionId' = IF id = Nobody THEN nextConnectionId
                                ELSE nextConnectionId + 1
  /\ acked' = Append(acked, << >>)
  /\ answered' = Append(answered, << >>)
  /\ probed' = Append(probed, << >>)
  /\ UNCHANGED <<plan, flight, packets, jobs>>

\* removeClient, after a DISCONNECT or a minute of silence.
Leave(s) ==
  /\ Idle
  /\ s \in clients /\ s \in plan.leaving
  /\ clients' = clients \ {s}
  /\ connectionIds' = Delete(connectionIds, {infos[s].connectionId})
  /\ UNCHANGED <<plan, infos, nextConnectionId, flight, packets, jobs, logs>>

-----------------------------------------------------------------------------
(***************************************************************************)
(* The network. The clients send the pieces of their messages in order,    *)
(* patient ones each after the last has arrived.  A copy is told apart by  *)
(* its number.                                                             *)
(***************************************************************************)
PacketOfClient(piece) ==
  LET message == plan.pieces[piece]
      client  == infos[message.from]
  IN  [source |-> message.source, destination |-> message.destination,
       packetType |-> "data", flags |-> message.flags, sessionId |-> client.clientSession,
       signature |-> message.from, sequence |-> (piece + 1) % SequenceSpace,
       fragmentId |-> message.fragmentId, payload |-> message.payload,
       useCompression |-> message.compressed]

Damaged(cells) == Append(Front(cells), [damaged |-> TRUE])

\* The datagram a piece travels in: alone, with a damaged one before it, or with
\* one after it that was cut off.
Datagram(piece) ==
  LET cells == ToBytes(PacketOfClient(piece))
  IN  CASE plan.pieces[piece].wrapping = "alone"   -> cells
        [] plan.pieces[piece].wrapping = "damaged" -> Damaged(cells) \o cells
        [] plan.pieces[piece].wrapping = "cut"     -> cells \o Front(cells)

Send ==
  /\ Idle
  /\ flight.sent < Len(plan.pieces)
  /\ plan.pieces[flight.sent + 1].from \in Signatures
  /\ plan.patient => flight.copies = {}
  /\ \E from \in plan.pieces[flight.sent + 1].addresses :
       flight' = [flight EXCEPT
                   !.sent = @ + 1,
                   !.copies = @ \union {[piece |-> flight.sent + 1, from |-> from, copy |-> 0]}]
  /\ UNCHANGED <<plan, server, packets, jobs, logs>>

Repeat(copy) ==
  /\ Idle
  /\ flight.repeated < plan.repeats
  /\ copy.copy = 0
  /\ flight' = [flight EXCEPT !.repeated = @ + 1,
                              !.copies = @ \union {[copy EXCEPT !.copy = flight.repeated + 1]}]
  /\ UNCHANGED <<plan, server, packets, jobs, logs>>

Lose(copy) ==
  /\ Idle
  /\ flight.lost < plan.losses
  /\ flight' = [flight EXCEPT !.lost = @ + 1, !.copies = @ \ {copy}]
  /\ UNCHANGED <<plan, server, packets, jobs, logs>>

Taken(received, copy) ==
  [i \in DOMAIN received |-> [packet |-> received[i], from |-> copy.from, piece |-> copy.piece]]

\* handleDatagram: the packets that can be read and have the right checksum.
Arrive(copy) ==
  /\ Idle
  /\ flight' = [flight EXCEPT !.copies = @ \ {copy}]
  /\ packets' = Taken(PacketsOf(Datagram(copy.piece)), copy)
  /\ UNCHANGED <<plan, server, jobs, logs>>

-----------------------------------------------------------------------------
(***************************************************************************)
(* What the server sends.                                                  *)
(***************************************************************************)
ServerFlags == {"HasSize", "NeedAck", "Reliable"}

\* sendAck: the packet itself without its payload.
Ack(s, header, fragmentId, to) ==
  [to |-> to, source |-> header.destination, destination |-> header.source,
   packetType |-> header.packetType, flags |-> {"Ack", "HasSize"},
   sessionId |-> infos[s].serverSession, signature |-> infos[s].clientSignature,
   sequence |-> header.sequence, fragmentId |-> fragmentId, payload |-> << >>,
   useCompression |-> TRUE]

\* The number of fragments, rounded up.
Count(data) == (Len(data) + MaxPayload - 1) \div MaxPayload

\* Mutant: fragments are numbered down to 1.
FragmentIdFromCount(count, i) == count - i + 1

\* Fragments are numbered down to 0.
FragmentId(count, i) == count - i

Chunk(data, i) ==
  SubSeq(data, (i - 1) * MaxPayload + 1,
         IF i * MaxPayload < Len(data) THEN i * MaxPayload ELSE Len(data))

\* Mutants: an answer goes to the address of the handshake; it carries the
\* sequence id the client had at the request.
AnswerToHandshake(s, job) == infos[s].address
SequenceOfRequest(s, job) == job.sequence

AnswerTo(s, job) == job.from
AnswerSequence(s, job) == infos[s].serverSequenceId

\* sendResponse: the i-th fragment of an answer.
AnswerPacket(s, job, i) ==
  [to |-> AnswerTo(s, job), source |-> job.header.destination, destination |-> job.header.source,
   packetType |-> "data", flags |-> ServerFlags,
   sessionId |-> infos[s].serverSession, signature |-> infos[s].clientSignature,
   sequence |-> (AnswerSequence(s, job) + i - 1) % SequenceSpace,
   fragmentId |-> FragmentId(Count(job.response), i), payload |-> Chunk(job.response, i),
   useCompression |-> TRUE]

\* sendMessage.
Fragmented(s, job) == [i \in 1 .. Count(job.response) |-> AnswerPacket(s, job, i)]

\* Mutant: an answer counts once, however many fragments it has.
NextSequenceIdOfAnswer(s, job) == (infos[s].serverSequenceId + 1) % SequenceSpace

NextSequenceId(s, job) == (infos[s].serverSequenceId + Count(job.response)) % SequenceSpace

\* sendRequest: the n-th probe of a call to the same client.
ProbePacket(s, data, n) ==
  [to |-> infos[s].address, source |-> VPort(1, RVSec), destination |-> VPort(15, RVSec),
   packetType |-> "data", flags |-> ServerFlags,
   sessionId |-> infos[s].clientSession, signature |-> s,
   sequence |-> (infos[s].clientSequenceId + n - 1) % SequenceSpace,
   fragmentId |-> 0, payload |-> data, useCompression |-> TRUE]

\* requestProbeInitiationExt calls it for one client after another.
SendProbe(sent, probe) ==
  LET s == connectionIds[probe.connectionId]
  IN  [sent EXCEPT ![s] = Append(@, ProbePacket(s, probe.data, Len(@) + 1))]

\* What each client is sent.
ProbePackets(probes) == FoldLeft(SendProbe, [s \in Signatures |-> << >>], probes)

-----------------------------------------------------------------------------
(***************************************************************************)
(* What the server receives.                                               *)
(***************************************************************************)
\* clientByConnectionId finds these.
Connected == {id \in DOMAIN connectionIds : connectionIds[id] \in clients}

Call(s) ==
  [userId |-> infos[s].userId, connectionId |-> infos[s].connectionId,
   address |-> infos[s].address, connected |-> Connected, world |-> plan.world]

Head1 == packets[1]
Sender == Head1.packet.header.signature

\* The message a fragment completes, if it does.
Completes(info, packet) ==
  packet.fragmentId = 0 /\ IsComplete(info.packetFragments)

\* There is a handler for the port of a service only.
HasHandler(header) == header.destination = VPort(1, RVSec)

TakePacket ==
  /\ packets # << >>
  /\ packets' = Tail(packets)

\* handlePacket: an acknowledgement, or a client the server does not know.
Ignore ==
  /\ TakePacket
  /\ "Ack" \in Head1.packet.header.flags \/ Sender \notin clients
  /\ UNCHANGED <<plan, server, flight, jobs, logs>>

\* A job: a message given to the handler and what came of it. An asynchronous
\* one is pending until it finishes. (The call and the sequence id are only recorded.)
JobOf(s, data, result) ==
  [client |-> s, header |-> Head1.packet.header, from |-> Head1.from, piece |-> Head1.piece,
   call |-> Call(s), data |-> data, answered |-> result.answered,
   sequence |-> infos[s].serverSequenceId,
   pending |-> result.answered /\ result.async,
   becomes |-> IF result.answered THEN result.userId ELSE Nobody,
   response |-> IF result.answered THEN result.response ELSE << >>,
   probes |-> IF result.answered THEN result.probes ELSE << >>]

LoginOf(s, job) == IF job.becomes = Nobody THEN infos[s].userId ELSE job.becomes

Acknowledge(s) ==
  acked' = [acked EXCEPT ![s] =
             Append(@, Ack(s, Head1.packet.header, Head1.packet.fragmentId, Head1.from))]

\* handleData, when the packet gives the handler nothing: a fragment that does
\* not complete its message, or a port without a handler.
HandleFragment ==
  /\ TakePacket
  /\ "Ack" \notin Head1.packet.header.flags
  /\ Sender \in clients
  /\ Completes(infos[Sender], Head1.packet) => ~HasHandler(Head1.packet.header)
  /\ Acknowledge(Sender)
  /\ infos' = [infos EXCEPT ![Sender].packetFragments =
                 NextBuffer(@, Head1.packet.fragmentId, Head1.packet.payload)]
  /\ UNCHANGED <<plan, clients, connectionIds, nextConnectionId, flight, jobs, answered, probed>>

\* handleData with a whole message: acknowledged, handled, and answered at once
\* unless the handler is asynchronous or fails. Probes leave before the answer.
HandleMessage ==
  /\ TakePacket
  /\ "Ack" \notin Head1.packet.header.flags
  /\ Sender \in clients
  /\ Completes(infos[Sender], Head1.packet) /\ HasHandler(Head1.packet.header)
  /\ Acknowledge(Sender)
  /\ LET s      == Sender
         data   == Reassembled(infos[s].packetFragments, Head1.packet.payload)
         result == Handle(Call(s), data)
         job    == JobOf(s, data, result)
         now    == job.answered /\ ~job.pending
         sent   == ProbePackets(job.probes)
     IN  /\ jobs' = Append(jobs, job)
         /\ answered' = [answered EXCEPT ![s] = IF now THEN @ \o Fragmented(s, job) ELSE @]
         /\ probed' = [c \in Signatures |-> probed[c] \o sent[c]]
         /\ infos' = [c \in Signatures |->
              [infos[c] EXCEPT
                !.packetFragments = IF c = s THEN NoFragments ELSE @,
                !.serverSequenceId = IF c = s /\ now THEN NextSequenceId(s, job) ELSE @,
                !.userId = IF c = s /\ now THEN LoginOf(s, job) ELSE @,
                !.clientSequenceId = (@ + Len(sent[c])) % SequenceSpace]]
  /\ UNCHANGED <<plan, clients, connectionIds, nextConnectionId, flight>>

\* Mutant: only clients that are still connected get their answer.
PendingIfConnected(job) == job.pending /\ job.client \in clients

Pending(job) == job.pending

\* Mutant: a promise is fulfilled again and again.
StillPending(job) == job

Finished(job) == [job EXCEPT !.pending = FALSE]

\* The promise of an asynchronous handler is fulfilled: the answer goes out on the
\* connection that asked, whatever has become of it.
FinishJob(j) ==
  /\ Idle
  /\ Pending(jobs[j])
  /\ jobs' = [jobs EXCEPT ![j] = Finished(@)]

Finish(j) ==
  /\ FinishJob(j)
  /\ LET s == jobs[j].client
     IN  /\ answered' = [answered EXCEPT ![s] = @ \o Fragmented(s, jobs[j])]
         /\ infos' = [infos EXCEPT ![s].serverSequenceId = NextSequenceId(s, jobs[j]),
                                   ![s].userId = LoginOf(s, jobs[j])]
  /\ UNCHANGED <<plan, clients, connectionIds, nextConnectionId, flight, packets, acked, probed>>

Work ==
  \/ Ignore
  \/ HandleFragment
  \/ HandleMessage
  \/ \E j \in DOMAIN jobs : Finish(j)

Next ==
  \/ Work
  \/ Connect
  \/ \E s \in Signatures : Leave(s)
  \/ Send
  \/ \E copy \in flight.copies : Repeat(copy) \/ Lose(copy) \/ Arrive(copy)

Spec == Init /\ [][Next]_vars

\* The event loop runs what is ready: it takes the packets it has received, and
\* a worker thread that verifies a password comes to an end.
Fairness == WF_packets(TakePacket) /\ WF_jobs(\E j \in DOMAIN jobs : FinishJob(j))
FairSpec == Spec /\ Fairness

-----------------------------------------------------------------------------
(***************************************************************************)
(* What the clients of the tests make of the packets they get.             *)
(***************************************************************************)
\* onDatagram: what a client reads of a packet, as it comes off the wire.
Received(packet) == PacketsOf(ToBytes(packet))[1]

\* receiveRmc: payloads up to a fragment 0 are one message.
Collect(got, received) ==
  IF received.fragmentId = 0
  THEN [messages |-> Append(got.messages, got.parts \o received.payload), parts |-> << >>]
  ELSE [got EXCEPT !.parts = @ \o received.payload]

CollectPacket(got, packet) == Collect(got, Received(packet))

Messages(log) == FoldLeft(CollectPacket, [messages |-> << >>, parts |-> << >>], log).messages

JobsOf(s) == {j \in DOMAIN jobs : jobs[j].client = s}

-----------------------------------------------------------------------------
(***************************************************************************)
(* Safety.                                                                 *)
(***************************************************************************)
IsUnbroken(log, info) ==
  \A i \in DOMAIN log :
    /\ log[i].sequence = i % SequenceSpace
    /\ log[i].sessionId = info.serverSession
    /\ log[i].signature = info.clientSignature
    /\ log[i].fragmentId # 0 =>
         /\ i < Len(log)
         /\ log[i + 1].fragmentId = log[i].fragmentId - 1
         /\ log[i + 1].to = log[i].to

\* The fragments of an answer leave next to each other, count down to 0 and go to one
\* address, and the sequence ids of a connection have no holes: no answer, whichever
\* handler finishes first, comes between the fragments of another.
AnswersAreUnbroken == \A s \in Signatures : IsUnbroken(answered[s], infos[s])

\* However often the network repeats a request, each copy that the server handles is
\* answered once: with the job itself or when its promise is fulfilled, not both.
AnswersAreSentOnce ==
  \A s \in Signatures :
    Len(Messages(answered[s])) =
      Cardinality({j \in JobsOf(s) : jobs[j].answered /\ ~jobs[j].pending})

\* The sequence ids of what a client gets are consecutive, for the answers on one
\* counter and for the probes on the other, whichever handlers finish first.
Consecutive(log) ==
  \A i \in DOMAIN log : Received(log[i]).header.sequence = i % SequenceSpace
SequencesAreConsecutive ==
  \A s \in Signatures : Consecutive(answered[s]) /\ Consecutive(probed[s])

BelongsTo(header, info) ==
  header.signature = info.clientSignature /\ header.sessionId = info.serverSession

\* An answer, however late, belongs to the connection that asked: it carries that
\* connection's signature and session, and goes where the request came from, even if
\* the client has left or somebody else connected from its address.
LateAnswersKeepTheirSession ==
  \A s \in Signatures : \A i \in DOMAIN answered[s] :
    /\ BelongsTo(Received(answered[s][i]).header, infos[s])
    /\ \E j \in JobsOf(s) : answered[s][i].to = jobs[j].from
===============================================================================
