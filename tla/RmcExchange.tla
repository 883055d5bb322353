----------------------------- MODULE RmcExchange -----------------------------
(***************************************************************************)
(* The protocols of the services over PRUDP: Exchange with the dispatcher  *)
(* as its handler, and what its clients make of the packets they get.      *)
(*                                                                         *)
(* A plan has calls, which the clients make in this order; the position of *)
(* a call is its call id.  What a call is to come to is told here without  *)
(* the wire: by its value, not by the bytes it is sent as.                 *)
(***************************************************************************)
EXTENDS Exchange, Services

-----------------------------------------------------------------------------
(***************************************************************************)
(* The client side, as the client of the tests does it.                    *)
(***************************************************************************)
CLIENT_PORT == VPort(15, RVSec)
SERVER_PORT == VPort(1, RVSec)

RequestOf(calls, k) ==
  [type |-> "request", protocolId |-> calls[k].protocolId, callId |-> k,
   methodId |-> calls[k].methodId, parameters |-> calls[k].parameters]

\* callRaw: a request, unless the plan is to send something else.
MessageOf(calls, k) ==
  IF calls[k].data = << >> THEN EncodeRmcRequest(RequestOf(calls, k)) ELSE calls[k].data

\* Chunks of a message of at most this many cells, at least one.
Chunks(cells, size) ==
  LET count == IF cells = << >> THEN 1 ELSE (Len(cells) + size - 1) \div size
  IN  [i \in 1 .. count |->
         SubSeq(cells, (i - 1) * size + 1, IF i < count THEN i * size ELSE Len(cells))]

\* sendData: fragments 1, 2, ..., the last one is 0.
PiecesOf(calls, k) ==
  LET call  == calls[k]
      parts == GameFragments(Chunks(MessageOf(calls, k), call.fragmentSize))
  IN  [i \in DOMAIN parts |->
         [call |-> k, from |-> call.from, source |-> CLIENT_PORT, destination |-> call.destination,
          flags |-> call.flags, fragmentId |-> parts[i].fid, payload |-> parts[i].payload,
          compressed |-> call.compressed, wrapping |-> call.wrapping,
          addresses |-> call.addresses]]

Pieces(calls) == FlattenSeq([k \in DOMAIN calls |-> PiecesOf(calls, k)])

-----------------------------------------------------------------------------
(***************************************************************************)
(* What a plan may ask for.                                                *)
(***************************************************************************)
IsSequence(q) == q \in Seq(Range(q))

\* The client does not send what it could not send whole: a message fits the buffer of
\* the server, its fragments have ids of their own, and a fragment fits a packet.
\* HasSize marks where a packet ends that others follow.
IsSendable(call, message) ==
  /\ IsSequence(message) /\ Len(message) <= MaxReassembledSize
  /\ call.fragmentSize \in 1 .. MaxDecompressedSize
  /\ Len(Chunks(message, call.fragmentSize)) <= FragmentIdSpace
  /\ \A i \in DOMAIN message : "crypt" \notin DOMAIN message[i]
  /\ call.wrapping \in {"alone", "damaged", "cut"}
  /\ call.wrapping # "alone" => "HasSize" \in call.flags

\* Ids from 127 to 254 do not survive encodeRmcRequest; no protocol has one.
IsProtocolId(id) == id \in Nat /\ id < 65536 /\ id \notin 127 .. 254

\* Complete parameters are read as the value of the call, others not at all.
IsReadAs(read, call) ==
  IF call.incomplete THEN ~read.ok ELSE read.ok /\ read.value = call.value

IsRequest(service, call) ==
  LET found == Registration(service, call.protocolId)
      read  == Read(found[1].methods[call.methodId].request, call.parameters)
  IN  /\ IsSequence(call.parameters)
      /\ IsProtocolId(call.protocolId)
      /\ call.methodId \in Nat /\ call.methodId < 32768
      /\ found # << >> /\ call.methodId \in DOMAIN found[1].methods => IsReadAs(read, call)

\* Other things than requests go unanswered.
IsNoRequest(data) ==
  LET packet == ParseRmcPacket(data) IN packet.ok => packet.value.type = "response"

IsPlannedCall(calls, k, guests, service) ==
  /\ calls[k].from \in 1 .. Len(guests)
  /\ IsSendable(calls[k], MessageOf(calls, k))
  /\ IF calls[k].data = << >> THEN IsRequest(service, calls[k]) ELSE IsNoRequest(calls[k].data)

\* Nothing gets lost or comes out of order.
IsCalm(p) == p.patient /\ p.repeats = 0 /\ p.losses = 0

\* Tickets are still valid, and not sealed with the key of TicketsLetIn that is not theirs.
IsTimely(world) == world.now \in 0 .. VALID_FOREVER /\ world.ticketKey # "another key"

\* Fragments of different messages have the same ids: over a network that is not calm
\* a message is one fragment.
IsPlan(p) ==
  /\ IsSequence(p.calls) /\ Len(p.guests) \in Nat
  /\ p.pieces = Pieces(p.calls)
  /\ IsTimely(p.world)
  /\ \A k \in DOMAIN p.calls : IsPlannedCall(p.calls, k, p.guests, p.world.service)
  /\ IsCalm(p) \/ \A k \in DOMAIN p.calls : Len(PiecesOf(p.calls, k)) = 1

ASSUME PlansAssumption == \A i \in DOMAIN Plans : IsPlan(Plans[i])

-----------------------------------------------------------------------------
CallOf(job) == plan.calls[plan.pieces[job.piece].call]
CallIdOf(job) == plan.pieces[job.piece].call

\* What a call is to come to, an error or a value; found is the registration of its
\* protocol, if any.
Outcome(found, call, at) ==
  LET known == call.methodId \in DOMAIN found[1].methods
      key   == found[1].methods[call.methodId].key
  IN  IF found = << >> THEN Refuse("UnknownProtocol")
      ELSE IF call.protocolId \in HandMade /\ at.userId = Undefined THEN Refuse("AccessDenied")
      ELSE IF ~known THEN Refuse("UnknownMethod")
      ELSE IF call.incomplete THEN Refuse("ParsingError")
      ELSE IF call.protocolId \in HandMade THEN Overlord(found[1], key, at)
      ELSE Handler(call.protocolId, key, call.value, at)

\* An error response; a value that cannot be written is one, too.
SaysError(response, error) == ~response.ok /\ response.errorCode = ErrorCodes[error]

\* The client cannot read texts that end with a NUL of their own: the tags of the user
\* group.
IsReadable(call, at) == call.protocolId # 1001 \/ ~at.world.settings.tracking

\* The client reads the value back from the response, if it is readable.
SaysValue(response, type, value, readable) ==
  IF IsWritten(Write(type, value))
  THEN response.ok /\ (readable => Read(type, response.data) = Got(value, << >>))
  ELSE SaysError(response, "InternalError")

Says(response, found, outcome, call, at) ==
  IF outcome.error # "" THEN SaysError(response, outcome.error)
  ELSE /\ response.ok => response.methodId = call.methodId
       /\ SaysValue(response, found[1].methods[call.methodId].response, outcome.value,
                    IsReadable(call, at))

SaysOutcome(response, found, call, at) == Says(response, found, Outcome(found, call, at), call, at)

\* An answer to this job: to its call, with what the call is to come to.
Answers(answer, job) ==
  /\ answer.ok
  /\ answer.value.type = "response"
  /\ answer.value.callId = CallIdOf(job)
  /\ answer.value.protocolId = CallOf(job).protocolId
  /\ SaysOutcome(answer.value,
                 Registration(plan.world.service, CallOf(job).protocolId),
                 CallOf(job), job.call)

-----------------------------------------------------------------------------
(***************************************************************************)
(* Safety.                                                                 *)
(***************************************************************************)
\* What the dispatcher reads is what a client called: protocol id, method id and
\* parameters survive the RMC encoding, the compression and encryption of packets,
\* fragments, and datagrams with damaged or truncated neighbours.
HandlersGetWhatWasSent ==
  \A j \in DOMAIN jobs :
    CallOf(jobs[j]).data = << >> =>
      /\ CallOf(jobs[j]).from = jobs[j].client
      /\ ParseRmcPacket(jobs[j].data) = Got(RequestOf(plan.calls, CallIdOf(jobs[j])), << >>)

MatchCalls(s, messages) ==
  \A m \in DOMAIN messages :
    Count(messages[m]) <= FragmentIdSpace =>
      \E j \in JobsOf(s) : Answers(ParseRmcPacket(messages[m]), jobs[j])

\* A client that puts the fragments of an answer together, reads the message and
\* decodes it as the method's response finds what the handler answered to a call of
\* its own, or the error the call was to fail with. This holds for answers of up to
\* 256 fragments; the fragment id of a longer one does not fit its byte.
AnswersMatchCalls == \A s \in Signatures : MatchCalls(s, Messages(answered[s]))

HoldsNothing(answer) == answer.value.ok => answer.value.data = << >>
HoldNothing(messages) == \A m \in DOMAIN messages : HoldsNothing(ParseRmcPacket(messages[m]))

\* Nobody but a user gets data from the secure service or has it send probes.
StrangersGetNothing ==
  plan.world.service = "secure" =>
    /\ \A s \in Signatures : infos[s].userId = Undefined => HoldNothing(Messages(answered[s]))
    /\ (\A j \in DOMAIN jobs : jobs[j].call.userId = Undefined) =>
         \A s \in Signatures : probed[s] = << >>

\* The probe of a target of this request.
IsProbe(probe, connectionId, asked) ==
  /\ \E t \in DOMAIN asked.urlTargetList : asked.urlTargetList[t].rvcid = connectionId
  /\ probe.ok
  /\ probe.value.type = "request"
  /\ Read(Auth!InitiateProbe.request, probe.value.parameters).value
       = [urlStationToProbe |-> asked.urlStationToProbe]

NewProbes(s) == SubSeq(probed[s]', Len(probed[s]) + 1, Len(probed[s]'))

Reaches(probe, s) ==
  /\ s \in clients
  /\ probe.to = infos[s].address
  /\ IsProbe(ParseRmcPacket(Received(probe).payload),
             infos[s].connectionId, CallOf(jobs'[Len(jobs')]).value)

ProbesReach == \A s \in Signatures : \A i \in DOMAIN NewProbes(s) : Reaches(NewProbes(s)[i], s)

\* A probe goes to a client that is connected at this moment and was named as a
\* target by a user, and asks it to probe the station of the request.
ProbesReachTheConnected == [][ProbesReach]_vars

(***************************************************************************)
(* Tickets in answers.                                                     *)
(***************************************************************************)
\* The ticket in the value of an answer to one of the logins, with the user and the
\* password its client is to open it with; none for other answers.
TicketIn(job, value) ==
  LET found    == Registration(plan.world.service, CallOf(job).protocolId)
      key      == found[1].methods[CallOf(job).methodId].key
      call     == job.call
      request  == CallOf(job).value
      plain(u) == PlaintextPassword(call, u)
  IN  CASE key = "login"   ->
             <<[data |-> value.pbufResponse, pid |-> value.pidPrincipal,
                password |-> plain(value.pidPrincipal)]>>
        [] key = "loginEx" ->
             <<[data |-> value.pbufResponse, pid |-> value.pidPrincipal, password |-> << >>]>>
        [] key = "requestTicket" ->
             <<[data |-> value.bufResponse, pid |-> request.idSource,
                password |-> plain(request.idSource)]>>
        [] OTHER -> << >>

TicketsOf(job) ==
  LET answer == ParseRmcPacket(job.response)
      found  == Registration(plan.world.service, CallOf(job).protocolId)
  IN  IF plan.world.service # "auth" \/ ~job.answered \/ ~answer.ok \/ ~answer.value.ok
      THEN << >>
      ELSE TicketIn(job, Read(found[1].methods[CallOf(job).methodId].response,
                              answer.value.data).value)

\* What the secure service gets of a CONNECT with this payload.
Connecting(payload) ==
  LET packet == [source |-> CLIENT_PORT, destination |-> SERVER_PORT, packetType |-> "connect",
                 flags |-> {"Reliable", "NeedAck", "HasSize"}, sessionId |-> 0, signature |-> 1,
                 sequence |-> 1, connSignature |-> 2, payload |-> payload,
                 useCompression |-> FALSE]
  IN  PacketsOf(ToBytes(packet))[1].payload

LetsIn(ticket, opened, challenge) ==
  LET payload == Connecting(ConnectPayload(opened.value, ticket.pid, challenge))
      result  == AcceptTicket(payload, plan.world.ticketKey, plan.world.now)
  IN  /\ result.userId = ticket.pid
      /\ ReadBuffer(4, result.payload) = Got(Successor(challenge), << >>)
      /\ AcceptTicket(payload, "another key", plan.world.now) = Refused
      /\ AcceptTicket(payload, plan.world.ticketKey, VALID_FOREVER + 1) = Refused
      /\ AcceptTicket(Front(payload), plan.world.ticketKey, plan.world.now) = Refused

Passwords ==
  {DEFAULT_PASSWORD} \union {plan.world.accounts[u].password : u \in DOMAIN plan.world.accounts}

LetsClientIn(ticket) ==
  LET opened == DecodeKerberosTicket(ticket.data, ticket.pid, ticket.password)
  IN  /\ opened.ok
      /\ \A challenge \in 0 .. ChallengeSpace - 1 : LetsIn(ticket, opened, challenge)
      /\ \A password \in Passwords :
           DecodeKerberosTicket(ticket.data, ticket.pid, password).ok
             <=> DeriveKey(ticket.pid, password) = DeriveKey(ticket.pid, ticket.password)

\* The ticket of a login takes its client to the secure service: opened with the
\* plaintext password of the account, or the default one if it has none, and with no
\* other, it is accepted there for that user, and the challenge is answered by its
\* successor. A service with another ticket key, a CONNECT that was cut and a ticket
\* that is no longer valid let nobody in.
TicketsLetIn ==
  \A j \in DOMAIN jobs : \A i \in DOMAIN TicketsOf(jobs[j]) : LetsClientIn(TicketsOf(jobs[j])[i])

(***************************************************************************)
(* Liveness.                                                               *)
(***************************************************************************)
\* The answer of a request that takes a while comes in the end, also if its client
\* left while a worker thread was at it. (AnswersAreSentOnce tells that it was sent.)
MaxJobs == 4
RequestsAreAnswered ==
  \A j \in 1 .. MaxJobs :
    (j \in DOMAIN jobs /\ jobs[j].pending) ~> (j \in DOMAIN jobs /\ ~jobs[j].pending)
==============================================================================
