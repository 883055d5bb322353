------------------------------- MODULE Kerberos -------------------------------
(***************************************************************************)
(* Tickets (kerberos.ts), and how the secure service lets in who presents  *)
(* one, as cells.                                                          *)
(*                                                                         *)
(* What is sealed, signed or encrypted with a key can only be opened with  *)
(* the same key.  A session key is one cell.  The cache of derived keys is *)
(* left out: an entry is what would be computed again.                     *)
(***************************************************************************)
EXTENDS Cells

CONSTANT ChallengeSpace    \* number of challenges, 2^32

ASSUME ChallengeAssumption == ChallengeSpace \in Nat \ {0}

DEFAULT_PASSWORD == Text("UbiDummyPwd")
RandomKey(n) == [sessionKey |-> n]

InternalCells(internal) ==
  <<Number(4, internal.principleId), Number(8, internal.validUntil), internal.sessionKey>>

ReadInternal(cells) ==
  Then(ReadNumber(4, cells), LAMBDA principleId, afterId :
    Then(ReadNumber(8, afterId), LAMBDA validUntil, rest :
      IF rest = << >> \/ "sessionKey" \notin DOMAIN rest[1] THEN Missing
      ELSE Got([principleId |-> principleId, validUntil |-> validUntil, sessionKey |-> rest[1]],
               Tail(rest))))

\* A nonce and the box.
SealTicketInternal(internal, ticketKey) ==
  <<[nonce |-> internal.sessionKey], [boxed |-> InternalCells(internal), key |-> ticketKey]>>

OpenTicketInternal(cells, ticketKey) ==
  IF Len(cells) # 2 \/ "boxed" \notin DOMAIN cells[2] \/ cells[2].key # ticketKey THEN Missing
  ELSE ReadInternal(cells[2].boxed)

\* No password, an undefined one, is the empty one here.
DeriveKey(peerPid, password) ==
  [iterations |-> 65000 + (peerPid % 1024),
   secret |-> IF password = << >> THEN DEFAULT_PASSWORD ELSE password]

\* RC4 with a key of one's own; applied twice it gives back what was encrypted.
CryptCellWith(key, cell) ==
  IF "rc4" \in DOMAIN cell /\ cell.rc4[1] = key THEN cell.rc4[2] ELSE [rc4 |-> <<key, cell>>]
CryptWith(key, cells) == [i \in DOMAIN cells |-> CryptCellWith(key, cells[i])]
Mac(key, cells) == [mac |-> <<key, cells>>]

\* Mutant: the key is derived for the service the ticket is for.
PeerOfService(ticket, peerPid) == ticket.pid

\* The key is derived for the client the ticket is for.
Peer(ticket, peerPid) == peerPid

EncodeKerberosTicket(ticket, peerPid, password, ticketKey) ==
  LET key       == DeriveKey(Peer(ticket, peerPid), password)
      encrypted == CryptWith(key,
        <<ticket.sessionKey, Number(4, ticket.pid)>>
        \o WriteBuffer(4, SealTicketInternal(ticket.internal, ticketKey)))
  IN  Append(encrypted, Mac(key, encrypted))

\* The client's side.
ReadTicket(cells) ==
  IF cells = << >> \/ "sessionKey" \notin DOMAIN cells[1] THEN Missing
  ELSE Then(ReadNumber(4, Tail(cells)), LAMBDA pid, afterPid :
         Then(ReadBuffer(4, afterPid), LAMBDA sealedInternal, rest :
           Got([sessionKey |-> cells[1], pid |-> pid, sealedInternal |-> sealedInternal], rest)))

DecodeKerberosTicket(data, peerPid, password) ==
  LET key == DeriveKey(peerPid, password)
  IN  IF data = << >> \/ Last(data) # Mac(key, Front(data)) THEN Missing
      ELSE ReadTicket(CryptWith(key, Front(data)))

-----------------------------------------------------------------------------
(***************************************************************************)
(* The payload of a CONNECT, and what PrudpServer.acceptTicket makes of    *)
(* it: the user it lets in, or Nobody, and the payload of the answer.      *)
(***************************************************************************)
ConnectData(userPid, challenge) ==
  <<Number(4, userPid), Number(4, 1), Number(4, challenge)>>

ReadConnectData(cells) ==
  Then(ReadNumber(4, cells), LAMBDA userPid, afterUser :
    Then(ReadNumber(4, afterUser), LAMBDA connectionId, afterId :
      Then(ReadNumber(4, afterId), LAMBDA challenge, rest :
        Got([userPid |-> userPid, connectionId |-> connectionId, challenge |-> challenge], rest))))

\* connectWithTicket of the test client.
ConnectPayload(ticket, userPid, challenge) ==
  WriteBuffer(4, ticket.sealedInternal)
  \o WriteBuffer(4, CryptWith(ticket.sessionKey, ConnectData(userPid, challenge)))

Refused == [userId |-> 0, payload |-> << >>]

Successor(challenge) == <<Number(4, (challenge + 1) % ChallengeSpace)>>
ChallengeAnswer(challenge) == WriteBuffer(4, Successor(challenge))

\* The user is in before the challenge is read.
LetIn(internal, requestData) ==
  LET data == ReadConnectData(CryptWith(internal.sessionKey, requestData))
  IN  [userId |-> internal.principleId,
       payload |-> IF data.ok THEN ChallengeAnswer(data.value.challenge) ELSE << >>]

AcceptOpened(internal, requestData, now) ==
  IF ~internal.ok \/ internal.value.validUntil < now THEN Refused
  ELSE LetIn(internal.value, requestData)

AcceptTicket(payload, ticketKey, now) ==
  LET ticket      == ReadBuffer(4, payload)
      requestData == ReadBuffer(4, ticket.rest)
  IN  IF ~ticket.ok THEN Refused
      ELSE IF ~requestData.ok THEN Refused
      ELSE AcceptOpened(OpenTicketInternal(ticket.value, ticketKey), requestData.value, now)
==============================================================================
