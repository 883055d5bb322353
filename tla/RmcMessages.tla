----------------------------- MODULE RmcMessages -----------------------------
(***************************************************************************)
(* RMC requests and responses as cells (message.ts, error.ts).             *)
(***************************************************************************)
EXTENDS Cells

\* The codes of error.ts without the bit 0x8000_0000 that they are sent with.
ErrorCodes ==
  [UnknownProtocol      |-> 65537,   \* 0x1_0001
   UnknownMethod        |-> 65537,
   UnimplementedMethod  |-> 65538,
   AccessDenied         |-> 65542,
   MissingData          |-> 65545,
   ParsingError         |-> 65546,
   InvalidPacketType    |-> 65546,
   InternalError        |-> 65554]

HasBit(n, bit) == (n \div bit) % 2 = 1
WithBit(n, bit) == IF HasBit(n, bit) THEN n ELSE n + bit
WithoutBit(n, bit) == IF HasBit(n, bit) THEN n - bit ELSE n

WithSize(body) == <<Number(4, Len(body))>> \o body

\* Mutant: a longer protocol id is cut to a byte.
RequestIdByte(id) == <<Number(1, WithBit(id % 256, 128))>>

RequestId(id) ==
  IF id < 255 THEN <<Number(1, WithBit(id, 128))>> ELSE <<Number(1, 255), Number(2, id)>>

ResponseId(id) == IF id < 127 THEN <<Number(1, id)>> ELSE <<Number(1, 127), Number(2, id)>>

EncodeRmcRequest(request) ==
  WithSize(RequestId(request.protocolId)
           \o <<Number(4, request.callId), Number(4, request.methodId)>> \o request.parameters)

EncodeRmcResponse(protocolId, callId, result) ==
  WithSize(ResponseId(protocolId) \o
           IF result.ok
           THEN <<Number(1, 1), Number(4, callId), Number(4, WithBit(result.methodId, 32768))>>
                \o result.data
           ELSE <<Number(1, 0), Number(4, result.errorCode), Number(4, callId)>>)

\* The id that follows the size: extended if the byte is the mark.
ReadId(mark, cells) ==
  Then(ReadNumber(1, cells), LAMBDA byte, rest :
    IF byte = mark THEN ReadNumber(2, rest) ELSE Got(byte, rest))

\* MissingData and ParsingError are not told apart: neither is answered.
ParseRmcRequest(size, cells) ==
  IF size < Len(cells) THEN Missing
  ELSE Then(ReadId(255, cells), LAMBDA id, afterId :
         Then(ReadNumber(4, afterId), LAMBDA callId, rest :
           Then(ReadNumber(4, rest), LAMBDA methodId, parameters :
             Got([type |-> "request",
                  protocolId |-> IF cells[1].n = 255 THEN id ELSE WithoutBit(id, 128),
                  callId |-> callId, methodId |-> methodId, parameters |-> parameters], << >>))))

\* Two numbers follow the status, whichever it is.
ResponseWith(id, status, first, second, data) ==
  CASE status = 1 ->
         Got([type |-> "response", protocolId |-> id, ok |-> TRUE, callId |-> first,
              methodId |-> WithoutBit(second, 32768), data |-> data], << >>)
    [] status = 0 ->
         Got([type |-> "response", protocolId |-> id, ok |-> FALSE, errorCode |-> first,
              callId |-> second], << >>)
    [] OTHER -> Missing

ParseRmcResponse(cells) ==
  Then(ReadId(127, cells), LAMBDA id, afterId :
    Then(ReadNumber(1, afterId), LAMBDA status, afterStatus :
      Then(ReadNumber(4, afterStatus), LAMBDA first, rest :
        Then(ReadNumber(4, rest), LAMBDA second, data :
          ResponseWith(id, status, first, second, data)))))

ParseRmcPacket(cells) ==
  IF Len(cells) < 2 THEN Missing
  ELSE Then(ReadNumber(4, cells), LAMBDA size, rest :
         IF "w" \in DOMAIN rest[1] /\ HasBit(rest[1].n, 128)
         THEN ParseRmcRequest(size, rest)
         ELSE ParseRmcResponse(rest))
==============================================================================
