------------------------------- MODULE Packets -------------------------------
(***************************************************************************)
(* PRUDP packets and datagrams (packet.ts), as sequences of cells.         *)
(*                                                                         *)
(* The fixed fields of a packet are one cell, every other field is one.    *)
(* Lengths count cells.  RC4 is its own inverse.  The checksum is taken to *)
(* tell apart whatever differs.                                            *)
(***************************************************************************)
EXTENDS Integers, Sequences

CONSTANTS
  FragmentIdSpace,      \* number of fragment ids, 256: one byte
  MaxDecompressedSize   \* MAX_DECOMPRESSED_SIZE, in cells

ASSUME PacketAssumption ==
  FragmentIdSpace \in Nat \ {0} /\ MaxDecompressedSize \in Nat

RVSec == "RVSec"
VPort(port, streamType) == [port |-> port, streamType |-> streamType]

\* Encrypted are all but SYN packets, between RVSec ports.
IsEncrypted(header) == header.packetType # "syn" /\ header.source.streamType = RVSec
HasConnSignature(header) == header.packetType \in {"syn", "connect"}
HasFragmentId(header) == header.packetType = "data"
HasSize(header) == "HasSize" \in header.flags

\* checksumKey: packets to other streams are summed up without the access key.
ChecksumKey(header) == IF header.destination.streamType = RVSec THEN "accessKey" ELSE "none"
Checksum(header, cells) == [checksum |-> <<ChecksumKey(header), cells>>]

CryptCell(cell) == IF "crypt" \in DOMAIN cell THEN cell.crypt ELSE [crypt |-> cell]
Crypt(cells) == [i \in DOMAIN cells |-> CryptCell(cells[i])]

Header(packet) ==
  [source |-> packet.source, destination |-> packet.destination,
   packetType |-> packet.packetType, flags |-> packet.flags, sessionId |-> packet.sessionId,
   signature |-> packet.signature, sequence |-> packet.sequence]

Specific(packet) ==
  CASE HasConnSignature(packet) -> <<[connSignature |-> packet.connSignature]>>
    [] HasFragmentId(packet)    -> <<[fragmentId |-> packet.fragmentId % FragmentIdSpace]>>
    [] OTHER -> << >>

\* A byte tells whether the payload is compressed; there is none if it is empty.
PayloadCells(packet) ==
  CASE packet.payload = << >> -> << >>
    [] packet.payload # << >> /\ packet.useCompression ->
         <<[compressed |-> TRUE], [deflated |-> packet.payload]>>
    [] OTHER -> <<[compressed |-> FALSE]>> \o packet.payload

EncodedPayload(packet) ==
  IF IsEncrypted(packet) THEN Crypt(PayloadCells(packet)) ELSE PayloadCells(packet)

DataBytes(packet) ==
  <<[header |-> Header(packet)]>> \o Specific(packet)
  \o (IF HasSize(packet) THEN <<[size |-> Len(EncodedPayload(packet))]>> ELSE << >>)
  \o EncodedPayload(packet)

ToBytes(packet) == Append(DataBytes(packet), Checksum(packet, DataBytes(packet)))

-----------------------------------------------------------------------------
Unreadable == [ok |-> FALSE]

\* A payload and whether it was compressed, as fromBytes finds it.
DecodedPayload(header, cells) ==
  LET plain == Crypt(cells)
  IN  CASE ~IsEncrypted(header) -> [ok |-> TRUE, payload |-> cells, useCompression |-> FALSE]
        [] IsEncrypted(header) /\ cells = << >> ->
             [ok |-> TRUE, payload |-> << >>, useCompression |-> FALSE]
        [] IsEncrypted(header) /\ cells # << >> /\ plain[1] = [compressed |-> FALSE] ->
             [ok |-> TRUE, payload |-> Tail(plain), useCompression |-> FALSE]
        [] OTHER ->
             IF Len(plain) = 2 /\ "deflated" \in DOMAIN plain[2]
                /\ Len(plain[2].deflated) <= MaxDecompressedSize
             THEN [ok |-> TRUE, payload |-> plain[2].deflated, useCompression |-> TRUE]
             ELSE Unreadable

\* The first packet of a datagram and the number of its cells. Without HasSize
\* the payload takes all but the last cell of the datagram.
Specifics(header) == IF HasConnSignature(header) \/ HasFragmentId(header) THEN 1 ELSE 0

PayloadStart(header) == 1 + Specifics(header) + (IF HasSize(header) THEN 1 ELSE 0)

PayloadLength(header, cells, start) ==
  CASE ~HasSize(header) -> Len(cells) - start - 1
    [] HasSize(header) /\ start <= Len(cells) -> cells[start].size
    [] OTHER -> -1

PacketWith(header, cells, size, payload) ==
  IF payload.ok
  THEN [ok |-> TRUE, header |-> header, size |-> size, payload |-> payload.payload,
        fragmentId |-> IF HasFragmentId(header) THEN cells[2].fragmentId ELSE 0]
  ELSE Unreadable

PacketAt(header, cells, start, length) ==
  IF length < 0 \/ start + length + 1 > Len(cells) THEN Unreadable
  ELSE PacketWith(header, cells, start + length + 1,
                  DecodedPayload(header, SubSeq(cells, start + 1, start + length)))

FromBytes(cells) ==
  IF cells = << >> \/ "header" \notin DOMAIN cells[1] THEN Unreadable
  ELSE LET header == cells[1].header
           start  == PayloadStart(header)
       IN  PacketAt(header, cells, start, PayloadLength(header, cells, start))

IsValid(packet, cells) ==
  LET data == SubSeq(cells, 1, packet.size - 1)
  IN  cells[packet.size] = Checksum(packet.header, data)

\* What there is of a datagram: a packet if its checksum is right, and what follows.
Followed(packet, cells, following) ==
  IF IsValid(packet, cells) THEN <<packet>> \o following ELSE following

\* handleDatagram: the packets it handles. One with a wrong checksum is skipped,
\* one that cannot be read ends the datagram.
PacketsOf(datagram) ==
  LET rest(offset) == SubSeq(datagram, offset + 1, Len(datagram))
      from[offset \in 0 .. Len(datagram)] ==
        LET packet == FromBytes(rest(offset))
        IN  IF packet.ok THEN Followed(packet, rest(offset), from[offset + packet.size])
            ELSE << >>
  IN  from[0]
=============================================================================
