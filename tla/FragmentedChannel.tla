------------------------- MODULE FragmentedChannel -------------------------
(***************************************************************************)
(* Messages from the game to a stream handler: the game cuts them into     *)
(* DATA packets, the network delivers the packets in order but may lose or *)
(* repeat any of them, and handleData reassembles what arrives for this    *)
(* one connection.  The server neither sorts packets nor drops repeated    *)
(* ones: what arrives out of order is beyond what it promises, and a       *)
(* repeated fragment 0 is one more message to it.                          *)
(***************************************************************************)
EXTENDS Fragments

CONSTANTS
  MaxMessages,  \* bound: messages the game sends
  MaxChunks,    \* bound: chunks of a message; each is one unit long
  MaxLosses,    \* bound: packets lost
  MaxRepeats    \* bound: copies that arrive, of the same or of different packets

ASSUME ChannelAssumption ==
  {MaxMessages, MaxChunks, MaxLosses, MaxRepeats} \subseteq Nat

VARIABLES
  sent,       \* the messages sent: their numbers of chunks
  network,    \* packets on their way
  lost,       \* packets that will never arrive
  repeated,   \* packets that arrived more than once
  copies,     \* the number of their copies
  buffer,     \* packetFragments of the client
  delivered   \* what the stream handler was called with, and on which message's end

vars == <<sent, network, lost, repeated, copies, buffer, delivered>>

\* the content of message m: its chunks, in order
Content(m) == [i \in 1 .. sent[m] |-> <<m, i>>]

Packets(m, n) ==
  LET fragments == GameFragments([i \in 1 .. n |-> << <<m, i>> >>])
  IN  [i \in 1 .. n |-> [msg |-> m, fid |-> fragments[i].fid,
                         payload |-> fragments[i].payload]]

TypeOK ==
  /\ sent \in Seq(1 .. MaxChunks) /\ Len(sent) <= MaxMessages
  /\ \A i \in DOMAIN network : network[i].msg \in DOMAIN sent
  /\ Cardinality(lost) <= MaxLosses
  /\ Cardinality(repeated) <= copies /\ copies \in 0 .. MaxRepeats
  /\ DOMAIN buffer \subseteq 1 .. MaxChunks - 1
  /\ \A i \in DOMAIN delivered : delivered[i].last \in DOMAIN sent

Init ==
  /\ sent = << >>
  /\ network = << >>
  /\ lost = {}
  /\ repeated = {}
  /\ copies = 0
  /\ buffer = NoFragments
  /\ delivered = << >>

\* sendData of the game client: all packets of a message at once
SendData(n) ==
  /\ Len(sent) < MaxMessages
  /\ sent' = Append(sent, n)
  /\ network' = network \o Packets(Len(sent) + 1, n)
  /\ UNCHANGED <<lost, repeated, copies, buffer, delivered>>

Lose ==
  /\ network # << >>
  /\ Head(network) \notin repeated
  /\ Cardinality(lost) < MaxLosses
  /\ lost' = lost \union {Head(network)}
  /\ network' = Tail(network)
  /\ UNCHANGED <<sent, repeated, copies, buffer, delivered>>

\* Mutant: after a gap, what is left is passed on.
HandleDataDespiteGap(packet) ==
  /\ buffer' = NextBuffer(buffer, packet.fid, packet.payload)
  /\ delivered' =
       IF packet.fid = 0
       THEN Append(delivered, [last    |-> packet.msg,
                               content |-> IF IsComplete(buffer)
                                           THEN Reassembled(buffer, packet.payload)
                                           ELSE packet.payload])
       ELSE delivered

\* handleData, from the lookup of the client on: fragment 0 hands the message
\* to the stream handler if nothing below the highest fragment id is missing.
HandleData(packet) ==
  /\ buffer' = NextBuffer(buffer, packet.fid, packet.payload)
  /\ delivered' =
       IF packet.fid = 0 /\ IsComplete(buffer)
       THEN Append(delivered, [last    |-> packet.msg,
                               content |-> Reassembled(buffer, packet.payload)])
       ELSE delivered

Receive ==
  /\ network # << >>
  /\ network' = Tail(network)
  /\ HandleData(Head(network))
  /\ UNCHANGED <<sent, lost, repeated, copies>>

\* A copy of the next packet arrives, and the packet is still to come: the game
\* sent it again because the acknowledgement was lost, or the network doubled it.
ReceiveCopy ==
  /\ network # << >>
  /\ copies < MaxRepeats
  /\ copies' = copies + 1
  /\ repeated' = repeated \union {Head(network)}
  /\ HandleData(Head(network))
  /\ UNCHANGED <<sent, network, lost>>

Next ==
  \/ \E n \in 1 .. MaxChunks : SendData(n)
  \/ Lose
  \/ Receive
  \/ ReceiveCopy

Spec == Init /\ [][Next]_vars

-----------------------------------------------------------------------------
EndLost(m) == \E p \in lost : p.msg = m /\ p.fid = 0

\* All fragments but the last wait in the buffer.
Fits(m) == sent[m] - 1 <= MaxReassembledSize

\* The previous message did not leave its fragments to this one.
StartsAfresh(m) == m > 1 => ~EndLost(m - 1)

\* Message m arrived as a whole and the previous one ended before it.
IsUndisturbed(m) ==
  /\ Fits(m)
  /\ \A p \in lost : p.msg # m
  /\ StartsAfresh(m)

IsThrough(m) == \A i \in DOMAIN network : network[i].msg # m

Deliveries(m) == {i \in DOMAIN delivered : delivered[i].last = m}

\* handleData does not know a packet it had before.  The copy of a fragment 0 finds
\* an empty buffer: it is one more message, of the last chunk alone.
EndRepeated(m) == \E p \in repeated : p.msg = m /\ p.fid = 0

IsEndAgain(k) ==
  LET m == delivered[k].last
  IN  EndRepeated(m) /\ delivered[k].content = << <<m, sent[m]>> >>

IsDeliveredWhole(m) ==
  \E i \in Deliveries(m) :
    /\ delivered[i].content = Content(m)
    /\ \A k \in Deliveries(m) \ {i} : k > i /\ IsEndAgain(k)

\* A lost packet harms the message it belongs to and at most the one after it, and a
\* fragment other than 0 that comes again harms none: every other message that fits
\* reaches the handler unaltered, and exactly once unless its fragment 0 came again.
\* Then the whole message comes first and what follows it is the last chunk alone, as
\* often as it is repeated (handleData).
LossIsContained ==
  \A m \in DOMAIN sent : IsUndisturbed(m) /\ IsThrough(m) => IsDeliveredWhole(m)

\* A fragment of the message is lost, and one after it is not.
HasGap(m) ==
  LET missing == {p.fid : p \in {q \in lost : q.msg = m}}
  IN  \E lower, higher \in 1 .. sent[m] - 1 :
        lower < higher /\ lower \in missing /\ higher \notin missing

\* A gap is noticed: a message that misses a fragment below one that did arrive
\* is dropped when its fragment 0 comes (the loop over 1..size).  The buffer is empty
\* then, so a copy of the fragment 0 is delivered: the last chunk alone, never more of
\* the message, and only if there was a copy.
GapsAreNoticed ==
  \A m \in DOMAIN sent :
    HasGap(m) /\ Fits(m) /\ StartsAfresh(m) =>
      \A i \in Deliveries(m) : IsEndAgain(i)

\* A client buffers at most so many bytes of fragments (MAX_REASSEMBLED_SIZE),
\* however often fragments are lost, repeated or left over from another message.
BufferIsBounded ==
  SumFunction([f \in DOMAIN buffer |-> Len(buffer[f])]) <= MaxReassembledSize

\* "fragmented message exceeds ... bytes, dropping it" (handleData): a message
\* that does not fit is not delivered, nor any part of it.
OversizedIsDropped ==
  \A i \in DOMAIN delivered : Fits(delivered[i].last)
=============================================================================
