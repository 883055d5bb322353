---------------------- MODULE FragmentedChannelProofs ----------------------
(***************************************************************************)
(* Proofs about FragmentedChannel, for any number of messages, chunks,     *)
(* losses and repetitions, and any size of the buffer.                     *)
(***************************************************************************)
EXTENDS FragmentedChannel, DataLemmas

-----------------------------------------------------------------------------
(***************************************************************************)
(* The inductive invariant.  It says where the stream of packets is: the   *)
(* next packet to arrive is the i-th of message m, or there is none and m  *)
(* is the message to be sent next.                                         *)
(***************************************************************************)
\* The i-th packet of message m, when these are the messages sent.
PacketOf(s, m, i) ==
  [msg |-> m, fid |-> IF i = s[m] THEN 0 ELSE i, payload |-> << <<m, i>> >>]

IsPacket(s, p) == \E m \in 1 .. Len(s) : \E i \in 1 .. s[m] : p = PacketOf(s, m, i)

\* The place of a packet in its message, and the order of the places.
Index(p) == p.payload[1][2]
IsBefore(p, m, i) == p.msg < m \/ (p.msg = m /\ Index(p) < i)
IsFrom(n, j, m, i) == n > m \/ (n = m /\ j >= i)

\* These are the packets of the messages s from the i-th packet of message m on.
IsStream(s, packets, m, i) ==
  /\ m \in 1 .. Len(s) + 1 /\ i \in Nat \ {0}
  /\ m = Len(s) + 1 => i = 1 /\ packets = << >>
  /\ m # Len(s) + 1 => i <= s[m] /\ packets # << >> /\ packets[1] = PacketOf(s, m, i)
  /\ \A k \in 1 .. Len(packets) : IsPacket(s, packets[k])
  /\ \A k, l \in 1 .. Len(packets) :
       k < l => IsBefore(packets[k], packets[l].msg, Index(packets[l]))
  /\ \A n \in 1 .. Len(s) : \A j \in 1 .. s[n] :
       IsFrom(n, j, m, i) => \E k \in 1 .. Len(packets) : packets[k] = PacketOf(s, n, j)

\* Packets are lost or repeated when it is their turn.
FaultsBefore(m, i) ==
  /\ \A p \in lost : IsPacket(sent, p) /\ IsBefore(p, m, i)
  /\ \A p \in repeated :
       IsPacket(sent, p) /\ (IsBefore(p, m, i) \/ (p.msg = m /\ Index(p) = i))

\* The fragments of message m that the server has got when the i-th packet is next.
Arrived(m, i) ==
  {f \in 1 .. i :
     \/ f < i /\ \A p \in lost : ~(p.msg = m /\ p.fid = f)
     \/ f = i /\ \E p \in repeated : p.msg = m /\ p.fid = i}

\* They wait in the buffer, if the message can be put together at all, until a copy of
\* its fragment 0 has come.
BufferAt(m, i) ==
  /\ EndRepeated(m) => DOMAIN buffer = {}
  /\ ~EndRepeated(m) /\ StartsAfresh(m) /\ (m \in 1 .. Len(sent) => Fits(m)) =>
       /\ DOMAIN buffer = Arrived(m, i)
       /\ \A f \in DOMAIN buffer : buffer[f] = << <<m, f>> >>

\* The messages before are done with, and message m is if a copy of its fragment 0 has come.
IsDone(m) ==
  /\ IsUndisturbed(m) => IsDeliveredWhole(m)
  /\ HasGap(m) /\ Fits(m) /\ StartsAfresh(m) =>
       \A k \in Deliveries(m) : IsEndAgain(k)

DeliveredBefore(m) ==
  /\ \A k \in DOMAIN delivered :
       delivered[k].last \in 1 .. m - 1 \/ (delivered[k].last = m /\ EndRepeated(m))
  /\ \A n \in 1 .. m - 1 : IsDone(n)
  /\ EndRepeated(m) => IsDone(m)

At(m, i) ==
  IsStream(sent, network, m, i) /\ FaultsBefore(m, i) /\ BufferAt(m, i) /\ DeliveredBefore(m)

Types ==
  /\ sent \in Seq(1 .. MaxChunks) /\ Len(sent) <= MaxMessages
  /\ IsSeq(network) /\ IsSeq(delivered)
  /\ IsFiniteSet(lost) /\ Cardinality(lost) <= MaxLosses
  /\ IsFiniteSet(repeated) /\ Cardinality(repeated) <= copies /\ copies \in 0 .. MaxRepeats
  /\ DOMAIN buffer \subseteq 1 .. MaxChunks - 1
  /\ \A f \in DOMAIN buffer : Len(buffer[f]) \in Nat
  /\ BufferIsBounded

Inv == Types /\ \E m, i \in Nat : At(m, i)

-----------------------------------------------------------------------------
(***************************************************************************)
(* Packets and their places.                                               *)
(***************************************************************************)
LEMMA SentType ==
  ASSUME NEW s \in Seq(1 .. MaxChunks)
  PROVE  /\ Len(s) \in Nat /\ DOMAIN s = 1 .. Len(s)
         /\ \A m \in 1 .. Len(s) :
              s[m] \in Nat \ {0} /\ s[m] \in Int /\ s[m] <= MaxChunks
BY ChannelAssumption

LEMMA PacketParts ==
  ASSUME NEW s, NEW m, NEW i
  PROVE  /\ PacketOf(s, m, i).msg = m
         /\ PacketOf(s, m, i).fid = IF i = s[m] THEN 0 ELSE i
         /\ PacketOf(s, m, i).payload = << <<m, i>> >>
         /\ Index(PacketOf(s, m, i)) = i
BY DEF PacketOf, Index

LEMMA PacketPlace ==
  ASSUME NEW s \in Seq(1 .. MaxChunks), NEW p, IsPacket(s, p)
  PROVE  /\ p.msg \in 1 .. Len(s) /\ p.msg \in Nat
         /\ Index(p) \in 1 .. s[p.msg] /\ Index(p) \in Nat
         /\ p = PacketOf(s, p.msg, Index(p))
<1>1. PICK m \in 1 .. Len(s) : \E i \in 1 .. s[m] : p = PacketOf(s, m, i)
  BY DEF IsPacket
<1>2. PICK i \in 1 .. s[m] : p = PacketOf(s, m, i)
  BY <1>1
<1>3. p.msg = m /\ Index(p) = i
  BY <1>2, PacketParts
<1>4. m \in Nat /\ i \in Nat
  BY SentType
<1> QED
  BY <1>2, <1>3, <1>4

\* The next packet is taken from the packets: the stream moves on by one.
NextMessage(s, m, i) == IF i = s[m] THEN m + 1 ELSE m
NextIndex(s, m, i) == IF i = s[m] THEN 1 ELSE i + 1

LEMMA StreamTail ==
  ASSUME NEW s \in Seq(1 .. MaxChunks), NEW m \in Nat, NEW i \in Nat,
         NEW packets, IsSeq(packets), packets # << >>, IsStream(s, packets, m, i)
  PROVE  /\ m \in 1 .. Len(s) /\ i \in 1 .. s[m] /\ Head(packets) = PacketOf(s, m, i)
         /\ IsStream(s, Tail(packets), NextMessage(s, m, i), NextIndex(s, m, i))
<1> DEFINE M == NextMessage(s, m, i)
           I == NextIndex(s, m, i)
           L == Len(packets)
           Q == Tail(packets)
           msg(k) == packets[k].msg
           idx(k) == Index(packets[k])
<1>1. /\ Len(s) \in Nat
      /\ \A n \in 1 .. Len(s) : s[n] \in Nat \ {0}
  BY SentType
<1>2. m \in 1 .. Len(s) /\ i \in 1 .. s[m] /\ packets[1] = PacketOf(s, m, i)
  BY <1>1 DEF IsStream
<1>3. /\ L \in Nat \ {0} /\ Head(packets) = packets[1]
      /\ IsSeq(Q) /\ Len(Q) = L - 1
      /\ \A k \in 1 .. L - 1 : Q[k] = packets[k + 1]
  BY SeqTail
<1>4. \A k \in 1 .. L : /\ msg(k) \in 1 .. Len(s) /\ msg(k) \in Nat
                        /\ idx(k) \in 1 .. s[msg(k)] /\ idx(k) \in Nat
                        /\ packets[k] = PacketOf(s, msg(k), idx(k))
  BY PacketPlace DEF IsStream
<1>5. msg(1) = m /\ idx(1) = i
  BY <1>2, PacketParts
<1>6. \A k, l \in 1 .. L : k < l => msg(k) < msg(l) \/ (msg(k) = msg(l) /\ idx(k) < idx(l))
  BY DEF IsStream, IsBefore
<1>7. ASSUME NEW n \in 1 .. Len(s), NEW j \in 1 .. s[n], n > m \/ (n = m /\ j >= i)
      PROVE  \E k \in 1 .. L : msg(k) = n /\ idx(k) = j /\ packets[k] = PacketOf(s, n, j)
  <2>1. PICK k \in 1 .. L : packets[k] = PacketOf(s, n, j)
    BY <1>7 DEF IsStream, IsFrom
  <2> QED
    BY <2>1, PacketParts
<1>8. M \in 1 .. Len(s) + 1 /\ I \in Nat \ {0}
  BY <1>1, <1>2 DEF NextMessage, NextIndex
<1>11. \A k \in 1 .. L - 1 :
         /\ Q[k] = packets[k + 1] /\ IsPacket(s, Q[k])
         /\ Q[k].msg = msg(k + 1) /\ Index(Q[k]) = idx(k + 1)
  <2>1. \A k \in 1 .. L - 1 : k + 1 \in 1 .. L /\ Q[k] = packets[k + 1]
    BY <1>3
  <2>2. \A k \in 1 .. L : IsPacket(s, packets[k])
    BY DEF IsStream
  <2> QED
    BY <2>1, <2>2
<1>12. \A k, l \in 1 .. L - 1 :
         k < l => IsBefore(Q[k], Q[l].msg, Index(Q[l]))
  <2>1. \A k, l \in 1 .. L - 1 :
          k < l => k + 1 \in 1 .. L /\ l + 1 \in 1 .. L /\ k + 1 < l + 1
    BY <1>3
  <2>2. \A k, l \in 1 .. L - 1 : k < l =>
          msg(k + 1) < msg(l + 1) \/ (msg(k + 1) = msg(l + 1) /\ idx(k + 1) < idx(l + 1))
    <3> HIDE DEF msg, idx, L
    <3> QED
      BY <1>6, <2>1
  <2> HIDE DEF msg, idx, L, Q
  <2> QED
    BY <1>11, <2>2 DEF IsBefore
<1>13. ASSUME NEW n \in 1 .. Len(s), NEW j \in 1 .. s[n], IsFrom(n, j, M, I)
       PROVE  \E k \in 1 .. L - 1 : Q[k] = PacketOf(s, n, j)
  <2>1. (n > m \/ (n = m /\ j >= i)) /\ ~(n = m /\ j = i)
    BY <1>1, <1>2, <1>13 DEF IsFrom, NextMessage, NextIndex
  <2>2. PICK k \in 1 .. L : msg(k) = n /\ idx(k) = j /\ packets[k] = PacketOf(s, n, j)
    BY <1>7, <2>1
  <2>3. k # 1
    BY <1>5, <2>1, <2>2
  <2>4. k - 1 \in 1 .. L - 1 /\ (k - 1) + 1 = k
    BY <1>3, <2>3
  <2> QED
    BY <1>3, <2>2, <2>4
<1>9. ASSUME M = Len(s) + 1
      PROVE  I = 1 /\ Q = << >>
  <2>1. i = s[m] /\ m = Len(s) /\ I = 1
    BY <1>1, <1>2, <1>9 DEF NextMessage, NextIndex
  <2>2. L = 1
    <3>1. SUFFICES ASSUME L >= 2 PROVE FALSE
      BY <1>3
    <3>2. 1 \in 1 .. L /\ 2 \in 1 .. L
      BY <1>3, <3>1
    <3>3. msg(2) > m \/ (msg(2) = m /\ idx(2) > i)
      BY <1>4, <1>5, <1>6, <3>2
    <3> HIDE DEF msg, idx, L
    <3> QED
      BY <1>1, <1>4, <2>1, <3>2, <3>3
  <2>3. Q = << >>
    <3> DEFINE q == Q
    <3>1. IsSeq(q) /\ Len(q) = 0
      BY <1>3, <2>2
    <3> HIDE DEF q
    <3>2. \A k \in 1 .. Len(q) : q[k] = << >>[k]
      BY <3>1
    <3>3. q = << >>
      BY <3>1, <3>2, SeqEmpty, SeqExtensional
    <3> QED
      BY <3>3 DEF q
  <2> QED
    BY <2>1, <2>3
<1>10. ASSUME M # Len(s) + 1
       PROVE  I <= s[M] /\ Q # << >> /\ Q[1] = PacketOf(s, M, I)
  <2>1. M \in 1 .. Len(s) /\ I \in 1 .. s[M] /\ (M > m \/ (M = m /\ I = i + 1))
    <3>1. CASE i = s[m]
      <4>1. M = m + 1 /\ I = 1
        BY <3>1 DEF NextMessage, NextIndex
      <4>2. m + 1 \in 1 .. Len(s) /\ m + 1 > m
        BY <1>1, <1>2, <1>10, <4>1
      <4>3. 1 \in 1 .. s[m + 1]
        BY <1>1, <4>2
      <4> QED
        BY <4>1, <4>2, <4>3
    <3>2. CASE i # s[m]
      <4>1. M = m /\ I = i + 1
        BY <3>2 DEF NextMessage, NextIndex
      <4>2. i + 1 \in 1 .. s[m]
        BY <1>1, <1>2, <3>2
      <4> QED
        BY <1>2, <4>1, <4>2
    <3> QED
      BY <3>1, <3>2
  <2>2. M > m \/ (M = m /\ I >= i)
    BY <1>2, <2>1
  <2>3. PICK k \in 1 .. L : msg(k) = M /\ idx(k) = I
    BY <1>7, <2>1, <2>2
  <2>4. k # 1
    BY <1>2, <1>5, <2>1, <2>3
  <2>5. 1 \in 1 .. L /\ 2 \in 1 .. L /\ 1 < 2 /\ (k = 2 \/ 2 < k)
    BY <1>3, <2>4
  <2>6. msg(2) > m \/ (msg(2) = m /\ idx(2) > i)
    BY <1>4, <1>5, <1>6, <2>5
  <2>7. k # 2 => msg(2) < M \/ (msg(2) = M /\ idx(2) < I)
    BY <1>6, <2>3, <2>5
  <2>8. msg(2) \in Nat /\ idx(2) \in Nat /\ idx(2) >= 1 /\ (msg(2) = m => idx(2) <= s[m])
    BY <1>4, <2>5
  <2>9. k = 2
    <3> HIDE DEF msg, idx, L
    <3> QED
      BY <1>1, <1>2, <2>6, <2>7, <2>8 DEF NextMessage, NextIndex
  <2>10. packets[2] = PacketOf(s, M, I) /\ L >= 2
    BY <1>3, <1>4, <2>3, <2>5, <2>9
  <2>11. 1 \in 1 .. L - 1 /\ Q[1] = PacketOf(s, M, I) /\ Len(Q) # 0
    BY <1>3, <2>10
  <2> HIDE DEF M, I, Q
  <2>12. Q # << >>
    BY <2>11, SeqEmpty
  <2> QED
    BY <2>1, <2>11, <2>12
<1>14. IsStream(s, Q, M, I)
  <2> HIDE DEF M, I, Q, msg, idx
  <2>1. \A k \in 1 .. L - 1 : IsPacket(s, Q[k])
    BY <1>11
  <2> QED
    BY <1>3, <1>8, <1>9, <1>10, <1>12, <1>13, <2>1 DEF IsStream
<1> QED
  BY <1>2, <1>3, <1>14

\* A message is sent: its packets come behind those on their way.
LEMMA SamePackets ==
  ASSUME NEW s \in Seq(1 .. MaxChunks), NEW n \in 1 .. MaxChunks, NEW t, t = Append(s, n)
  PROVE  /\ t \in Seq(1 .. MaxChunks) /\ Len(t) = Len(s) + 1 /\ t[Len(s) + 1] = n
         /\ \A m \in 1 .. Len(s) : t[m] = s[m]
         /\ \A m \in 1 .. Len(s) : \A i : PacketOf(t, m, i) = PacketOf(s, m, i)
         /\ \A p : IsPacket(s, p) => IsPacket(t, p)
<1>1. t \in Seq(1 .. MaxChunks) /\ Len(t) = Len(s) + 1 /\ t[Len(s) + 1] = n
  OBVIOUS
<1>2. \A m \in 1 .. Len(s) : t[m] = s[m]
  OBVIOUS
<1>3. \A m \in 1 .. Len(s) : \A i : PacketOf(t, m, i) = PacketOf(s, m, i)
  BY <1>2 DEF PacketOf
<1>4. \A m \in 1 .. Len(s) : m \in 1 .. Len(t)
  BY <1>1, SentType
<1> QED
  BY <1>1, <1>2, <1>3, <1>4 DEF IsPacket

LEMMA StreamSend ==
  ASSUME NEW s \in Seq(1 .. MaxChunks), NEW n \in 1 .. MaxChunks, NEW t, t = Append(s, n),
         NEW m \in Nat, NEW i \in Nat, NEW packets, IsSeq(packets), IsStream(s, packets, m, i),
         NEW new, IsSeq(new), Len(new) = n,
         \A k \in 1 .. n : new[k] = PacketOf(t, Len(s) + 1, k)
  PROVE  IsStream(t, packets \o new, m, i)
<1> DEFINE Q == packets \o new
           L == Len(packets)
           M == Len(s) + 1
<1>1. /\ L \in Nat /\ n \in Nat \ {0} /\ Len(s) \in Nat /\ M \in Nat
      /\ t \in Seq(1 .. MaxChunks) /\ Len(t) = M /\ t[M] = n
      /\ \A k \in 1 .. Len(s) : s[k] \in Nat
  BY ChannelAssumption, SeqDomain, SentType, SamePackets
<1>0. /\ \A k \in 1 .. Len(s) : t[k] = s[k]
      /\ \A k \in 1 .. Len(s) : \A j : PacketOf(t, k, j) = PacketOf(s, k, j)
      /\ \A p : IsPacket(s, p) => IsPacket(t, p)
  <2>1. \A k \in 1 .. Len(s) : t[k] = s[k]
    BY SamePackets
  <2>2. \A k \in 1 .. Len(s) : \A j : PacketOf(t, k, j) = PacketOf(s, k, j)
    BY <2>1 DEF PacketOf
  <2>3. \A p : IsPacket(s, p) => IsPacket(t, p)
    BY SamePackets, Zenon
  <2> QED
    BY <2>1, <2>2, <2>3
<1>2. /\ Len(Q) = L + n
      /\ \A k \in 1 .. L + n : Q[k] = IF k <= L THEN packets[k] ELSE new[k - L]
  BY SeqConcat
<1>3. ASSUME NEW k \in 1 .. L
      PROVE  /\ k \in 1 .. L + n /\ Q[k] = packets[k] /\ IsPacket(t, Q[k])
             /\ Q[k].msg < M
  <2>1. k \in 1 .. L + n /\ Q[k] = packets[k] /\ IsPacket(s, packets[k])
    BY <1>1, <1>2 DEF IsStream
  <2>2. packets[k].msg \in 1 .. Len(s)
    BY <2>1, PacketPlace
  <2> HIDE DEF Q
  <2> QED
    BY <1>0, <1>1, <2>1, <2>2
<1>4. ASSUME NEW k \in 1 .. n
      PROVE  /\ k + L \in 1 .. L + n /\ Q[k + L] = PacketOf(t, M, k)
             /\ IsPacket(t, Q[k + L]) /\ Q[k + L].msg = M /\ Index(Q[k + L]) = k
  <2>1. k + L \in 1 .. L + n /\ ~(k + L <= L) /\ (k + L) - L = k
    BY <1>1
  <2>2. Q[k + L] = PacketOf(t, M, k)
    BY <1>2, <2>1
  <2>3. IsPacket(t, PacketOf(t, M, k))
    BY <1>1 DEF IsPacket
  <2> HIDE DEF Q, M
  <2> QED
    BY <2>1, <2>2, <2>3, PacketParts
<1>5. ASSUME NEW k \in 1 .. L + n
      PROVE  k \in 1 .. L \/ (k - L \in 1 .. n /\ (k - L) + L = k)
  BY <1>1
<1> HIDE DEF Q
<1>6. m \in 1 .. Len(t) + 1 /\ i \in Nat \ {0}
  BY <1>1 DEF IsStream
<1>7. m # Len(t) + 1 /\ i <= t[m] /\ Q # << >> /\ Q[1] = PacketOf(t, m, i)
  <2>1. CASE m = M
    <3>1. i = 1 /\ packets = << >> /\ L = 0
      BY <1>1, <2>1, SeqEmpty DEF IsStream
    <3>2. 1 \in 1 .. n /\ 1 + L = 1
      BY <1>1, <3>1
    <3>3. Q[1] = PacketOf(t, M, 1)
      BY <1>4, <3>2
    <3>4. Len(Q) # 0
      BY <1>1, <1>2
    <3> QED
      BY <1>1, <2>1, <3>1, <3>3, <3>4, SeqEmpty
  <2>2. CASE m # M
    <3>1. m \in 1 .. Len(s) /\ i <= s[m] /\ packets # << >> /\ packets[1] = PacketOf(s, m, i)
      BY <1>1, <2>2 DEF IsStream
    <3>2. 1 \in 1 .. L
      BY <3>1, SeqTail
    <3>3. Q[1] = PacketOf(t, m, i) /\ t[m] = s[m]
      BY <1>3, <3>1, <3>2, <1>0
    <3>4. Len(Q) # 0
      BY <1>1, <1>2
    <3> QED
      BY <1>1, <3>1, <3>3, <3>4, SeqEmpty
  <2> QED
    BY <2>1, <2>2
<1>8. \A k \in 1 .. L + n : IsPacket(t, Q[k])
  BY <1>3, <1>4, <1>5
<1>9. ASSUME NEW k \in 1 .. L + n, NEW l \in 1 .. L + n, k < l
      PROVE  IsBefore(Q[k], Q[l].msg, Index(Q[l]))
  <2>1. CASE l \in 1 .. L
    <3>1. k \in 1 .. L
      BY <1>1, <1>9, <2>1
    <3>2. IsBefore(packets[k], packets[l].msg, Index(packets[l]))
      BY <1>9, <2>1, <3>1 DEF IsStream
    <3> QED
      BY <1>3, <2>1, <3>1, <3>2
  <2>2. CASE l \notin 1 .. L
    <3>1. l - L \in 1 .. n /\ Q[l].msg = M /\ Index(Q[l]) = l - L
      BY <1>4, <1>5, <2>2
    <3>2. CASE k \in 1 .. L
      BY <1>3, <3>1, <3>2 DEF IsBefore
    <3>3. CASE k \notin 1 .. L
      <4>1. Q[k].msg = M /\ Index(Q[k]) = k - L
        BY <1>4, <1>5, <3>3
      <4>2. k - L < l - L
        BY <1>1, <1>9
      <4> QED
        BY <3>1, <4>1, <4>2 DEF IsBefore
    <3> QED
      BY <3>2, <3>3
  <2> QED
    BY <2>1, <2>2
<1>10. ASSUME NEW o \in 1 .. Len(t), NEW j \in 1 .. t[o], IsFrom(o, j, m, i)
       PROVE  \E k \in 1 .. L + n : Q[k] = PacketOf(t, o, j)
  <2>1. CASE o = M
    BY <1>1, <1>4, <2>1
  <2>2. CASE o # M
    <3>1. o \in 1 .. Len(s)
      BY <1>1, <2>2
    <3>2. j \in 1 .. s[o]
      BY <1>0, <3>1
    <3>3. PICK k \in 1 .. L : packets[k] = PacketOf(s, o, j)
      BY <1>10, <3>1, <3>2 DEF IsStream
    <3>4. PacketOf(t, o, j) = PacketOf(s, o, j)
      BY <1>0, <3>1
    <3> QED
      BY <1>3, <3>3, <3>4
  <2> QED
    BY <2>1, <2>2
<1>11. IsStream(t, Q, m, i)
  BY <1>2, <1>6, <1>7, <1>8, <1>9, <1>10 DEF IsStream
<1> QED
  BY <1>11 DEF Q

LEMMA SentPackets ==
  ASSUME NEW s \in Seq(1 .. MaxChunks), NEW n \in 1 .. MaxChunks, NEW t, t = Append(s, n)
  PROVE  /\ IsSeq(Packets(Len(s) + 1, n)) /\ Len(Packets(Len(s) + 1, n)) = n
         /\ \A k \in 1 .. n : Packets(Len(s) + 1, n)[k] = PacketOf(t, Len(s) + 1, k)
<1> DEFINE m == Len(s) + 1
           chunks == [i \in 1 .. n |-> << <<m, i>> >>]
           q == Packets(m, n)
<1>1. n \in Nat /\ t[m] = n
  BY ChannelAssumption, SamePackets
<1>2. DOMAIN chunks = 1 .. n /\ Len(chunks) = n /\ \A k \in 1 .. n : chunks[k] = << <<m, k>> >>
  <2>1. DOMAIN chunks = 1 .. n /\ chunks = [i \in 1 .. n |-> chunks[i]]
    OBVIOUS
  <2>2. \A k \in 1 .. n : chunks[k] = << <<m, k>> >>
    OBVIOUS
  <2> HIDE DEF chunks
  <2> QED
    BY <1>1, <2>1, <2>2, SeqFunction
<1>3. q = [i \in 1 .. n |-> [msg |-> m, fid |-> GameFragments(chunks)[i].fid,
                             payload |-> GameFragments(chunks)[i].payload]]
  BY DEF Packets
<1> HIDE DEF q, chunks, m
<1>4. \A k \in 1 .. n : /\ GameFragments(chunks)[k].fid = IF k = Len(chunks) THEN 0 ELSE k
                        /\ GameFragments(chunks)[k].payload = chunks[k]
  <2> TAKE k \in 1 .. n
  <2>1. GameFragments(chunks)[k] = [fid |-> IF k = Len(chunks) THEN 0 ELSE k,
                                    payload |-> chunks[k]]
    BY <1>2 DEF GameFragments
  <2> QED
    BY <2>1
<1>5. \A k \in 1 .. n : q[k] = PacketOf(t, m, k)
  <2>1. \A k \in 1 .. n : /\ GameFragments(chunks)[k].fid = IF k = n THEN 0 ELSE k
                          /\ GameFragments(chunks)[k].payload = << <<m, k>> >>
    BY <1>2, <1>4
  <2>2. \A k \in 1 .. n : q[k] = [msg |-> m, fid |-> IF k = n THEN 0 ELSE k,
                                  payload |-> << <<m, k>> >>]
    BY <1>3, <2>1
  <2> QED
    BY <1>1, <2>2 DEF PacketOf
<1>6. DOMAIN q = 1 .. n /\ q = [k \in 1 .. n |-> q[k]]
  BY <1>3
<1>7. IsSeq(q) /\ Len(q) = n
  BY <1>1, <1>6, SeqFunction
<1> QED
  BY <1>5, <1>7 DEF q, m

-----------------------------------------------------------------------------
(***************************************************************************)
(* The buffer.                                                             *)
(***************************************************************************)
Sizes(b) == [f \in DOMAIN b |-> Len(b[f])]

With(b, fid, payload) ==
  [f \in DOMAIN b \union {fid} |-> IF f = fid THEN payload ELSE b[f]]

LEMMA BufferedSizeIsNat ==
  ASSUME NEW b, IsFiniteSet(DOMAIN b), \A f \in DOMAIN b : Len(b[f]) \in Nat,
         NEW fid, NEW payload, Len(payload) \in Nat
  PROVE  /\ BufferedSize(b, fid, payload)
              = Len(payload) + SumFunctionOnSet(Sizes(b), DOMAIN b \ {fid})
         /\ BufferedSize(b, fid, payload) \in Nat
<1>1. BufferedSize(b, fid, payload)
        = Len(payload) + SumFunctionOnSet(Sizes(b), DOMAIN b \ {fid})
  BY Zenon DEF BufferedSize, Sizes
<1>2. IsFiniteSet(DOMAIN b \ {fid})
  BY FS_RemoveElement
<1>3. \A f \in DOMAIN b \ {fid} : Sizes(b)[f] \in Nat
  BY DEF Sizes
<1>4. SumFunctionOnSet(Sizes(b), DOMAIN b \ {fid}) \in Nat
  BY <1>2, <1>3, SumIsNat
<1> QED
  BY <1>1, <1>4

\* Storing a fragment keeps the size of the buffer within bounds.
LEMMA StoreIsBounded ==
  ASSUME NEW b, IsFiniteSet(DOMAIN b), \A f \in DOMAIN b : Len(b[f]) \in Nat,
         NEW fid, NEW payload, Len(payload) \in Nat
  PROVE  LET c == Store(b, fid, payload)
         IN  /\ DOMAIN c \subseteq DOMAIN b \union {fid}
             /\ \A f \in DOMAIN c : Len(c[f]) \in Nat
             /\ SumFunction(Sizes(c)) <= MaxReassembledSize
<1> DEFINE c == Store(b, fid, payload)
<1>0. /\ BufferedSize(b, fid, payload)
           = Len(payload) + SumFunctionOnSet(Sizes(b), DOMAIN b \ {fid})
      /\ BufferedSize(b, fid, payload) \in Nat
  BY BufferedSizeIsNat
<1> SUFFICES /\ DOMAIN c \subseteq DOMAIN b \union {fid}
             /\ \A f \in DOMAIN c : Len(c[f]) \in Nat
             /\ SumFunction(Sizes(c)) <= MaxReassembledSize
  OBVIOUS
<1>1. CASE BufferedSize(b, fid, payload) > MaxReassembledSize
  <2>1. c = << >>
    BY <1>1 DEF Store, NoFragments
  <2>2. DOMAIN c = {}
    BY <2>1
  <2>3. SumFunction(Sizes(c)) = 0
    BY <2>2, SumOfEmptySet DEF SumFunction, Sizes
  <2> QED
    BY <2>2, <2>3, MaxSizeAssumption
<1>2. CASE ~(BufferedSize(b, fid, payload) > MaxReassembledSize)
  <2> DEFINE others == DOMAIN b \ {fid}
  <2>1. c = With(b, fid, payload)
    BY <1>2 DEF Store, With
  <2>2. /\ DOMAIN c = DOMAIN b \union {fid}
        /\ c[fid] = payload /\ \A f \in others : c[f] = b[f]
    BY <2>1 DEF With
  <2>3. \A f \in DOMAIN c : Len(c[f]) \in Nat
    BY <2>2
  <2> HIDE DEF c
  <2>4. IsFiniteSet(DOMAIN c) /\ fid \in DOMAIN c /\ DOMAIN c \ {fid} = others
    BY <2>2, FS_AddElement
  <2>5. \A f \in DOMAIN c : Sizes(c)[f] = Len(c[f]) /\ Sizes(c)[f] \in Nat
    BY <2>3 DEF Sizes
  <2>6. SumFunction(Sizes(c)) = SumFunctionOnSet(Sizes(c), DOMAIN c)
    BY DEF SumFunction, Sizes
  <2>7. SumFunctionOnSet(Sizes(c), DOMAIN c)
          = Sizes(c)[fid] + SumFunctionOnSet(Sizes(c), DOMAIN c \ {fid})
    BY <2>4, <2>5, SumRemoveElement
  <2>8. SumFunctionOnSet(Sizes(c), others) = SumFunctionOnSet(Sizes(b), others)
    <3>1. IsFiniteSet(others)
      BY FS_RemoveElement
    <3>2. \A f \in others : Sizes(c)[f] = Sizes(b)[f]
      BY <2>2 DEF Sizes
    <3> HIDE DEF others
    <3> QED
      BY <3>1, <3>2, SumSameTerms
  <2>9. SumFunction(Sizes(c)) = BufferedSize(b, fid, payload)
    <3>1. Sizes(c)[fid] = Len(payload)
      BY <2>2, <2>4, <2>5
    <3>2. SumFunction(Sizes(c)) = Sizes(c)[fid] + SumFunctionOnSet(Sizes(c), others)
      BY <2>4, <2>6, <2>7
    <3> HIDE DEF others
    <3>3. SumFunction(Sizes(c)) = Len(payload) + SumFunctionOnSet(Sizes(b), others)
      BY <2>8, <3>1, <3>2
    <3> QED
      BY <1>0, <3>3 DEF others
  <2>10. BufferedSize(b, fid, payload) <= MaxReassembledSize
    BY <1>0, <1>2, MaxSizeAssumption
  <2> QED
    BY <2>2, <2>3, <2>9, <2>10
<1> QED
  BY <1>1, <1>2

\* The fragments of a message that fits are stored, one after the other.
LEMMA FragmentIsStored ==
  ASSUME NEW fid \in Nat \ {0}, fid <= MaxReassembledSize,
         NEW b, DOMAIN b \subseteq 1 .. fid, \A f \in DOMAIN b : Len(b[f]) = 1,
         NEW payload, Len(payload) = 1
  PROVE  Store(b, fid, payload) = With(b, fid, payload)
<1> DEFINE others == DOMAIN b \ {fid}
<1>1. IsFiniteSet(1 .. fid - 1) /\ Cardinality(1 .. fid - 1) = fid - 1
  BY FS_Interval
<1>2. others \subseteq 1 .. fid - 1
  OBVIOUS
<1>3. IsFiniteSet(others) /\ Cardinality(others) \in Nat /\ Cardinality(others) <= fid - 1
  BY <1>1, <1>2, FS_Subset, FS_CardinalityType
<1>4. SumFunctionOnSet(Sizes(b), others) = Cardinality(others)
  <2>1. \A f \in others : Sizes(b)[f] = 1
    BY DEF Sizes
  <2> HIDE DEF others
  <2> QED
    BY <1>3, <2>1, SumOfOnes
<1>5. IsFiniteSet(DOMAIN b)
  <2>1. IsFiniteSet(1 .. fid)
    BY FS_Interval
  <2> QED
    BY <2>1, FS_Subset
<1>6. BufferedSize(b, fid, payload) = 1 + Cardinality(others)
  <2>1. Len(payload) \in Nat /\ \A f \in DOMAIN b : Len(b[f]) \in Nat
    OBVIOUS
  <2>2. BufferedSize(b, fid, payload) = Len(payload) + SumFunctionOnSet(Sizes(b), others)
    BY <1>5, <2>1, BufferedSizeIsNat
  <2> HIDE DEF others
  <2> QED
    BY <1>4, <2>2
<1>7. ~(BufferedSize(b, fid, payload) > MaxReassembledSize)
  BY <1>3, <1>6, MaxSizeAssumption
<1> QED
  BY <1>7 DEF Store, With

-----------------------------------------------------------------------------
(***************************************************************************)
(* Messages that are done with stay so.                                    *)
(***************************************************************************)
LEMMA DoneStays ==
  ASSUME NEW n, IsDone(n), sent'[n] = sent[n],
         {q \in lost' : q.msg = n} = {q \in lost : q.msg = n},
         EndLost(n - 1)' <=> EndLost(n - 1), EndRepeated(n) => EndRepeated(n)',
         IsSeq(delivered),
         \/ delivered' = delivered
         \/ \E e : delivered' = Append(delivered, e) /\ e.last # n
  PROVE  IsDone(n)'
<1>1. /\ Fits(n)' <=> Fits(n)
      /\ StartsAfresh(n)' <=> StartsAfresh(n)
      /\ Content(n)' = Content(n)
  BY DEF Fits, StartsAfresh, Content
<1>2. HasGap(n)' <=> HasGap(n)
  BY DEF HasGap
<1>3. IsUndisturbed(n)' <=> IsUndisturbed(n)
  <2>1. (\A p \in lost : p.msg # n) <=> {q \in lost : q.msg = n} = {}
    OBVIOUS
  <2>2. (\A p \in lost' : p.msg # n) <=> {q \in lost' : q.msg = n} = {}
    OBVIOUS
  <2> QED
    BY <1>1, <2>1, <2>2 DEF IsUndisturbed
<1>4. /\ Deliveries(n)' = Deliveries(n)
      /\ \A k \in DOMAIN delivered : k \in DOMAIN delivered' /\ delivered'[k] = delivered[k]
  <2>1. CASE delivered' = delivered
    BY <2>1 DEF Deliveries
  <2>2. ASSUME NEW e, delivered' = Append(delivered, e), e.last # n
        PROVE  <1>4!2 /\ Deliveries(n)' = Deliveries(n)
    <3>1. /\ IsSeq(delivered') /\ Len(delivered') = Len(delivered) + 1
          /\ \A k \in 1 .. Len(delivered) : delivered'[k] = delivered[k]
          /\ delivered'[Len(delivered) + 1] = e
      BY <2>2, SeqAppend
    <3>2. /\ Len(delivered) \in Nat
          /\ DOMAIN delivered = 1 .. Len(delivered)
          /\ DOMAIN delivered' = 1 .. Len(delivered) + 1
      BY <3>1, SeqDomain
    <3>3. \A k \in DOMAIN delivered' : k \in DOMAIN delivered \/ delivered'[k].last # n
      <4>1. SUFFICES ASSUME NEW k \in 1 .. Len(delivered) + 1, k \notin 1 .. Len(delivered)
                     PROVE  delivered'[k].last # n
        BY <3>2
      <4>2. k = Len(delivered) + 1
        BY <3>2, <4>1
      <4> QED
        BY <2>2, <3>1, <4>2
    <3>4. \A k \in DOMAIN delivered : k \in DOMAIN delivered' /\ delivered'[k] = delivered[k]
      BY <3>1, <3>2
    <3> QED
      BY <3>3, <3>4 DEF Deliveries
  <2> QED
    BY <2>1, <2>2
<1>5. \A k \in Deliveries(n) :
        delivered'[k] = delivered[k] /\ (IsEndAgain(k) => IsEndAgain(k)')
  <2> TAKE k \in Deliveries(n)
  <2>1. delivered'[k] = delivered[k] /\ delivered[k].last = n
    BY <1>4 DEF Deliveries
  <2> QED
    BY <2>1 DEF IsEndAgain
<1>6. IsDeliveredWhole(n) => IsDeliveredWhole(n)'
  BY <1>1, <1>4, <1>5 DEF IsDeliveredWhole
<1> QED
  BY <1>1, <1>2, <1>3, <1>4, <1>5, <1>6 DEF IsDone

\* Fragment ids and places.
LEMMA PacketFid ==
  ASSUME NEW s \in Seq(1 .. MaxChunks), NEW p, IsPacket(s, p)
  PROVE  /\ p.fid \in Nat
         /\ p.fid = 0 => Index(p) = s[p.msg]
         /\ p.fid # 0 => p.fid = Index(p) /\ p.fid < s[p.msg] /\ p.fid <= MaxChunks - 1
<1>1. /\ p.msg \in 1 .. Len(s) /\ Index(p) \in 1 .. s[p.msg]
      /\ p = PacketOf(s, p.msg, Index(p))
  BY PacketPlace
<1>2. s[p.msg] \in Nat \ {0} /\ s[p.msg] <= MaxChunks /\ MaxChunks \in Nat
  BY <1>1, SentType, ChannelAssumption
<1>3. p.fid = IF Index(p) = s[p.msg] THEN 0 ELSE Index(p)
  BY <1>1, PacketParts
<1> QED
  BY <1>1, <1>2, <1>3

\* The next packet.
LEMMA NextPacket ==
  ASSUME Types, NEW m \in Nat, NEW i \in Nat, At(m, i), network # << >>
  PROVE  /\ m \in 1 .. Len(sent) /\ i \in 1 .. sent[m] /\ sent[m] \in Nat \ {0}
         /\ Head(network) = PacketOf(sent, m, i) /\ IsPacket(sent, Head(network))
         /\ Head(network).msg = m /\ Head(network).payload = << <<m, i>> >>
         /\ Head(network).fid = (IF i = sent[m] THEN 0 ELSE i)
         /\ IsSeq(Tail(network))
         /\ IsStream(sent, Tail(network), NextMessage(sent, m, i), NextIndex(sent, m, i))
<1>1. /\ m \in 1 .. Len(sent) /\ i \in 1 .. sent[m] /\ Head(network) = PacketOf(sent, m, i)
      /\ IsStream(sent, Tail(network), NextMessage(sent, m, i), NextIndex(sent, m, i))
  BY StreamTail DEF Types, At
<1>2. IsPacket(sent, Head(network))
  BY <1>1 DEF IsPacket
<1>3. sent[m] \in Nat \ {0}
  BY <1>1, SentType DEF Types
<1>4. IsSeq(Tail(network))
  BY SeqTail DEF Types
<1> QED
  BY <1>1, <1>2, <1>3, <1>4, PacketParts

\* Which fragments are lost and repeated when it is the i-th packet's turn.
LEMMA FaultyFragments ==
  ASSUME Types, NEW m \in Nat, NEW i \in Nat, FaultsBefore(m, i)
  PROVE  /\ \A p \in lost : p.msg <= m /\ p.msg \in Nat /\ (p.msg = m => p.fid < i)
         /\ \A p \in repeated : /\ p.msg <= m /\ p.msg \in Nat /\ p.fid \in Nat
                                /\ p.msg = m => p.fid <= i
         /\ \A p \in repeated : p.msg = m /\ p.fid = i => p = PacketOf(sent, m, i)
<1>1. ASSUME NEW p \in lost
      PROVE  p.msg <= m /\ p.msg \in Nat /\ (p.msg = m => p.fid < i)
  <2>1. IsPacket(sent, p) /\ (p.msg < m \/ (p.msg = m /\ Index(p) < i))
    BY DEF FaultsBefore, IsBefore
  <2>2. p.msg \in Nat /\ Index(p) \in Nat
    BY <2>1, PacketPlace DEF Types
  <2>3. p.fid = 0 \/ p.fid = Index(p)
    BY <2>1, PacketFid DEF Types
  <2> QED
    BY <2>1, <2>2, <2>3
<1>2. ASSUME NEW p \in repeated
      PROVE  /\ p.msg <= m /\ p.msg \in Nat /\ p.fid \in Nat
             /\ p.msg = m => p.fid <= i
             /\ p.msg = m /\ p.fid = i => p = PacketOf(sent, m, i)
  <2>1. /\ IsPacket(sent, p)
        /\ p.msg < m \/ (p.msg = m /\ Index(p) < i) \/ (p.msg = m /\ Index(p) = i)
    BY DEF FaultsBefore, IsBefore
  <2>2. /\ p.msg \in Nat /\ Index(p) \in Nat \ {0}
        /\ p = PacketOf(sent, p.msg, Index(p))
    BY <2>1, PacketPlace DEF Types
  <2>3. p.fid \in Nat /\ (p.fid = 0 \/ p.fid = Index(p))
    BY <2>1, PacketFid DEF Types
  <2> QED
    BY <2>1, <2>2, <2>3
<1> QED
  BY <1>1, <1>2

\* Once a copy of the fragment 0 of message m has come, that fragment is the next packet.
LEMMA RepeatedEnd ==
  ASSUME Types, NEW m \in Nat, NEW i \in Nat, At(m, i)
  PROVE  /\ EndRepeated(m) => /\ m \in 1 .. Len(sent) /\ i = sent[m]
                              /\ PacketOf(sent, m, i) \in repeated
         /\ ~EndRepeated(m + 1)
<1>1. FaultsBefore(m, i) /\ (m # Len(sent) + 1 => i <= sent[m])
  BY DEF At, IsStream
<1>2. ASSUME EndRepeated(m)
      PROVE  m \in 1 .. Len(sent) /\ i = sent[m] /\ PacketOf(sent, m, i) \in repeated
  <2>1. PICK p \in repeated : p.msg = m /\ p.fid = 0
    BY <1>2 DEF EndRepeated
  <2>2. IsPacket(sent, p) /\ (Index(p) < i \/ Index(p) = i)
    BY <1>1, <2>1 DEF FaultsBefore, IsBefore
  <2>3. /\ m \in 1 .. Len(sent) /\ Index(p) \in Nat /\ Index(p) = sent[m]
        /\ p = PacketOf(sent, m, Index(p))
    BY <2>1, <2>2, PacketPlace, PacketFid DEF Types
  <2>4. m # Len(sent) + 1
    BY <2>3, SentType DEF Types
  <2>5. i = sent[m]
    BY <1>1, <2>2, <2>3, <2>4
  <2> QED
    BY <2>1, <2>3, <2>5
<1>3. ~EndRepeated(m + 1)
  <2>1. \A p \in repeated : p.msg <= m /\ p.msg \in Nat
    BY <1>1, FaultyFragments
  <2> QED
    BY <2>1 DEF EndRepeated
<1> QED
  BY <1>2, <1>3

-----------------------------------------------------------------------------
(***************************************************************************)
(* The steps.                                                              *)
(***************************************************************************)
LEMMA InitInv == Init => Inv
<1> SUFFICES ASSUME Init PROVE Inv
  OBVIOUS
<1>1. /\ sent = << >> /\ network = << >> /\ lost = {} /\ repeated = {} /\ copies = 0
      /\ buffer = << >> /\ delivered = << >>
  BY DEF Init, NoFragments
<1>2. /\ sent \in Seq(1 .. MaxChunks) /\ Len(sent) = 0 /\ IsSeq(network) /\ Len(network) = 0
      /\ IsSeq(delivered) /\ DOMAIN delivered = {} /\ DOMAIN buffer = {}
  BY <1>1, SeqEmpty
<1>3. IsFiniteSet({}) /\ Cardinality({}) = 0
  BY FS_EmptySet
<1>4. BufferIsBounded
  <2>1. SumFunction([f \in DOMAIN buffer |-> Len(buffer[f])]) = 0
    BY <1>2, SumOfEmptySet DEF SumFunction
  <2> QED
    BY <2>1, MaxSizeAssumption DEF BufferIsBounded
<1>5. Types
  BY <1>1, <1>2, <1>3, <1>4, ChannelAssumption DEF Types
<1>6. IsStream(sent, network, 1, 1)
  BY <1>1, <1>2 DEF IsStream
<1>7. Arrived(1, 1) = {}
  BY <1>1 DEF Arrived
<1>8. At(1, 1)
  <2>1. ~EndRepeated(1)
    BY <1>1 DEF EndRepeated
  <2> QED
    BY <1>1, <1>2, <1>6, <1>7, <2>1 DEF At, FaultsBefore, BufferAt, DeliveredBefore
<1> QED
  BY <1>5, <1>8 DEF Inv

LEMMA SendInv ==
  ASSUME Inv, NEW n \in 1 .. MaxChunks, SendData(n)
  PROVE  Inv'
<1>1. PICK m \in Nat, i \in Nat : At(m, i)
  BY DEF Inv
<1>2. Types
  BY DEF Inv
<1>3. /\ Len(sent) < MaxMessages /\ sent' = Append(sent, n)
      /\ network' = network \o Packets(Len(sent) + 1, n)
      /\ UNCHANGED <<lost, repeated, copies, buffer, delivered>>
  BY DEF SendData
<1>4. /\ sent \in Seq(1 .. MaxChunks) /\ Len(sent) \in Nat
      /\ sent' \in Seq(1 .. MaxChunks) /\ Len(sent') = Len(sent) + 1
      /\ \A k \in 1 .. Len(sent) : sent'[k] = sent[k]
  BY <1>2, <1>3, SamePackets, SentType DEF Types
<1>5. \A p : IsPacket(sent, p) => IsPacket(sent', p)
  BY <1>3, <1>4, SamePackets
<1>6. /\ IsSeq(Packets(Len(sent) + 1, n)) /\ Len(Packets(Len(sent) + 1, n)) = n
      /\ \A k \in 1 .. n : Packets(Len(sent) + 1, n)[k] = PacketOf(sent', Len(sent) + 1, k)
  BY <1>3, <1>4, SentPackets
<1>7. IsSeq(network')
  BY <1>2, <1>3, <1>6, SeqConcat DEF Types
<1>8. Types'
  BY <1>2, <1>3, <1>4, <1>7, ChannelAssumption DEF Types, BufferIsBounded
<1>9. IsStream(sent', network', m, i)
  BY <1>1, <1>2, <1>3, <1>4, <1>6, StreamSend DEF At, Types
<1>10. FaultsBefore(m, i)'
  BY <1>1, <1>3, <1>5 DEF At, FaultsBefore
<1>11. m \in 1 .. Len(sent) + 1
  BY <1>1 DEF At, IsStream
<1>12. EndRepeated(m)' <=> EndRepeated(m)
  BY <1>3 DEF EndRepeated
<1>13. BufferAt(m, i)'
  <2>1. Arrived(m, i)' = Arrived(m, i) /\ (StartsAfresh(m)' <=> StartsAfresh(m))
    BY <1>3 DEF Arrived, StartsAfresh, EndLost
  <2>2. m \in 1 .. Len(sent) => m \in 1 .. Len(sent') /\ (Fits(m)' <=> Fits(m))
    BY <1>4 DEF Fits
  <2> QED
    BY <1>1, <1>3, <1>12, <2>1, <2>2 DEF At, BufferAt
<1>14. ASSUME NEW k \in 1 .. Len(sent), IsDone(k)
       PROVE  IsDone(k)'
  <2>1. sent'[k] = sent[k] /\ IsSeq(delivered)
    BY <1>2, <1>4 DEF Types
  <2>2. (EndLost(k - 1)' <=> EndLost(k - 1)) /\ (EndRepeated(k) => EndRepeated(k)')
    BY <1>3 DEF EndLost, EndRepeated
  <2> QED
    BY <1>3, <1>14, <2>1, <2>2, DoneStays
<1>15. DeliveredBefore(m)'
  <2>1. ASSUME NEW k \in 1 .. m - 1
        PROVE  IsDone(k)'
    <3>1. k \in 1 .. Len(sent) /\ IsDone(k)
      BY <1>1, <1>4, <1>11 DEF At, DeliveredBefore
    <3> QED
      BY <1>14, <3>1
  <2>2. EndRepeated(m) => IsDone(m)'
    <3>1. EndRepeated(m) => m \in 1 .. Len(sent) /\ IsDone(m)
      BY <1>1, <1>2, RepeatedEnd DEF At, DeliveredBefore
    <3> QED
      BY <1>14, <3>1
  <2>3. \A k \in DOMAIN delivered' :
          delivered'[k].last \in 1 .. m - 1 \/ (delivered'[k].last = m /\ EndRepeated(m)')
    BY <1>1, <1>3, <1>12 DEF At, DeliveredBefore
  <2> QED
    BY <1>12, <2>1, <2>2, <2>3 DEF DeliveredBefore
<1> QED
  BY <1>8, <1>9, <1>10, <1>13, <1>15 DEF Inv, At

LEMMA LoseInv ==
  ASSUME Inv, Lose
  PROVE  Inv'
<1>1. PICK m \in Nat, i \in Nat : At(m, i)
  BY DEF Inv
<1>2. Types
  BY DEF Inv
<1>3. /\ network # << >> /\ Head(network) \notin repeated /\ Cardinality(lost) < MaxLosses
      /\ lost' = lost \union {Head(network)} /\ network' = Tail(network)
      /\ UNCHANGED <<sent, repeated, copies, buffer, delivered>>
  BY DEF Lose
<1> DEFINE p == Head(network)
<1>0. PICK M, I : M = NextMessage(sent, m, i) /\ I = NextIndex(sent, m, i)
  OBVIOUS
<1>4. /\ m \in 1 .. Len(sent) /\ i \in 1 .. sent[m] /\ sent[m] \in Nat \ {0}
      /\ p = PacketOf(sent, m, i) /\ IsPacket(sent, p)
      /\ p.msg = m /\ p.fid = (IF i = sent[m] THEN 0 ELSE i)
      /\ IsSeq(Tail(network)) /\ IsStream(sent, Tail(network), M, I)
  BY <1>0, <1>1, <1>2, <1>3, NextPacket
<1>5. Index(p) = i
  BY <1>4, PacketParts
<1>6. /\ \A q \in lost : q.msg <= m /\ q.msg \in Nat /\ (q.msg = m => q.fid < i)
      /\ \A q \in repeated : /\ q.msg <= m /\ q.msg \in Nat /\ q.fid \in Nat
                             /\ q.msg = m => q.fid <= i
      /\ \A q \in repeated : q.msg = m /\ q.fid = i => q = p
  BY <1>1, <1>2, <1>4, FaultyFragments DEF At
<1>9. lost' = lost \union {p}
  BY <1>3
<1>18. /\ ~EndRepeated(m) /\ ~EndRepeated(m + 1)
       /\ \A n : EndRepeated(n)' <=> EndRepeated(n)
  <2>1. ~EndRepeated(m) /\ ~EndRepeated(m + 1)
    BY <1>1, <1>2, <1>3, <1>4, RepeatedEnd
  <2> QED
    BY <1>3, <2>1 DEF EndRepeated
<1> HIDE DEF p
<1>7. Types'
  <2>1. IsFiniteSet(lost') /\ Cardinality(lost') <= Cardinality(lost) + 1
        /\ Cardinality(lost) \in Nat
    <3>1. IsFiniteSet(lost)
      BY <1>2 DEF Types
    <3>2. /\ IsFiniteSet(lost \union {p})
          /\ Cardinality(lost \union {p}) =
               IF p \in lost THEN Cardinality(lost) ELSE Cardinality(lost) + 1
      BY <3>1, FS_AddElement
    <3> QED
      BY <1>9, <3>1, <3>2, FS_CardinalityType
  <2>2. Cardinality(lost') <= MaxLosses
    BY <1>3, <2>1, ChannelAssumption, FS_CardinalityType
  <2> QED
    BY <1>2, <1>3, <1>4, <2>1, <2>2 DEF Types, BufferIsBounded
<1>8. IsStream(sent', network', M, I)
  BY <1>3, <1>4
<1>10. m \in Nat \ {0} /\ M \in Nat /\ I \in Nat
  BY <1>0, <1>4 DEF NextMessage, NextIndex
<1>11. ASSUME NEW q, IsPacket(sent, q), IsBefore(q, m, i) \/ (q.msg = m /\ Index(q) = i)
       PROVE  IsBefore(q, M, I)
  <2>1. (i = sent[m] /\ M = m + 1 /\ I = 1) \/ (M = m /\ I = i + 1)
    BY <1>0 DEF NextMessage, NextIndex
  <2>2. q.msg < m \/ (q.msg = m /\ Index(q) < i) \/ (q.msg = m /\ Index(q) = i)
    BY <1>11 DEF IsBefore
  <2>3. q.msg \in Nat /\ Index(q) \in Nat
    BY <1>2, <1>11, PacketPlace DEF Types
  <2> QED
    BY <1>4, <2>1, <2>2, <2>3 DEF IsBefore
<1>12. FaultsBefore(M, I)'
  <2>1. \A q \in lost' : IsPacket(sent, q) /\ (IsBefore(q, m, i) \/ (q.msg = m /\ Index(q) = i))
    BY <1>1, <1>4, <1>5, <1>9 DEF At, FaultsBefore
  <2> QED
    BY <1>1, <1>3, <1>11, <2>1 DEF At, FaultsBefore
<1>13. \A n \in Nat : n # m => ({q \in lost' : q.msg = n} = {q \in lost : q.msg = n})
                             /\ (EndLost(n)' <=> EndLost(n))
  BY <1>4, <1>9 DEF EndLost
<1>14. ASSUME NEW n \in 1 .. m - 1
       PROVE  IsDone(n)'
  <2>1. n \in Nat /\ n # m /\ n - 1 \in Nat /\ n - 1 # m /\ IsDone(n)
    BY <1>1, <1>10 DEF At, DeliveredBefore
  <2> QED
    BY <1>2, <1>3, <1>13, <1>18, <2>1, DoneStays DEF Types
<1>15. \A k \in DOMAIN delivered : delivered[k].last \in 1 .. m - 1
  BY <1>1, <1>18 DEF At, DeliveredBefore
<1>16. CASE i = sent[m]
  <2>1. M = m + 1 /\ I = 1
    BY <1>0, <1>16 DEF NextMessage, NextIndex
  <2>2. BufferAt(m + 1, 1)'
    <3>1. EndLost(m)'
      BY <1>4, <1>9, <1>16 DEF EndLost
    <3>2. ~StartsAfresh(m + 1)'
      BY <1>10, <3>1 DEF StartsAfresh
    <3> QED
      BY <1>18, <3>2 DEF BufferAt
  <2>3. IsDone(m)'
    <3>1. ~IsUndisturbed(m)'
      BY <1>4, <1>9 DEF IsUndisturbed
    <3>2. Deliveries(m)' = {}
      BY <1>3, <1>10, <1>15 DEF Deliveries
    <3> QED
      BY <3>1, <3>2 DEF IsDone
  <2>4. DeliveredBefore(m + 1)'
    <3>1. \A n \in 1 .. m + 1 - 1 : n \in 1 .. m - 1 \/ n = m
      BY <1>10
    <3>2. \A k \in DOMAIN delivered' : delivered'[k].last \in 1 .. m + 1 - 1
      BY <1>3, <1>10, <1>15
    <3> QED
      BY <1>14, <1>18, <2>3, <3>1, <3>2 DEF DeliveredBefore
  <2>5. At(m + 1, 1)'
    BY <1>8, <1>12, <2>1, <2>2, <2>4 DEF At
  <2> QED
    BY <1>7, <1>10, <2>5 DEF Inv
<1>17. CASE i # sent[m]
  <2>1. M = m /\ I = i + 1
    BY <1>0, <1>17 DEF NextMessage, NextIndex
  <2>2. BufferAt(m, i + 1)'
    <3>1. StartsAfresh(m)' <=> StartsAfresh(m)
      <4>1. m > 1 => m - 1 \in Nat /\ m - 1 # m
        BY <1>10
      <4> QED
        BY <1>13, <4>1 DEF StartsAfresh
    <3>2. Fits(m)' <=> Fits(m)
      BY <1>3 DEF Fits
    <3>3. Arrived(m, i + 1)' = Arrived(m, i)
      <4>1. ASSUME NEW f \in 1 .. i - 1
            PROVE  f \in Arrived(m, i + 1)' <=> f \in Arrived(m, i)
        <5>1. f # i /\ f < i /\ f < i + 1 /\ f # i + 1
          OBVIOUS
        <5>2. (\A q \in lost' : ~(q.msg = m /\ q.fid = f))
                <=> (\A q \in lost : ~(q.msg = m /\ q.fid = f))
          BY <1>4, <1>9, <1>17, <5>1
        <5> QED
          BY <5>1, <5>2 DEF Arrived
      <4>2. i \notin Arrived(m, i + 1)'
        BY <1>4, <1>9, <1>17 DEF Arrived
      <4>3. i \notin Arrived(m, i)
        BY <1>3, <1>6 DEF Arrived, p
      <4>4. i + 1 \notin Arrived(m, i + 1)'
        BY <1>3, <1>6 DEF Arrived
      <4>5. /\ Arrived(m, i) \subseteq 1 .. i /\ Arrived(m, i + 1)' \subseteq 1 .. i + 1
            /\ \A f \in 1 .. i + 1 : f \in 1 .. i - 1 \/ f = i \/ f = i + 1
            /\ 1 .. i \subseteq 1 .. i + 1
        BY DEF Arrived
      <4> QED
        BY <4>1, <4>2, <4>3, <4>4, <4>5
    <3> QED
      BY <1>1, <1>3, <1>18, <3>1, <3>2, <3>3 DEF At, BufferAt
  <2>3. DeliveredBefore(m)'
    BY <1>3, <1>14, <1>15, <1>18 DEF DeliveredBefore
  <2>4. At(m, i + 1)'
    BY <1>8, <1>12, <2>1, <2>2, <2>3 DEF At
  <2> QED
    BY <1>7, <1>10, <2>4 DEF Inv
<1> QED
  BY <1>16, <1>17

\* The buffer after a fragment, in the terms of the invariant.
LEMMA BufferTypes ==
  ASSUME Types, NEW packet, IsPacket(sent, packet), Len(packet.payload) \in Nat,
         buffer' = NextBuffer(buffer, packet.fid, packet.payload)
  PROVE  /\ DOMAIN buffer' \subseteq 1 .. MaxChunks - 1
         /\ \A f \in DOMAIN buffer' : Len(buffer'[f]) \in Nat
         /\ BufferIsBounded'
<1>1. CASE packet.fid = 0
  <2>1. buffer' = << >> /\ DOMAIN buffer' = {}
    BY <1>1 DEF NextBuffer, NoFragments
  <2>2. SumFunction([f \in DOMAIN buffer' |-> Len(buffer'[f])]) = 0
    BY <2>1, SumOfEmptySet DEF SumFunction
  <2> QED
    BY <2>1, <2>2, MaxSizeAssumption DEF BufferIsBounded
<1>2. CASE packet.fid # 0
  <2>1. buffer' = Store(buffer, packet.fid, packet.payload)
    BY <1>2 DEF NextBuffer
  <2>2. IsFiniteSet(DOMAIN buffer)
    <3>1. MaxChunks - 1 \in Int
      BY ChannelAssumption
    <3>2. IsFiniteSet(1 .. MaxChunks - 1)
      BY <3>1, FS_Interval
    <3> QED
      BY <3>2, FS_Subset DEF Types
  <2>3. /\ DOMAIN buffer' \subseteq DOMAIN buffer \union {packet.fid}
        /\ \A f \in DOMAIN buffer' : Len(buffer'[f]) \in Nat
        /\ SumFunction(Sizes(buffer')) <= MaxReassembledSize
    BY <2>1, <2>2, StoreIsBounded DEF Types
  <2>4. packet.fid \in 1 .. MaxChunks - 1
    BY <1>2, PacketFid, ChannelAssumption DEF Types
  <2> QED
    BY <2>3, <2>4 DEF Types, BufferIsBounded, Sizes
<1> QED
  BY <1>1, <1>2

\* A fragment of a message that can be put together joins the others.
LEMMA FragmentJoins ==
  ASSUME Types, NEW m \in 1 .. Len(sent), NEW i \in 1 .. sent[m], i # sent[m],
         sent[m] \in Nat \ {0}, StartsAfresh(m), Fits(m), BufferAt(m, i), ~EndRepeated(m),
         NEW packet, packet.fid = i, packet.payload = << <<m, i>> >>,
         buffer' = NextBuffer(buffer, packet.fid, packet.payload)
  PROVE  /\ DOMAIN buffer' = Arrived(m, i) \union {i}
         /\ \A f \in DOMAIN buffer' : buffer'[f] = << <<m, f>> >>
<1>1. /\ DOMAIN buffer = Arrived(m, i)
      /\ \A f \in DOMAIN buffer : buffer[f] = << <<m, f>> >>
  BY DEF BufferAt
<1>2. i \in Nat \ {0} /\ i <= MaxReassembledSize
  BY MaxSizeAssumption DEF Fits
<1>3. DOMAIN buffer \subseteq 1 .. i
  BY <1>1 DEF Arrived
<1>4. Len(packet.payload) = 1 /\ \A f \in DOMAIN buffer : Len(buffer[f]) = 1
  BY <1>1
<1>5. Store(buffer, i, packet.payload) = With(buffer, i, packet.payload)
  BY <1>2, <1>3, <1>4, FragmentIsStored
<1>6. buffer' = With(buffer, i, packet.payload)
  BY <1>2, <1>5 DEF NextBuffer
<1> QED
  BY <1>1, <1>6 DEF With

\* What a whole message is put together to.
LEMMA ReassembledContent ==
  ASSUME NEW m, NEW n \in Nat \ {0}, NEW b, DOMAIN b = 1 .. n - 1,
         \A f \in DOMAIN b : b[f] = << <<m, f>> >>
  PROVE  /\ IsComplete(b)
         /\ Reassembled(b, << <<m, n>> >>) = [i \in 1 .. n |-> <<m, i>>]
<1>1. n - 1 \in Nat /\ Cardinality(DOMAIN b) = n - 1
  <2>1. n - 1 \in Nat /\ n - 1 \in Int
    OBVIOUS
  <2>2. Cardinality(1 .. n - 1) = n - 1
    BY <2>1, FS_Interval
  <2> QED
    BY <2>1, <2>2
<1>2. IsComplete(b)
  BY <1>1 DEF IsComplete
<1> DEFINE s == [i \in 1 .. n |-> <<m, i>>]
           first == [i \in 1 .. n - 1 |-> s[i]]
           last == << <<m, n>> >>
<1>3. [f \in 1 .. Cardinality(DOMAIN b) |-> b[f]] = [f \in 1 .. n - 1 |-> <<s[f]>>]
  <2>1. ASSUME NEW f \in 1 .. n - 1 PROVE b[f] = <<s[f]>>
    <3>1. f \in 1 .. n
      OBVIOUS
    <3>2. s[f] = <<m, f>>
      BY <3>1
    <3> QED
      BY <3>2
  <2> HIDE DEF s
  <2> QED
    BY <1>1, <2>1
<1>4. FlattenSeq([f \in 1 .. n - 1 |-> <<s[f]>>]) = first
  <2> HIDE DEF s
  <2> QED
    BY <1>1, FlattenSingles
<1>5. Reassembled(b, last) = first \o last
  BY <1>3, <1>4, Zenon DEF Reassembled
<1>6. IsSeq(s) /\ Len(s) = n /\ \A i \in 1 .. n : s[i] = <<m, i>>
  <2>1. DOMAIN s = 1 .. n /\ s = [i \in 1 .. n |-> s[i]]
    OBVIOUS
  <2>2. \A i \in 1 .. n : s[i] = <<m, i>>
    OBVIOUS
  <2> HIDE DEF s
  <2> QED
    BY <2>1, <2>2, SeqFunction
<1>7. IsSeq(first) /\ Len(first) = n - 1 /\ \A i \in 1 .. n - 1 : first[i] = s[i]
  <2> HIDE DEF s
  <2>1. DOMAIN first = 1 .. n - 1 /\ first = [i \in 1 .. n - 1 |-> first[i]]
    OBVIOUS
  <2>2. \A i \in 1 .. n - 1 : first[i] = s[i]
    OBVIOUS
  <2> HIDE DEF first
  <2> QED
    BY <1>1, <2>1, <2>2, SeqFunction
<1>8. IsSeq(last) /\ Len(last) = 1 /\ last[1] = <<m, n>>
  BY SeqSingle
<1> HIDE DEF s, first, last
<1>9. /\ IsSeq(first \o last) /\ Len(first \o last) = n
      /\ \A i \in 1 .. n : (first \o last)[i] = IF i <= n - 1 THEN first[i] ELSE last[i - (n - 1)]
  <2>1. /\ IsSeq(first \o last) /\ Len(first \o last) = Len(first) + Len(last)
        /\ \A i \in 1 .. Len(first) + Len(last) :
             (first \o last)[i] = IF i <= Len(first) THEN first[i] ELSE last[i - Len(first)]
    BY <1>7, <1>8, SeqConcat
  <2>2. Len(first) + Len(last) = n
    BY <1>7, <1>8
  <2> QED
    BY <1>7, <2>1, <2>2
<1>10. ASSUME NEW i \in 1 .. n
       PROVE  (first \o last)[i] = s[i]
  <2>1. CASE i <= n - 1
    <3>1. i \in 1 .. n - 1
      BY <2>1
    <3> QED
      BY <1>7, <1>9, <2>1, <3>1
  <2>2. CASE i = n
    <3>1. ~(i <= n - 1) /\ i - (n - 1) = 1
      BY <2>2
    <3> QED
      BY <1>6, <1>8, <1>9, <2>2, <3>1
  <2>3. i <= n - 1 \/ i = n
    OBVIOUS
  <2> QED
    BY <2>1, <2>2, <2>3
<1>11. first \o last = s
  BY <1>6, <1>9, <1>10, SeqExtensional
<1> QED
  BY <1>2, <1>5, <1>11 DEF s, last

\* What fragment 0 alone is put together to.
LEMMA ReassembledEnd ==
  ASSUME NEW b, DOMAIN b = {}, NEW q, IsSeq(q)
  PROVE  IsComplete(b) /\ Reassembled(b, q) = q
<1>1. Cardinality(DOMAIN b) = 0 /\ 1 .. 0 = {}
  BY FS_EmptySet
<1>2. IsComplete(b)
  BY <1>1 DEF IsComplete
<1> DEFINE e == [f \in 1 .. Cardinality(DOMAIN b) |-> b[f]]
           g == [f \in 1 .. 0 |-> <<b[f]>>]
           h == [f \in 1 .. 0 |-> b[f]]
<1>3. e = g
  BY <1>1
<1>4. FlattenSeq(g) = h
  <2>1. 0 \in Nat
    OBVIOUS
  <2> QED
    BY <2>1, FlattenSingles
<1>5. IsSeq(h) /\ Len(h) = 0
  <2>1. DOMAIN h = 1 .. 0 /\ h = [f \in 1 .. 0 |-> h[f]]
    OBVIOUS
  <2> HIDE DEF h
  <2> QED
    BY <2>1, SeqFunction
<1>6. Reassembled(b, q) = h \o q
  BY <1>3, <1>4, Zenon DEF Reassembled
<1> HIDE DEF h
<1>7. /\ IsSeq(h \o q) /\ Len(q) \in Nat /\ Len(h \o q) = Len(q)
      /\ \A i \in 1 .. Len(q) : (h \o q)[i] = q[i]
  <2>1. /\ IsSeq(h \o q) /\ Len(h \o q) = Len(h) + Len(q)
        /\ \A i \in 1 .. Len(h) + Len(q) :
             (h \o q)[i] = IF i <= Len(h) THEN h[i] ELSE q[i - Len(h)]
    BY <1>5, SeqConcat
  <2>2. Len(q) \in Nat
    BY SeqDomain
  <2>3. Len(h) + Len(q) = Len(q)
    BY <1>5, <2>2
  <2>4. \A i \in 1 .. Len(q) : (h \o q)[i] = q[i]
    <3> TAKE i \in 1 .. Len(q)
    <3>1. ~(i <= Len(h)) /\ i - Len(h) = i
      BY <1>5, <2>2
    <3> QED
      BY <2>1, <2>3, <3>1
  <2> QED
    BY <2>1, <2>2, <2>3, <2>4
<1>8. h \o q = q
  BY <1>7, SeqExtensional
<1> QED
  BY <1>2, <1>6, <1>8

\* An entry is added to the deliveries of message m.
LEMMA DeliveryAdded ==
  ASSUME NEW m, IsSeq(delivered), NEW e, e.last = m, delivered' = Append(delivered, e)
  PROVE  /\ IsSeq(delivered') /\ Len(delivered) \in Nat
         /\ DOMAIN delivered' = 1 .. Len(delivered) + 1
         /\ delivered'[Len(delivered) + 1] = e
         /\ \A k \in DOMAIN delivered : delivered'[k] = delivered[k] /\ k < Len(delivered) + 1
         /\ \A k \in DOMAIN delivered' : k \in DOMAIN delivered \/ k = Len(delivered) + 1
         /\ Deliveries(m)' = Deliveries(m) \union {Len(delivered) + 1}
<1>1. /\ IsSeq(delivered') /\ Len(delivered') = Len(delivered) + 1
      /\ \A k \in 1 .. Len(delivered) : delivered'[k] = delivered[k]
      /\ delivered'[Len(delivered) + 1] = e
  BY SeqAppend
<1>2. /\ Len(delivered) \in Nat /\ DOMAIN delivered = 1 .. Len(delivered)
      /\ DOMAIN delivered' = 1 .. Len(delivered) + 1
  BY <1>1, SeqDomain
<1>3. /\ \A k \in DOMAIN delivered : delivered'[k] = delivered[k] /\ k < Len(delivered) + 1
      /\ \A k \in DOMAIN delivered : k \in DOMAIN delivered'
      /\ \A k \in DOMAIN delivered' : k \in DOMAIN delivered \/ k = Len(delivered) + 1
      /\ Len(delivered) + 1 \in DOMAIN delivered'
  BY <1>1, <1>2
<1>4. Deliveries(m)' = Deliveries(m) \union {Len(delivered) + 1}
  BY <1>1, <1>3 DEF Deliveries
<1> QED
  BY <1>1, <1>2, <1>3, <1>4

\* The fragment 0 of message m arrives, for the first time or again.
LEMMA EndArrives ==
  ASSUME Types, NEW m \in Nat, NEW i \in Nat, At(m, i), network # << >>, i = sent[m],
         HandleData(Head(network)), UNCHANGED <<sent, lost>>, repeated \subseteq repeated'
  PROVE  /\ IsDone(m)' /\ DOMAIN buffer' = {} /\ IsSeq(delivered')
         /\ \A k \in DOMAIN delivered' : delivered'[k].last \in 1 .. m
         /\ \/ delivered' = delivered
            \/ \E e : delivered' = Append(delivered, e) /\ e.last = m
<1>1. PICK e : e = [last |-> m, content |-> Reassembled(buffer, << <<m, i>> >>)]
  OBVIOUS
<1>2. e.last = m /\ e.content = Reassembled(buffer, << <<m, i>> >>)
  BY <1>1
<1>3. /\ m \in 1 .. Len(sent) /\ sent[m] \in Nat \ {0} /\ i \in Nat \ {0}
      /\ Head(network).msg = m /\ Head(network).fid = 0
      /\ Head(network).payload = << <<m, i>> >>
  BY NextPacket
<1>4. /\ buffer' = << >>
      /\ delivered' = IF IsComplete(buffer) THEN Append(delivered, e) ELSE delivered
  BY <1>1, <1>3 DEF HandleData, NextBuffer, NoFragments
<1>5. /\ IsSeq(delivered) /\ DOMAIN delivered = 1 .. Len(delivered)
      /\ \A k \in DOMAIN delivered :
           delivered[k].last \in 1 .. m - 1 \/ (delivered[k].last = m /\ EndRepeated(m))
  BY SeqDomain DEF Types, At, DeliveredBefore
<1>6. m \in Nat \ {0}
  BY <1>3
<1>7. /\ StartsAfresh(m)' <=> StartsAfresh(m)
      /\ Fits(m)' <=> Fits(m)
      /\ Content(m)' = Content(m)
      /\ HasGap(m)' <=> HasGap(m)
      /\ IsUndisturbed(m)' <=> IsUndisturbed(m)
  BY DEF StartsAfresh, EndLost, Fits, Content, HasGap, IsUndisturbed
<1>8. CASE EndRepeated(m)
  <2>1. IsDone(m) /\ DOMAIN buffer = {}
    BY <1>8 DEF At, DeliveredBefore, BufferAt
  <2>2. IsComplete(buffer) /\ e.content = << <<m, i>> >>
    <3>1. IsSeq(<< <<m, i>> >>)
      BY SeqSingle
    <3> QED
      BY <1>2, <2>1, <3>1, ReassembledEnd
  <2>3. delivered' = Append(delivered, e)
    BY <1>4, <2>2
  <2>4. /\ IsSeq(delivered') /\ Len(delivered) \in Nat
        /\ DOMAIN delivered' = 1 .. Len(delivered) + 1
        /\ delivered'[Len(delivered) + 1] = e
        /\ \A k \in DOMAIN delivered : delivered'[k] = delivered[k] /\ k < Len(delivered) + 1
        /\ Deliveries(m)' = Deliveries(m) \union {Len(delivered) + 1}
    BY <1>2, <1>5, <2>3, DeliveryAdded
  <2>5. EndRepeated(m)'
    BY <1>8 DEF EndRepeated
  <2>12. PICK z : z = Len(delivered) + 1
    OBVIOUS
  <2>6. IsEndAgain(z)'
    <3>1. delivered'[z] = e
      BY <2>4, <2>12
    <3>2. e.last = m /\ e.content = << <<m, sent'[m]>> >>
      BY <1>2, <2>2
    <3> QED
      BY <2>5, <3>1, <3>2 DEF IsEndAgain
  <2>7. \A k \in Deliveries(m) :
          /\ k \in DOMAIN delivered /\ delivered'[k] = delivered[k]
          /\ k < Len(delivered) + 1
          /\ IsEndAgain(k) => IsEndAgain(k)'
    <3> TAKE k \in Deliveries(m)
    <3>1. k \in DOMAIN delivered /\ delivered[k].last = m
      BY DEF Deliveries
    <3>2. delivered'[k] = delivered[k] /\ k < Len(delivered) + 1
      BY <2>4, <3>1
    <3> QED
      BY <2>5, <3>1, <3>2 DEF IsEndAgain
  <2>8. IsUndisturbed(m)' => IsDeliveredWhole(m)'
    <3> SUFFICES ASSUME IsUndisturbed(m)' PROVE IsDeliveredWhole(m)'
      OBVIOUS
    <3>1. PICK j \in Deliveries(m) :
            /\ delivered[j].content = Content(m)
            /\ \A k \in Deliveries(m) \ {j} : k > j /\ IsEndAgain(k)
      BY <1>7, <2>1 DEF IsDone, IsDeliveredWhole
    <3>2. j \in Deliveries(m)' /\ delivered'[j].content = Content(m)'
      BY <1>7, <2>4, <2>7, <3>1
    <3>3. ASSUME NEW k \in Deliveries(m)' \ {j}
          PROVE  k > j /\ IsEndAgain(k)'
      <4>1. CASE k \in Deliveries(m)
        BY <2>7, <3>1, <3>3, <4>1
      <4>2. CASE k = z
        <5>1. j \in Nat /\ k \in Nat /\ j < k
          BY <1>5, <2>4, <2>7, <2>12, <4>2
        <5>2. k > j
          BY <5>1
        <5> QED
          BY <2>6, <4>2, <5>2
      <4> QED
        BY <2>4, <2>12, <3>3, <4>1, <4>2
    <3> QED
      BY <3>2, <3>3 DEF IsDeliveredWhole
  <2>9. HasGap(m)' /\ Fits(m)' /\ StartsAfresh(m)' =>
          \A k \in Deliveries(m)' : IsEndAgain(k)'
    BY <1>7, <2>1, <2>4, <2>6, <2>7, <2>12 DEF IsDone
  <2>10. IsDone(m)'
    BY <2>8, <2>9 DEF IsDone
  <2>11. \A k \in DOMAIN delivered' : delivered'[k].last \in 1 .. m
    BY <1>2, <1>5, <1>6, <2>3, DeliveryAdded
  <2> QED
    BY <1>2, <1>4, <2>3, <2>4, <2>10, <2>11, EmptyDomain
<1>9. CASE ~EndRepeated(m)
  <2>1. \A k \in DOMAIN delivered : delivered[k].last \in 1 .. m - 1 /\ delivered[k].last # m
    BY <1>5, <1>6, <1>9
  <2>2. Deliveries(m) = {}
    BY <2>1 DEF Deliveries
  <2>3. StartsAfresh(m) /\ Fits(m) =>
          /\ DOMAIN buffer = {f \in 1 .. i - 1 : \A q \in lost : ~(q.msg = m /\ q.fid = f)}
          /\ \A f \in DOMAIN buffer : buffer[f] = << <<m, f>> >>
    <3>1. Arrived(m, i) = {f \in 1 .. i - 1 : \A q \in lost : ~(q.msg = m /\ q.fid = f)}
      <4>1. \A q \in repeated : ~(q.msg = m /\ q.fid = i)
        <5>1. ASSUME NEW q \in repeated, q.msg = m, q.fid = i PROVE FALSE
          <6>1. IsPacket(sent, q)
            BY DEF At, FaultsBefore
          <6>2. q.fid # 0 => q.fid < sent[q.msg]
            BY <6>1, PacketFid DEF Types
          <6> QED
            BY <1>3, <5>1, <6>2
        <5> QED
          BY <5>1
      <4>2. \A f \in 1 .. i : f < i <=> f \in 1 .. i - 1
        BY <1>3
      <4>3. \A f \in 1 .. i - 1 : f \in 1 .. i
        BY <1>3
      <4> QED
        BY <4>1, <4>2, <4>3 DEF Arrived
    <3> QED
      BY <1>3, <1>9, <3>1 DEF At, BufferAt
  <2>4. IsUndisturbed(m)' => IsDeliveredWhole(m)'
    <3> SUFFICES ASSUME IsUndisturbed(m)' PROVE IsDeliveredWhole(m)'
      OBVIOUS
    <3>1. StartsAfresh(m) /\ Fits(m) /\ \A q \in lost : q.msg # m
      BY <1>7 DEF IsUndisturbed
    <3>2. /\ DOMAIN buffer = 1 .. i - 1 /\ i \in Nat \ {0}
          /\ \A f \in DOMAIN buffer : buffer[f] = << <<m, f>> >>
      BY <1>3, <2>3, <3>1
    <3>3. /\ IsComplete(buffer)
          /\ Reassembled(buffer, << <<m, i>> >>) = [k \in 1 .. i |-> <<m, k>>]
      BY <3>2, ReassembledContent
    <3>4. e.content = Content(m) /\ delivered' = Append(delivered, e)
      BY <1>2, <1>4, <3>3 DEF Content
    <3>5. /\ delivered'[Len(delivered) + 1] = e
          /\ Deliveries(m)' = {Len(delivered) + 1}
      BY <1>2, <1>5, <2>2, <3>4, DeliveryAdded
    <3> QED
      BY <1>7, <3>4, <3>5 DEF IsDeliveredWhole
  <2>5. HasGap(m)' /\ Fits(m)' /\ StartsAfresh(m)' => Deliveries(m)' = {}
    <3> SUFFICES ASSUME HasGap(m), Fits(m), StartsAfresh(m) PROVE Deliveries(m)' = {}
      BY <1>7
    <3>1. PICK lower \in 1 .. i - 1, higher \in 1 .. i - 1 :
            /\ lower < higher
            /\ \E q \in lost : q.msg = m /\ q.fid = lower
            /\ \A q \in lost : ~(q.msg = m /\ q.fid = higher)
      BY DEF HasGap
    <3>2. lower \notin DOMAIN buffer /\ higher \in DOMAIN buffer
      BY <2>3, <3>1
    <3>3. ~IsComplete(buffer)
      <4> SUFFICES ASSUME DOMAIN buffer = 1 .. Cardinality(DOMAIN buffer) PROVE FALSE
        BY DEF IsComplete
      <4>1. higher \in 1 .. Cardinality(DOMAIN buffer)
        BY <3>2
      <4>2. Cardinality(DOMAIN buffer) \in Nat
        <5>0. i - 1 \in Int
          BY <1>3
        <5>1. IsFiniteSet(1 .. i - 1)
          BY <5>0, FS_Interval
        <5>2. DOMAIN buffer \subseteq 1 .. i - 1
          BY <2>3
        <5> QED
          BY <5>1, <5>2, FS_Subset, FS_CardinalityType
      <4>3. lower \in 1 .. Cardinality(DOMAIN buffer)
        BY <3>1, <4>1, <4>2
      <4> QED
        BY <3>2, <4>3
    <3>4. delivered' = delivered
      BY <1>4, <3>3
    <3> QED
      BY <2>2, <3>4 DEF Deliveries
  <2>6. IsDone(m)'
    BY <2>4, <2>5 DEF IsDone
  <2>7. /\ IsSeq(delivered')
        /\ \A k \in DOMAIN delivered' : delivered'[k].last \in 1 .. m
    <3>1. CASE delivered' = delivered
      BY <1>5, <1>6, <2>1, <3>1
    <3>2. CASE delivered' = Append(delivered, e)
      BY <1>2, <1>5, <1>6, <2>1, <3>2, DeliveryAdded
    <3> QED
      BY <1>4, <3>1, <3>2
  <2> QED
    BY <1>2, <1>4, <2>6, <2>7, EmptyDomain
<1> QED
  BY <1>8, <1>9

LEMMA ReceiveInv ==
  ASSUME Inv, Receive
  PROVE  Inv'
<1>1. PICK m \in Nat, i \in Nat : At(m, i)
  BY DEF Inv
<1>2. Types
  BY DEF Inv
<1> DEFINE p == Head(network)
<1>3. /\ network # << >> /\ network' = Tail(network)
      /\ UNCHANGED <<sent, lost, repeated, copies>>
      /\ HandleData(p)
      /\ buffer' = NextBuffer(buffer, p.fid, p.payload)
  BY DEF Receive, HandleData
<1>0. PICK M, I : M = NextMessage(sent, m, i) /\ I = NextIndex(sent, m, i)
  OBVIOUS
<1>4. /\ m \in 1 .. Len(sent) /\ i \in 1 .. sent[m] /\ sent[m] \in Nat \ {0}
      /\ p = PacketOf(sent, m, i) /\ IsPacket(sent, p)
      /\ p.msg = m /\ p.fid = (IF i = sent[m] THEN 0 ELSE i) /\ p.payload = << <<m, i>> >>
      /\ IsSeq(Tail(network)) /\ IsStream(sent, Tail(network), M, I)
  BY <1>0, <1>1, <1>2, <1>3, NextPacket
<1>5. /\ \A q \in lost : q.msg <= m /\ q.msg \in Nat /\ (q.msg = m => q.fid < i)
      /\ \A q \in repeated : /\ q.msg <= m /\ q.msg \in Nat /\ q.fid \in Nat
                             /\ q.msg = m => q.fid <= i
  BY <1>1, <1>2, FaultyFragments DEF At
<1>6. m \in Nat \ {0} /\ M \in Nat /\ I \in Nat
  BY <1>0, <1>4 DEF NextMessage, NextIndex
<1>7. /\ \A n : (EndRepeated(n)' <=> EndRepeated(n)) /\ (EndLost(n)' <=> EndLost(n))
      /\ ~EndRepeated(m + 1)
  BY <1>1, <1>2, <1>3, RepeatedEnd DEF EndRepeated, EndLost
<1>8. /\ DOMAIN buffer' \subseteq 1 .. MaxChunks - 1
      /\ \A f \in DOMAIN buffer' : Len(buffer'[f]) \in Nat
      /\ BufferIsBounded'
  <2>1. Len(p.payload) \in Nat
    BY <1>4
  <2> QED
    BY <1>2, <1>3, <1>4, <2>1, BufferTypes
<1>9. IsStream(sent', network', M, I)
  BY <1>3, <1>4
<1>10. ASSUME NEW q, IsPacket(sent, q), IsBefore(q, m, i) \/ (q.msg = m /\ Index(q) = i)
       PROVE  IsBefore(q, M, I)
  <2>1. (i = sent[m] /\ M = m + 1 /\ I = 1) \/ (M = m /\ I = i + 1)
    BY <1>0 DEF NextMessage, NextIndex
  <2>2. q.msg < m \/ (q.msg = m /\ Index(q) < i) \/ (q.msg = m /\ Index(q) = i)
    BY <1>10 DEF IsBefore
  <2>3. q.msg \in Nat /\ Index(q) \in Nat
    BY <1>2, <1>10, PacketPlace DEF Types
  <2> QED
    BY <1>4, <2>1, <2>2, <2>3 DEF IsBefore
<1>11. FaultsBefore(M, I)'
  <2> HIDE DEF p
  <2> QED
    BY <1>1, <1>3, <1>10 DEF At, FaultsBefore
<1>12. ASSUME NEW n \in Nat, IsDone(n), n # m,
              \/ delivered' = delivered
              \/ \E e : delivered' = Append(delivered, e) /\ e.last = m
       PROVE  IsDone(n)'
  <2>1. IsSeq(delivered)
    BY <1>2 DEF Types
  <2>2. \/ delivered' = delivered
        \/ \E e : delivered' = Append(delivered, e) /\ e.last # n
    BY <1>12
  <2> QED
    BY <1>3, <1>7, <1>12, <2>1, <2>2, DoneStays
<1>13. StartsAfresh(m)' = StartsAfresh(m) /\ Fits(m)' = Fits(m)
  BY <1>3 DEF StartsAfresh, EndLost, Fits
<1>14. CASE i = sent[m]
  <2>1. M = m + 1 /\ I = 1
    BY <1>0, <1>14 DEF NextMessage, NextIndex
  <2>2. /\ IsDone(m)' /\ DOMAIN buffer' = {} /\ IsSeq(delivered')
        /\ \A k \in DOMAIN delivered' : delivered'[k].last \in 1 .. m
        /\ \/ delivered' = delivered
           \/ \E e : delivered' = Append(delivered, e) /\ e.last = m
    BY <1>1, <1>2, <1>3, <1>14, EndArrives
  <2>3. Types'
    BY <1>2, <1>3, <1>4, <1>8, <2>2 DEF Types
  <2>4. BufferAt(m + 1, 1)'
    <3>1. \A q \in repeated' : q.msg # m + 1
      BY <1>3, <1>5, <1>6
    <3>2. Arrived(m + 1, 1)' = {}
      BY <3>1 DEF Arrived
    <3> QED
      BY <2>2, <3>2 DEF BufferAt
  <2>5. DeliveredBefore(m + 1)'
    <3>1. \A n \in 1 .. m - 1 : IsDone(n)'
      BY <1>1, <1>6, <1>12, <2>2 DEF At, DeliveredBefore
    <3>2. m + 1 - 1 = m /\ \A n \in 1 .. m : n \in 1 .. m - 1 \/ n = m
      BY <1>6
    <3>3. \A n \in 1 .. m + 1 - 1 : IsDone(n)'
      BY <2>2, <3>1, <3>2
    <3> QED
      BY <1>7, <2>2, <3>2, <3>3 DEF DeliveredBefore
  <2>6. At(m + 1, 1)'
    BY <1>9, <1>11, <2>1, <2>4, <2>5 DEF At
  <2> QED
    BY <1>6, <2>3, <2>6 DEF Inv
<1>15. CASE i # sent[m]
  <2>1. M = m /\ I = i + 1 /\ p.fid = i /\ i # 0
    BY <1>0, <1>4, <1>15 DEF NextMessage, NextIndex
  <2>2. delivered' = delivered
    BY <1>3, <2>1 DEF HandleData
  <2>3. ~EndRepeated(m)
    BY <1>1, <1>2, <1>15, RepeatedEnd
  <2>4. Types'
    BY <1>2, <1>3, <1>4, <1>8, <2>2 DEF Types
  <2> HIDE DEF p
  <2>5. BufferAt(m, i + 1)'
    <3> SUFFICES ASSUME StartsAfresh(m), Fits(m)
                 PROVE  /\ DOMAIN buffer' = Arrived(m, i + 1)'
                        /\ \A f \in DOMAIN buffer' : buffer'[f] = << <<m, f>> >>
      BY <1>3, <1>4, <1>7, <1>13, <2>3 DEF BufferAt
    <3>1. /\ DOMAIN buffer' = Arrived(m, i) \union {i}
          /\ \A f \in DOMAIN buffer' : buffer'[f] = << <<m, f>> >>
      BY <1>1, <1>2, <1>3, <1>4, <1>15, <2>1, <2>3, FragmentJoins DEF At
    <3>2. Arrived(m, i + 1)' = Arrived(m, i) \union {i}
      <4>1. ASSUME NEW f \in 1 .. i - 1
            PROVE  f \in Arrived(m, i + 1)' <=> f \in Arrived(m, i)
        <5>1. f # i /\ f < i /\ f < i + 1 /\ f # i + 1
          OBVIOUS
        <5> QED
          BY <1>3, <5>1 DEF Arrived
      <4>2. i \in Arrived(m, i + 1)'
        BY <1>3, <1>4, <1>5 DEF Arrived
      <4>3. i + 1 \notin Arrived(m, i + 1)'
        BY <1>3, <1>5 DEF Arrived
      <4>4. /\ Arrived(m, i) \subseteq 1 .. i /\ Arrived(m, i + 1)' \subseteq 1 .. i + 1
            /\ \A f \in 1 .. i + 1 : f \in 1 .. i - 1 \/ f = i \/ f = i + 1
            /\ \A f \in 1 .. i : f # i + 1
        BY DEF Arrived
      <4> QED
        BY <4>1, <4>2, <4>3, <4>4
    <3> QED
      BY <3>1, <3>2
  <2>6. DeliveredBefore(m)'
    <3>1. \A n \in 1 .. m - 1 : IsDone(n)'
      BY <1>1, <1>6, <1>12, <2>2 DEF At, DeliveredBefore
    <3>2. \A k \in DOMAIN delivered' : delivered'[k].last \in 1 .. m - 1
      BY <1>1, <2>2, <2>3 DEF At, DeliveredBefore
    <3> QED
      BY <1>7, <2>3, <3>1, <3>2 DEF DeliveredBefore
  <2>7. At(m, i + 1)'
    BY <1>9, <1>11, <2>1, <2>5, <2>6 DEF At
  <2> QED
    BY <1>6, <2>4, <2>7 DEF Inv
<1> QED
  BY <1>14, <1>15

LEMMA ReceiveCopyInv ==
  ASSUME Inv, ReceiveCopy
  PROVE  Inv'
<1>1. PICK m \in Nat, i \in Nat : At(m, i)
  BY DEF Inv
<1>2. Types
  BY DEF Inv
<1> DEFINE p == Head(network)
<1>3. /\ network # << >> /\ copies < MaxRepeats /\ copies' = copies + 1
      /\ repeated' = repeated \union {p}
      /\ UNCHANGED <<sent, network, lost>>
      /\ HandleData(p)
      /\ buffer' = NextBuffer(buffer, p.fid, p.payload)
  BY DEF ReceiveCopy, HandleData
<1>4. /\ m \in 1 .. Len(sent) /\ i \in 1 .. sent[m] /\ sent[m] \in Nat \ {0}
      /\ p = PacketOf(sent, m, i) /\ IsPacket(sent, p)
      /\ p.msg = m /\ p.fid = (IF i = sent[m] THEN 0 ELSE i) /\ p.payload = << <<m, i>> >>
  BY <1>1, <1>2, <1>3, NextPacket
<1>5. Index(p) = i /\ m \in Nat \ {0}
  BY <1>4, PacketParts
<1>6. \A q \in lost : q.msg = m => q.fid < i
  BY <1>1, <1>2, FaultyFragments DEF At
<1>7. ASSUME IsSeq(delivered')
      PROVE  Types'
  <2>1. Len(p.payload) \in Nat
    BY <1>4
  <2>2. /\ DOMAIN buffer' \subseteq 1 .. MaxChunks - 1
        /\ \A f \in DOMAIN buffer' : Len(buffer'[f]) \in Nat
        /\ BufferIsBounded'
    BY <1>2, <1>3, <1>4, <2>1, BufferTypes
  <2>3. IsFiniteSet(repeated) /\ Cardinality(repeated) <= copies /\ copies \in 0 .. MaxRepeats
    BY <1>2 DEF Types
  <2>4. /\ IsFiniteSet(repeated \union {p}) /\ Cardinality(repeated) \in Nat
        /\ Cardinality(repeated \union {p}) =
             IF p \in repeated THEN Cardinality(repeated) ELSE Cardinality(repeated) + 1
    BY <2>3, FS_AddElement, FS_CardinalityType
  <2>5. Cardinality(repeated') <= copies' /\ copies' \in 0 .. MaxRepeats
    BY <1>3, <2>3, <2>4, ChannelAssumption
  <2> QED
    BY <1>2, <1>3, <1>7, <2>2, <2>4, <2>5 DEF Types
<1>8. FaultsBefore(m, i)'
  BY <1>1, <1>3, <1>4, <1>5 DEF At, FaultsBefore
<1>9. StartsAfresh(m)' = StartsAfresh(m) /\ Fits(m)' = Fits(m)
  BY <1>3 DEF StartsAfresh, EndLost, Fits
<1>10. ASSUME NEW n \in 1 .. m - 1,
              \/ delivered' = delivered
              \/ \E e : delivered' = Append(delivered, e) /\ e.last = m
       PROVE  IsDone(n)'
  <2>1. IsDone(n) /\ IsSeq(delivered) /\ n # m
    BY <1>1, <1>2, <1>5 DEF Types, At, DeliveredBefore
  <2>2. (EndLost(n - 1)' <=> EndLost(n - 1)) /\ (EndRepeated(n) => EndRepeated(n)')
    BY <1>3 DEF EndLost, EndRepeated
  <2>3. \/ delivered' = delivered
        \/ \E e : delivered' = Append(delivered, e) /\ e.last # n
    BY <1>10, <2>1
  <2> QED
    BY <1>3, <2>1, <2>2, <2>3, DoneStays
<1>11. CASE i = sent[m]
  <2>1. EndRepeated(m)'
    BY <1>3, <1>4, <1>11 DEF EndRepeated
  <2>2. repeated \subseteq repeated'
    BY <1>3
  <2>3. /\ IsDone(m)' /\ DOMAIN buffer' = {} /\ IsSeq(delivered')
        /\ \A k \in DOMAIN delivered' : delivered'[k].last \in 1 .. m
        /\ \/ delivered' = delivered
           \/ \E e : delivered' = Append(delivered, e) /\ e.last = m
    BY <1>1, <1>2, <1>3, <1>11, <2>2, EndArrives
  <2>4. BufferAt(m, i)'
    BY <2>1, <2>3 DEF BufferAt
  <2>5. DeliveredBefore(m)'
    <3>1. \A n \in 1 .. m : n \in 1 .. m - 1 \/ n = m
      BY <1>5
    <3>2. \A k \in DOMAIN delivered' :
            delivered'[k].last \in 1 .. m - 1 \/ delivered'[k].last = m
      BY <2>3, <3>1
    <3> QED
      BY <1>10, <2>1, <2>3, <3>2 DEF DeliveredBefore
  <2>6. At(m, i)'
    BY <1>1, <1>3, <1>8, <2>4, <2>5 DEF At
  <2> QED
    BY <1>7, <2>3, <2>6 DEF Inv
<1>12. CASE i # sent[m]
  <2>1. p.fid = i /\ i # 0
    BY <1>4, <1>12
  <2>2. delivered' = delivered
    BY <1>3, <2>1 DEF HandleData
  <2>3. ~EndRepeated(m)
    BY <1>1, <1>2, <1>12, RepeatedEnd
  <2> HIDE DEF p
  <2>4. ~EndRepeated(m)'
    BY <1>3, <2>1, <2>3 DEF EndRepeated
  <2>5. BufferAt(m, i)'
    <3> SUFFICES ASSUME StartsAfresh(m), Fits(m)
                 PROVE  /\ DOMAIN buffer' = Arrived(m, i)'
                        /\ \A f \in DOMAIN buffer' : buffer'[f] = << <<m, f>> >>
      BY <1>3, <1>4, <1>9, <2>4 DEF BufferAt
    <3>1. /\ DOMAIN buffer' = Arrived(m, i) \union {i}
          /\ \A f \in DOMAIN buffer' : buffer'[f] = << <<m, f>> >>
      BY <1>1, <1>2, <1>3, <1>4, <1>12, <2>1, <2>3, FragmentJoins DEF At
    <3>2. Arrived(m, i)' = Arrived(m, i) \union {i}
      <4>1. i \in Arrived(m, i)'
        BY <1>3, <1>4, <2>1 DEF Arrived
      <4>2. \A f \in 1 .. i : f # i => (f \in Arrived(m, i)' <=> f \in Arrived(m, i))
        BY <1>3 DEF Arrived
      <4>3. Arrived(m, i) \subseteq 1 .. i /\ Arrived(m, i)' \subseteq 1 .. i
        BY DEF Arrived
      <4> QED
        BY <4>1, <4>2, <4>3
    <3> QED
      BY <3>1, <3>2
  <2>6. DeliveredBefore(m)'
    <3>1. \A n \in 1 .. m - 1 : IsDone(n)'
      BY <1>10, <2>2
    <3>2. \A k \in DOMAIN delivered' : delivered'[k].last \in 1 .. m - 1
      BY <1>1, <2>2, <2>3 DEF At, DeliveredBefore
    <3> QED
      BY <2>4, <3>1, <3>2 DEF DeliveredBefore
  <2>7. At(m, i)'
    BY <1>1, <1>3, <1>8, <2>5, <2>6 DEF At
  <2>8. IsSeq(delivered')
    BY <1>2, <2>2 DEF Types
  <2> QED
    BY <1>7, <2>7, <2>8 DEF Inv
<1> QED
  BY <1>11, <1>12

LEMMA NextInv ==
  ASSUME Inv, [Next]_vars
  PROVE  Inv'
<1>1. CASE \E n \in 1 .. MaxChunks : SendData(n)
  BY <1>1, SendInv
<1>2. CASE Lose
  BY <1>2, LoseInv
<1>3. CASE Receive
  BY <1>3, ReceiveInv
<1>4. CASE ReceiveCopy
  BY <1>4, ReceiveCopyInv
<1>5. CASE UNCHANGED vars
  <2>1. /\ sent' = sent /\ network' = network /\ lost' = lost
        /\ repeated' = repeated /\ copies' = copies /\ buffer' = buffer
        /\ delivered' = delivered
    BY <1>5 DEF vars
  <2>2. Types'
    BY <2>1 DEF Inv, Types, BufferIsBounded
  <2>3. PICK m \in Nat, i \in Nat : At(m, i)
    BY DEF Inv
  <2>4. IsStream(sent, network, m, i)' /\ FaultsBefore(m, i)'
    BY <2>1, <2>3 DEF At, FaultsBefore
  <2>5. \A n \in Nat : (EndLost(n)' <=> EndLost(n)) /\ (EndRepeated(n)' <=> EndRepeated(n))
    BY <2>1 DEF EndLost, EndRepeated
  <2>6. BufferAt(m, i)'
    <3>1. StartsAfresh(m)' <=> StartsAfresh(m)
      BY <2>1, <2>5 DEF StartsAfresh
    <3>2. Fits(m)' <=> Fits(m)
      BY <2>1 DEF Fits
    <3>3. Arrived(m, i)' = Arrived(m, i)
      BY <2>1 DEF Arrived
    <3> QED
      BY <2>1, <2>3, <2>5, <3>1, <3>2, <3>3 DEF At, BufferAt
  <2>7. DeliveredBefore(m)'
    <3>1. ASSUME NEW n \in Nat \ {0}, IsDone(n) PROVE IsDone(n)'
      <4>1. n - 1 \in Nat
        BY <3>1
      <4> QED
        BY <2>1, <2>5, <3>1, <4>1, DoneStays DEF Inv, Types
    <3>2. EndRepeated(m) => m \in Nat \ {0}
      BY <2>3, RepeatedEnd DEF Inv
    <3>3. /\ \A n \in 1 .. m - 1 : IsDone(n)'
          /\ EndRepeated(m) => IsDone(m)'
      BY <2>3, <3>1, <3>2 DEF At, DeliveredBefore
    <3> QED
      BY <2>1, <2>3, <2>5, <3>3 DEF At, DeliveredBefore
  <2> QED
    BY <2>2, <2>3, <2>4, <2>6, <2>7 DEF Inv, At
<1> QED
  BY <1>1, <1>2, <1>3, <1>4, <1>5 DEF Next

LEMMA InvAlways == Spec => []Inv
<1>1. Inv /\ [Next]_vars => Inv'
  BY NextInv
<1> QED
  BY InitInv, <1>1, PTL DEF Spec

-----------------------------------------------------------------------------
\* The variables stay in their types, and the faults within their bounds: whatever is
\* on its way, buffered or delivered belongs to a message that was sent.
THEOREM ChannelTypes == Spec => []TypeOK
<1>1. ASSUME Inv PROVE TypeOK
  <2>1. PICK m \in Nat, i \in Nat : At(m, i)
    BY <1>1 DEF Inv
  <2>2. Types
    BY <1>1 DEF Inv
  <2>3. Len(sent) \in Nat /\ DOMAIN sent = 1 .. Len(sent)
    BY <2>2, SentType DEF Types
  <2>4. ASSUME NEW k \in DOMAIN network PROVE network[k].msg \in DOMAIN sent
    <3>1. k \in 1 .. Len(network)
      BY <2>2, SeqDomain DEF Types
    <3>2. IsPacket(sent, network[k])
      BY <2>1, <3>1 DEF At, IsStream
    <3> QED
      BY <2>2, <2>3, <3>2, PacketPlace DEF Types
  <2>5. ASSUME NEW k \in DOMAIN delivered PROVE delivered[k].last \in DOMAIN sent
    <3>1. /\ m \in 1 .. Len(sent) + 1
          /\ \/ delivered[k].last \in 1 .. m - 1
             \/ delivered[k].last = m /\ m \in 1 .. Len(sent)
      BY <2>1, <2>2, RepeatedEnd DEF At, DeliveredBefore, IsStream
    <3> QED
      BY <2>3, <3>1
  <2> QED
    BY <2>2, <2>4, <2>5 DEF Types, TypeOK
<1> QED
  BY InvAlways, <1>1, PTL

\* However often fragments are lost, repeated or left over from another message, a
\* client's buffer stays within MAX_REASSEMBLED_SIZE.
THEOREM BufferStaysBounded == Spec => []BufferIsBounded
<1>1. Inv => BufferIsBounded
  BY DEF Inv, Types
<1> QED
  BY InvAlways, <1>1, PTL

\* A message of which a fragment is lost and a later one arrives is dropped when its
\* fragment 0 comes; only a copy of that fragment is delivered after it, alone, and
\* nothing else of the message ever is (handleData).
THEOREM GapsAreAlwaysNoticed == Spec => []GapsAreNoticed
<1>1. ASSUME Inv PROVE GapsAreNoticed
  <2>1. PICK m \in Nat, i \in Nat : At(m, i)
    BY <1>1 DEF Inv
  <2>2. /\ m \in 1 .. Len(sent) + 1
        /\ \A k \in DOMAIN delivered :
             delivered[k].last \in 1 .. m - 1 \/ (delivered[k].last = m /\ IsDone(m))
        /\ \A n \in 1 .. m - 1 : IsDone(n)
    BY <2>1 DEF At, DeliveredBefore, IsStream
  <2>3. ASSUME NEW n \in DOMAIN sent, HasGap(n), Fits(n), StartsAfresh(n),
               NEW k \in Deliveries(n)
        PROVE  IsEndAgain(k)
    <3>1. k \in DOMAIN delivered /\ delivered[k].last = n
      BY DEF Deliveries
    <3>2. IsDone(n)
      BY <2>2, <3>1
    <3> QED
      BY <2>3, <3>2 DEF IsDone
  <2> QED
    BY <2>3 DEF GapsAreNoticed
<1> QED
  BY InvAlways, <1>1, PTL

\* Loss is contained: a message that arrived as a whole, and does not follow one whose
\* end was lost, reaches the handler as it was sent, whatever happened to the messages
\* before it and however often its own fragments came.  It does so exactly once, but for
\* the copies of its fragment 0, each of which may follow as a message of the last chunk.
THEOREM LossStaysContained == Spec => []LossIsContained
<1>1. ASSUME Inv PROVE LossIsContained
  <2>1. PICK m \in Nat, i \in Nat : At(m, i)
    BY <1>1 DEF Inv
  <2>2. Types
    BY <1>1 DEF Inv
  <2>3. Len(sent) \in Nat /\ DOMAIN sent = 1 .. Len(sent)
        /\ DOMAIN network = 1 .. Len(network)
        /\ \A k \in 1 .. Len(sent) : sent[k] \in Nat \ {0}
    BY <2>2, SentType, SeqDomain DEF Types
  <2>4. ASSUME NEW n \in DOMAIN sent, IsUndisturbed(n), IsThrough(n)
        PROVE  IsDeliveredWhole(n)
    <3>1. n < m
      <4> SUFFICES ASSUME n >= m PROVE FALSE
        BY <2>3
      <4>1. sent[n] \in 1 .. sent[n]
        BY <2>3
      <4>2. IsFrom(n, sent[n], m, i)
        <5>1. m = n => i <= sent[n]
          BY <2>1, <2>3 DEF At, IsStream
        <5> QED
          BY <2>3, <5>1 DEF IsFrom
      <4>3. PICK k \in 1 .. Len(network) : network[k] = PacketOf(sent, n, sent[n])
        BY <2>1, <2>3, <4>1, <4>2 DEF At, IsStream
      <4>4. network[k].msg = n
        BY <4>3, PacketParts
      <4> QED
        BY <2>3, <2>4, <4>4 DEF IsThrough
    <3>2. n \in 1 .. m - 1
      BY <2>3, <3>1
    <3> QED
      BY <2>1, <2>4, <3>2 DEF At, DeliveredBefore, IsDone
  <2> QED
    BY <2>4 DEF LossIsContained
<1> QED
  BY InvAlways, <1>1, PTL
=============================================================================
