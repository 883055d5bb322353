---------------------------- MODULE ExchangeProofs ----------------------------
(***************************************************************************)
(* Proofs about Exchange, for any plans, any handler, and any sizes and    *)
(* number spaces: what the clients of one service get, how often, and      *)
(* under which sequence ids, sessions and addresses.  Then proofs about    *)
(* RmcExchange: the dispatcher reads what was sent and the clients read    *)
(* what their calls came to, strangers get nothing, probes reach the       *)
(* clients that were asked for, and every ticket lets its holder in.       *)
(***************************************************************************)
EXTENDS RmcExchange, DataLemmas

-----------------------------------------------------------------------------
(***************************************************************************)
(* Logs that are unbroken, and one more answer at their end.               *)
(***************************************************************************)
\* The fragments of one answer to this address, whose first is the next after a log.
IsNextAnswer(part, log, info, to) ==
  \A i \in 1 .. Len(part) :
    /\ part[i].to = to
    /\ part[i].sessionId = info.serverSession
    /\ part[i].signature = info.clientSignature
    /\ part[i].fragmentId = Len(part) - i
    /\ part[i].sequence = (((Len(log) + 1) % SequenceSpace) + i - 1) % SequenceSpace

\* A log stays unbroken when an answer is put at its end.
LEMMA UnbrokenConcat ==
  ASSUME NEW log, IsSeq(log), NEW info, IsUnbroken(log, info),
         NEW part, IsSeq(part), NEW to, IsNextAnswer(part, log, info, to)
  PROVE  IsUnbroken(log \o part, info)
<1> USE DEF IsNextAnswer
<1> DEFINE whole == log \o part
           l == Len(log)
           n == Len(part)
<1>1. l \in Nat /\ n \in Nat /\ DOMAIN log = 1 .. l
  BY SeqDomain
<1>2. /\ IsSeq(whole) /\ Len(whole) = l + n
      /\ \A i \in 1 .. l + n : whole[i] = IF i <= l THEN log[i] ELSE part[i - l]
  BY SeqConcat
<1>3. DOMAIN whole = 1 .. l + n
  BY <1>2, SeqDomain
<1> HIDE DEF whole, l, n
<1>4. ASSUME NEW i \in 1 .. l + n
      PROVE  /\ whole[i].sequence = i % SequenceSpace
             /\ whole[i].sessionId = info.serverSession
             /\ whole[i].signature = info.clientSignature
             /\ whole[i].fragmentId # 0 =>
                  /\ i < l + n
                  /\ whole[i + 1].fragmentId = whole[i].fragmentId - 1
                  /\ whole[i + 1].to = whole[i].to
  <2>1. CASE i <= l
    <3>1. whole[i] = log[i] /\ i \in DOMAIN log
      BY <1>1, <1>2, <2>1
    <3>2. log[i].fragmentId # 0 => i < l /\ whole[i + 1] = log[i + 1]
      BY <1>1, <1>2, <3>1 DEF IsUnbroken, l
    <3> QED
      BY <1>1, <3>1, <3>2 DEF IsUnbroken
  <2>2. CASE i > l
    <3> DEFINE k == i - l
    <3>1. k \in 1 .. n /\ whole[i] = part[k]
      BY <1>1, <1>2, <2>2
    <3>2. part[k].sequence = (((l + 1) % SequenceSpace) + k - 1) % SequenceSpace
      BY <3>1 DEF l, n
    <3>3. ((l + 1) % SequenceSpace) + (k - 1) = ((l + 1) % SequenceSpace) + k - 1
      BY <1>1, <3>1, ModParts, ExchangeAssumption
    <3>4. (((l + 1) % SequenceSpace) + (k - 1)) % SequenceSpace = (l + 1 + (k - 1)) % SequenceSpace
      <4>1. l + 1 \in Nat /\ k - 1 \in Nat
        BY <1>1, <3>1
      <4> HIDE DEF k
      <4> QED
        BY <4>1, ModAdd, ExchangeAssumption
    <3>5. l + 1 + (k - 1) = i
      BY <1>1
    <3>6. part[k].fragmentId # 0 => k < n /\ whole[i + 1] = part[k + 1]
      <4>1. part[k].fragmentId = n - k
        BY <3>1 DEF n
      <4>2. part[k].fragmentId # 0 => k < n
        BY <1>1, <3>1, <4>1
      <4> QED
        BY <1>1, <1>2, <2>2, <3>1, <4>2
    <3>7. part[k].fragmentId # 0 =>
            /\ i < l + n
            /\ part[k + 1].fragmentId = part[k].fragmentId - 1
            /\ part[k + 1].to = part[k].to
      BY <1>1, <3>1, <3>6, SMTT(30) DEF n
    <3>8. part[k].sequence = i % SequenceSpace
      BY <3>2, <3>3, <3>4, <3>5
    <3>9. part[k].sessionId = info.serverSession /\ part[k].signature = info.clientSignature
      BY <3>1 DEF n
    <3> QED
      BY <3>1, <3>6, <3>7, <3>8, <3>9
  <2> QED
    BY <1>1, <2>1, <2>2
<1> QED
  BY <1>2, <1>3, <1>4 DEF IsUnbroken, whole

-----------------------------------------------------------------------------
(***************************************************************************)
(* The inductive invariant: the log of each connection is unbroken and its *)
(* counter is one ahead of it; jobs are of connections there were.         *)
(***************************************************************************)
InfoFields ==
  {"address", "userId", "connectionId", "clientSignature", "clientSession", "serverSession",
   "serverSequenceId", "clientSequenceId", "packetFragments"}

IsLogOf(info, log) ==
  /\ DOMAIN info = InfoFields
  /\ IsSeq(log)
  /\ IsUnbroken(log, info)
  /\ info.serverSequenceId = (Len(log) + 1) % SequenceSpace

JobFields ==
  {"client", "header", "from", "piece", "call", "data", "answered", "sequence", "pending",
   "becomes", "response", "probes"}

IsJob(job, count) ==
  /\ DOMAIN job = JobFields
  /\ job.client \in 1 .. count
  /\ IsSeq(job.response)
  /\ HasHandler(job.header)
  /\ job.pending => job.answered

Inv ==
  /\ IsSeq(infos) /\ IsSeq(answered) /\ IsSeq(jobs)
  /\ Len(answered) = Len(infos)
  /\ clients \subseteq Signatures
  /\ \A s \in Signatures : IsLogOf(infos[s], answered[s])
  /\ \A j \in DOMAIN jobs : IsJob(jobs[j], Len(infos))

LEMMA CountIsNat ==
  ASSUME NEW data, Len(data) \in Nat
  PROVE  Count(data) \in Nat
<1> DEFINE n == Len(data) + MaxPayload - 1
<1>1. n \in Nat /\ MaxPayload \in Nat \ {0}
  BY ExchangeAssumption
<1> HIDE DEF n
<1>2. n \div MaxPayload \in Nat
  BY <1>1
<1> QED
  BY <1>2 DEF Count, n

\* A connection that differs in other things has the same log.
LEMMA SameLog ==
  ASSUME NEW info, NEW log, IsLogOf(info, log), NEW other, DOMAIN other = InfoFields,
         other.serverSession = info.serverSession,
         other.clientSignature = info.clientSignature,
         other.serverSequenceId = info.serverSequenceId
  PROVE  IsLogOf(other, log)
BY DEF IsLogOf, IsUnbroken

LEMMA AnsweredLog ==
  ASSUME Inv, NEW s \in Signatures, NEW job, Len(job.response) \in Nat,
         NEW other, DOMAIN other = InfoFields,
         other.serverSession = infos[s].serverSession,
         other.clientSignature = infos[s].clientSignature,
         other.serverSequenceId = NextSequenceId(s, job)
  PROVE  IsLogOf(other, answered[s] \o Fragmented(s, job))
<1> DEFINE log == answered[s]
           part == Fragmented(s, job)
           n == Count(job.response)
<1>1. IsLogOf(infos[s], log)
  BY DEF Inv
<1>2. n \in Nat
  BY CountIsNat
<1>3. part = [i \in 1 .. n |-> AnswerPacket(s, job, i)]
  BY DEF Fragmented
<1>4. IsSeq(part) /\ Len(part) = n /\ \A i \in 1 .. n : part[i] = AnswerPacket(s, job, i)
  <2> HIDE DEF part, n
  <2>1. DOMAIN part = 1 .. n /\ part = [i \in 1 .. n |-> part[i]]
    BY <1>3
  <2> QED
    BY <1>2, <1>3, <2>1, SeqFunction
<1>5. Len(log) \in Nat
  BY <1>1, SeqDomain DEF IsLogOf
<1>6. \A i \in 1 .. n :
        /\ part[i].to = job.from
        /\ part[i].sessionId = other.serverSession
        /\ part[i].signature = other.clientSignature
        /\ part[i].fragmentId = n - i
        /\ part[i].sequence = (((Len(log) + 1) % SequenceSpace) + i - 1) % SequenceSpace
  <2> SUFFICES ASSUME NEW i \in 1 .. n
               PROVE  /\ part[i].to = job.from
                      /\ part[i].sessionId = other.serverSession
                      /\ part[i].signature = other.clientSignature
                      /\ part[i].fragmentId = n - i
                      /\ part[i].sequence
                           = (((Len(log) + 1) % SequenceSpace) + i - 1) % SequenceSpace
    OBVIOUS
  <2>1. part[i] = AnswerPacket(s, job, i)
    BY <1>4
  <2>2. /\ AnswerPacket(s, job, i).to = job.from
        /\ AnswerPacket(s, job, i).sessionId = infos[s].serverSession
        /\ AnswerPacket(s, job, i).signature = infos[s].clientSignature
        /\ AnswerPacket(s, job, i).fragmentId = n - i
        /\ AnswerPacket(s, job, i).sequence
             = (infos[s].serverSequenceId + i - 1) % SequenceSpace
    BY DEF AnswerPacket, AnswerTo, FragmentId, AnswerSequence
  <2>3. infos[s].serverSequenceId = (Len(log) + 1) % SequenceSpace
    BY <1>1 DEF IsLogOf
  <2> QED
    BY <2>1, <2>2, <2>3
<1>7. IsSeq(log) /\ IsUnbroken(log, other)
  BY <1>1 DEF IsLogOf, IsUnbroken
<1>8. IsUnbroken(log \o part, other)
  <2> HIDE DEF log, part, n
  <2>1. IsNextAnswer(part, log, other, job.from)
    BY <1>4, <1>6 DEF IsNextAnswer
  <2> QED
    BY <1>4, <1>7, <2>1, UnbrokenConcat
<1>9. IsSeq(log \o part) /\ Len(log \o part) = Len(log) + n
  <2> HIDE DEF log, part, n
  <2> QED
    BY <1>4, <1>7, SeqConcat
<1>10. other.serverSequenceId = (Len(log) + n + 1) % SequenceSpace
  <2>1. other.serverSequenceId = (((Len(log) + 1) % SequenceSpace) + n) % SequenceSpace
    BY <1>1 DEF IsLogOf, NextSequenceId
  <2> HIDE DEF log, n
  <2>2. Len(log) + 1 \in Nat
    BY <1>5
  <2>3. (((Len(log) + 1) % SequenceSpace) + n) % SequenceSpace
          = (Len(log) + 1 + n) % SequenceSpace
    BY <1>2, <2>2, ModAdd, ExchangeAssumption
  <2>4. Len(log) + 1 + n = Len(log) + n + 1
    BY <1>2, <1>5
  <2> QED
    BY <2>1, <2>3, <2>4
<1> QED
  BY <1>8, <1>9, <1>10 DEF IsLogOf

-----------------------------------------------------------------------------
(***************************************************************************)
(* The steps, by what they do to connections, logs and jobs.               *)
(***************************************************************************)
\* The connections stay what they are; each has its log, or the log with one more
\* answer and the counter that goes with it.
Logs ==
  /\ IsSeq(infos') /\ Len(infos') = Len(infos)
  /\ IsSeq(answered') /\ Len(answered') = Len(answered)
  /\ \A s \in Signatures : IsLogOf(infos'[s], answered'[s])

NewJobs ==
  /\ IsSeq(jobs')
  /\ \A j \in DOMAIN jobs' : IsJob(jobs'[j], Len(infos))

LEMMA LogsAreKept ==
  ASSUME Inv, Logs, NewJobs, UNCHANGED clients
  PROVE  Inv'
BY DEF Inv, Logs, NewJobs, IsJob, Signatures

LEMMA InitInv == Init => Inv
<1> SUFFICES ASSUME Init PROVE Inv
  OBVIOUS
<1>1. infos = << >> /\ answered = << >> /\ jobs = << >> /\ clients = {}
  BY DEF Init
<1>2. Signatures = {} /\ DOMAIN jobs = {}
  BY <1>1, SeqEmpty, SeqDomain DEF Signatures
<1> QED
  BY <1>1, <1>2, SeqEmpty DEF Inv

LEMMA ConnectInv ==
  ASSUME Inv, Connect
  PROVE  Inv'
<1>1. PICK info :
        /\ infos' = Append(infos, info)
        /\ DOMAIN info = InfoFields /\ info.serverSequenceId = 1 % SequenceSpace
  <2>1. PICK guest, id : infos' = Append(infos, ClientInfo(guest, id))
    BY DEF Connect
  <2>2. /\ DOMAIN ClientInfo(guest, id) = InfoFields
        /\ ClientInfo(guest, id).serverSequenceId = 1 % SequenceSpace
    BY DEF ClientInfo, InfoFields
  <2> QED
    BY <2>1, <2>2
<1>2. /\ answered' = Append(answered, << >>)
      /\ clients' = clients \union {Len(infos) + 1}
      /\ UNCHANGED jobs
  BY DEF Connect
<1>3. /\ IsSeq(infos) /\ Len(infos) \in Nat /\ IsSeq(answered) /\ Len(answered) = Len(infos)
  BY SeqDomain DEF Inv
<1>4. /\ IsSeq(infos') /\ Len(infos') = Len(infos) + 1
      /\ \A s \in Signatures : infos'[s] = infos[s]
      /\ infos'[Len(infos) + 1] = info
  BY <1>1, <1>3, SeqAppend DEF Signatures
<1>5. /\ IsSeq(answered') /\ Len(answered') = Len(infos) + 1
      /\ \A s \in Signatures : answered'[s] = answered[s]
      /\ answered'[Len(infos) + 1] = << >>
  BY <1>2, <1>3, SeqAppend DEF Signatures
<1>6. Signatures' = Signatures \union {Len(infos) + 1}
  BY <1>3, <1>4 DEF Signatures
<1>7. IsLogOf(info, << >>)
  BY <1>1, SeqEmpty, SeqDomain DEF IsLogOf, IsUnbroken
<1>8. \A s \in Signatures' : IsLogOf(infos'[s], answered'[s])
  BY <1>4, <1>5, <1>6, <1>7 DEF Inv
<1>9. \A j \in DOMAIN jobs' : IsJob(jobs'[j], Len(infos'))
  BY <1>2, <1>3, <1>4 DEF Inv, IsJob
<1> QED
  BY <1>2, <1>4, <1>5, <1>6, <1>8, <1>9 DEF Inv

LEMMA FragmentInv ==
  ASSUME Inv, HandleFragment
  PROVE  Inv'
<1>1. PICK s \in Signatures : s = Sender
  BY DEF HandleFragment, Inv
<1>2. PICK e : infos' = [infos EXCEPT ![s] = [infos[s] EXCEPT !.packetFragments = e]]
  BY <1>1 DEF HandleFragment
<1>3. UNCHANGED <<clients, jobs, answered>>
  BY DEF HandleFragment
<1>0. PICK other : other = [infos[s] EXCEPT !.packetFragments = e]
  OBVIOUS
<1>4. /\ IsSeq(infos') /\ Len(infos') = Len(infos)
      /\ infos'[s] = other
      /\ \A c \in Signatures : c # s => infos'[c] = infos[c]
  <2>1. infos' = [infos EXCEPT ![s] = other] /\ s \in 1 .. Len(infos)
    BY <1>0, <1>2 DEF Signatures
  <2>2. PICK q : q = infos
    OBVIOUS
  <2>3. IsSeq(q) /\ s \in 1 .. Len(q)
    BY <2>1, <2>2 DEF Inv
  <2>4. /\ IsSeq([q EXCEPT ![s] = other]) /\ Len([q EXCEPT ![s] = other]) = Len(q)
        /\ [q EXCEPT ![s] = other][s] = other
        /\ \A i \in 1 .. Len(q) : i # s => [q EXCEPT ![s] = other][i] = q[i]
    BY <2>3, SeqExcept
  <2> QED
    BY <2>1, <2>2, <2>4 DEF Signatures
<1>5. IsLogOf(infos[s], answered[s])
  BY DEF Inv
<1>6. IsLogOf(other, answered[s])
  <2>1. /\ DOMAIN other = InfoFields
        /\ other.serverSession = infos[s].serverSession
        /\ other.clientSignature = infos[s].clientSignature
        /\ other.serverSequenceId = infos[s].serverSequenceId
    BY <1>0, <1>5 DEF IsLogOf, InfoFields
  <2> QED
    BY <1>5, <2>1, SameLog
<1>7. Logs
  BY <1>3, <1>4, <1>6 DEF Logs, Inv
<1>8. NewJobs
  BY <1>3 DEF NewJobs, Inv
<1> QED
  BY <1>3, <1>7, <1>8, LogsAreKept

\* What the handlers answered so far are messages.
AnswersAreMessages == \A j \in DOMAIN jobs : IsSeq(jobs[j].response)

\* What handling a whole message does: there is one job more, answered at once or not.
IsDone(job) == job.answered /\ ~job.pending

TookMessage(s, job) ==
  /\ DOMAIN job = JobFields /\ job.client = s /\ HasHandler(job.header)
  /\ job.pending => job.answered
  /\ jobs' = Append(jobs, job)
  /\ UNCHANGED clients
  /\ IsSeq(infos') /\ Len(infos') = Len(infos)
  /\ \A c \in Signatures :
       /\ DOMAIN infos'[c] = InfoFields
       /\ infos'[c].serverSession = infos[c].serverSession
       /\ infos'[c].clientSignature = infos[c].clientSignature
       /\ infos'[c].serverSequenceId =
            IF c = s /\ IsDone(job) THEN NextSequenceId(s, job) ELSE infos[c].serverSequenceId
       /\ infos'[c].clientSequenceId =
            (infos[c].clientSequenceId + Len(ProbePackets(job.probes)[c])) % SequenceSpace
  /\ IsSeq(answered') /\ Len(answered') = Len(answered)
  /\ answered'[s] = IF IsDone(job) THEN answered[s] \o Fragmented(s, job) ELSE answered[s]
  /\ \A c \in Signatures : c # s => answered'[c] = answered[c]
  /\ probed' = [c \in Signatures |-> probed[c] \o ProbePackets(job.probes)[c]]

LEMMA HandleStep ==
  ASSUME Inv, HandleMessage
  PROVE  \E s \in Signatures : \E job : TookMessage(s, job)
<1>1. PICK s \in Signatures : s = Sender
  BY Zenon DEF HandleMessage, Inv
<1>2. PICK data : data = Reassembled(infos[s].packetFragments, Head1.packet.payload)
  OBVIOUS
<1>3. PICK result : result = Handle(Call(s), data)
  OBVIOUS
<1>4. PICK job : job = JobOf(s, data, result)
  OBVIOUS
<1>5. PICK now : now = (job.answered /\ ~job.pending)
  OBVIOUS
<1>6. PICK sent : sent = ProbePackets(job.probes)
  BY SMTT(30)
<1>7. /\ jobs' = Append(jobs, job)
      /\ answered' = [answered EXCEPT ![s] = IF now THEN @ \o Fragmented(s, job) ELSE @]
      /\ infos' = [c \in Signatures |->
           [infos[c] EXCEPT
             !.packetFragments = IF c = s THEN NoFragments ELSE @,
             !.serverSequenceId = IF c = s /\ now THEN NextSequenceId(s, job) ELSE @,
             !.userId = IF c = s /\ now THEN LoginOf(s, job) ELSE @,
             !.clientSequenceId = (@ + Len(sent[c])) % SequenceSpace]]
      /\ probed' = [c \in Signatures |-> probed[c] \o sent[c]]
      /\ UNCHANGED clients
  BY <1>1, <1>2, <1>3, <1>4, <1>5, <1>6, ZenonT(40) DEF HandleMessage
<1>8. /\ DOMAIN job = JobFields /\ job.client = s /\ job.header = Head1.packet.header
      /\ job.pending => job.answered
  BY <1>4 DEF JobOf, JobFields
<1>9. HasHandler(job.header)
  BY <1>8, Zenon DEF HandleMessage
<1>10. /\ IsSeq(infos') /\ Len(infos') = Len(infos)
       /\ \A c \in Signatures :
            infos'[c] = [infos[c] EXCEPT
              !.packetFragments = IF c = s THEN NoFragments ELSE @,
              !.serverSequenceId = IF c = s /\ now THEN NextSequenceId(s, job) ELSE @,
              !.userId = IF c = s /\ now THEN LoginOf(s, job) ELSE @,
              !.clientSequenceId = (@ + Len(sent[c])) % SequenceSpace]
  <2>1. PICK n : n = Len(infos) /\ n \in Nat
    BY SeqDomain DEF Inv
  <2>2. PICK f : f = infos'
    OBVIOUS
  <2>3. DOMAIN f = 1 .. n /\ f = [i \in 1 .. n |-> f[i]]
    BY <1>7, <2>1, <2>2, Zenon DEF Signatures
  <2>4. IsSeq(f) /\ Len(f) = n
    BY <2>1, <2>3, SeqFunction
  <2> QED
    BY <1>7, <2>1, <2>2, <2>4, Zenon
<1>11. \A c \in Signatures :
         /\ DOMAIN infos'[c] = InfoFields
         /\ infos'[c].serverSession = infos[c].serverSession
         /\ infos'[c].clientSignature = infos[c].clientSignature
         /\ infos'[c].serverSequenceId =
              IF c = s /\ now THEN NextSequenceId(s, job) ELSE infos[c].serverSequenceId
         /\ infos'[c].clientSequenceId =
              (infos[c].clientSequenceId + Len(sent[c])) % SequenceSpace
  <2> SUFFICES ASSUME NEW c \in Signatures
               PROVE  /\ DOMAIN infos'[c] = InfoFields
                      /\ infos'[c].serverSession = infos[c].serverSession
                      /\ infos'[c].clientSignature = infos[c].clientSignature
                      /\ infos'[c].serverSequenceId =
                           IF c = s /\ now THEN NextSequenceId(s, job)
                           ELSE infos[c].serverSequenceId
                      /\ infos'[c].clientSequenceId =
                           (infos[c].clientSequenceId + Len(sent[c])) % SequenceSpace
    OBVIOUS
  <2>1. DOMAIN infos[c] = InfoFields
    BY DEF Inv, IsLogOf
  <2>2. PICK info : info = infos[c]
    OBVIOUS
  <2>3. PICK id :
          id = IF c = s /\ now THEN NextSequenceId(s, job) ELSE info.serverSequenceId
    OBVIOUS
  <2>5. PICK probe : probe = (info.clientSequenceId + Len(sent[c])) % SequenceSpace
    OBVIOUS
  <2>4. PICK fragments, user :
          infos'[c] = [info EXCEPT !.packetFragments = fragments, !.serverSequenceId = id,
                                   !.userId = user, !.clientSequenceId = probe]
    <3>1. PICK fragments :
            fragments = IF c = s THEN NoFragments ELSE info.packetFragments
      OBVIOUS
    <3>2. PICK user : user = IF c = s /\ now THEN LoginOf(s, job) ELSE info.userId
      OBVIOUS
    <3>4. infos'[c] = [info EXCEPT !.packetFragments = fragments, !.serverSequenceId = id,
                                   !.userId = user, !.clientSequenceId = probe]
      BY <1>10, <2>2, <2>3, <2>5, <3>1, <3>2, Zenon
    <3> QED
      BY <3>4, Zenon
  <2> QED
    BY <2>1, <2>2, <2>3, <2>4, <2>5 DEF InfoFields
<1>12. /\ IsSeq(answered') /\ Len(answered') = Len(answered)
       /\ answered'[s] = IF now THEN answered[s] \o Fragmented(s, job) ELSE answered[s]
       /\ \A c \in Signatures : c # s => answered'[c] = answered[c]
  <2>1. PICK q : q = answered
    OBVIOUS
  <2>2. PICK e : e = IF now THEN answered[s] \o Fragmented(s, job) ELSE answered[s]
    OBVIOUS
  <2>3. IsSeq(q) /\ s \in 1 .. Len(q) /\ Len(q) = Len(infos)
    BY <2>1 DEF Inv, Signatures
  <2>4. answered' = [q EXCEPT ![s] = e]
    BY <1>7, <2>1, <2>2, Zenon
  <2>5. /\ IsSeq([q EXCEPT ![s] = e]) /\ Len([q EXCEPT ![s] = e]) = Len(q)
        /\ [q EXCEPT ![s] = e][s] = e
        /\ \A i \in 1 .. Len(q) : i # s => [q EXCEPT ![s] = e][i] = q[i]
    BY <2>3, SeqExcept
  <2> QED
    BY <2>1, <2>2, <2>3, <2>4, <2>5 DEF Signatures
<1>13. now = IsDone(job)
  BY <1>5 DEF IsDone
<1>14. TookMessage(s, job)
  <2>1. \A c \in Signatures :
          /\ DOMAIN infos'[c] = InfoFields
          /\ infos'[c].serverSession = infos[c].serverSession
          /\ infos'[c].clientSignature = infos[c].clientSignature
          /\ infos'[c].serverSequenceId =
               IF c = s /\ IsDone(job) THEN NextSequenceId(s, job) ELSE infos[c].serverSequenceId
          /\ infos'[c].clientSequenceId =
               (infos[c].clientSequenceId + Len(ProbePackets(job.probes)[c])) % SequenceSpace
    BY <1>6, <1>11, <1>13
  <2>2. answered'[s] = IF IsDone(job) THEN answered[s] \o Fragmented(s, job) ELSE answered[s]
    BY <1>12, <1>13
  <2>3. probed' = [c \in Signatures |-> probed[c] \o ProbePackets(job.probes)[c]]
    BY <1>6, <1>7, ZenonT(40)
  <2>4. /\ jobs' = Append(jobs, job) /\ UNCHANGED clients
        /\ IsSeq(infos') /\ Len(infos') = Len(infos)
        /\ IsSeq(answered') /\ Len(answered') = Len(answered)
        /\ \A c \in Signatures : c # s => answered'[c] = answered[c]
    BY <1>7, <1>10, <1>12, Zenon
  <2> QED
    BY <1>8, <1>9, <2>1, <2>2, <2>3, <2>4, Zenon DEF TookMessage
<1> QED
  BY <1>14, SMTT(30)

LEMMA HandledJobs ==
  ASSUME IsSeq(jobs), NEW s \in Signatures, NEW job, TookMessage(s, job)
  PROVE  /\ Len(jobs) \in Nat /\ DOMAIN jobs = 1 .. Len(jobs)
         /\ IsSeq(jobs') /\ DOMAIN jobs' = 1 .. Len(jobs) + 1
         /\ \A j \in 1 .. Len(jobs) : jobs'[j] = jobs[j]
         /\ jobs'[Len(jobs) + 1] = job
<1>1. Len(jobs) \in Nat /\ DOMAIN jobs = 1 .. Len(jobs)
  BY SeqDomain
<1>2. /\ IsSeq(jobs') /\ Len(jobs') = Len(jobs) + 1
      /\ \A j \in 1 .. Len(jobs) : jobs'[j] = jobs[j]
      /\ jobs'[Len(jobs) + 1] = job
  BY SeqAppend DEF TookMessage
<1>3. DOMAIN jobs' = 1 .. Len(jobs) + 1
  BY <1>2, SeqDomain
<1> QED
  BY <1>1, <1>2, <1>3

LEMMA HandleInv ==
  ASSUME Inv, HandleMessage, AnswersAreMessages'
  PROVE  Inv'
<1>0. PICK s \in Signatures : \E job : TookMessage(s, job)
  BY HandleStep
<1>1. PICK job : TookMessage(s, job)
  BY <1>0
<1>2. /\ Len(jobs) \in Nat /\ DOMAIN jobs = 1 .. Len(jobs)
      /\ IsSeq(jobs') /\ DOMAIN jobs' = 1 .. Len(jobs) + 1
      /\ \A j \in 1 .. Len(jobs) : jobs'[j] = jobs[j]
      /\ jobs'[Len(jobs) + 1] = job
  BY <1>1, HandledJobs DEF Inv
<1>3. IsSeq(job.response)
  BY <1>2 DEF AnswersAreMessages
<1>4. IsJob(job, Len(infos))
  BY <1>1, <1>3 DEF IsJob, TookMessage, Signatures
<1>5. NewJobs
  BY <1>2, <1>4 DEF NewJobs, Inv
<1>6. ASSUME NEW c \in Signatures
      PROVE  IsLogOf(infos'[c], answered'[c])
  <2>1. PICK other : other = infos'[c]
    OBVIOUS
  <2>2. IsLogOf(infos[c], answered[c])
    BY DEF Inv
  <2>3. /\ DOMAIN other = InfoFields
        /\ other.serverSession = infos[c].serverSession
        /\ other.clientSignature = infos[c].clientSignature
        /\ other.serverSequenceId =
             IF c = s /\ IsDone(job) THEN NextSequenceId(s, job) ELSE infos[c].serverSequenceId
    BY <1>1, <2>1 DEF TookMessage
  <2>4. CASE c = s /\ IsDone(job)
    <3>1. Len(job.response) \in Nat
      BY <1>3, SeqDomain
    <3>2. IsLogOf(other, answered[s] \o Fragmented(s, job))
      BY <2>3, <2>4, <3>1, AnsweredLog
    <3> QED
      BY <1>1, <2>1, <2>4, <3>2 DEF TookMessage
  <2>5. CASE ~(c = s /\ IsDone(job))
    <3>1. IsLogOf(other, answered[c])
      BY <2>2, <2>3, <2>5, SameLog
    <3>2. answered'[c] = answered[c]
      BY <1>1, <2>5 DEF TookMessage
    <3> QED
      BY <2>1, <3>1, <3>2
  <2> QED
    BY <2>4, <2>5
<1>7. Logs
  BY <1>1, <1>6 DEF Logs, TookMessage
<1> QED
  BY <1>1, <1>5, <1>7, LogsAreKept DEF TookMessage

\* What the end of a job does: it is no longer pending, and answered.
Ended(s, job, j) ==
  /\ job = jobs[j] /\ job.client = s /\ job.pending /\ job.answered
  /\ jobs' = [jobs EXCEPT ![j] = Finished(job)]
  /\ UNCHANGED <<clients, probed>>
  /\ IsSeq(infos') /\ Len(infos') = Len(infos)
  /\ infos'[s] = [infos[s] EXCEPT !.serverSequenceId = NextSequenceId(s, job),
                                  !.userId = LoginOf(s, job)]
  /\ \A c \in Signatures : c # s => infos'[c] = infos[c]
  /\ IsSeq(answered') /\ Len(answered') = Len(answered)
  /\ answered'[s] = answered[s] \o Fragmented(s, job)
  /\ \A c \in Signatures : c # s => answered'[c] = answered[c]

LEMMA FinishStep ==
  ASSUME Inv, NEW j \in DOMAIN jobs, Finish(j)
  PROVE  \E s \in Signatures : \E job : Ended(s, job, j)
<1>1. PICK job : job = jobs[j]
  OBVIOUS
<1>2. IsJob(job, Len(infos))
  BY <1>1 DEF Inv
<1>3. PICK s \in Signatures : s = job.client
  BY <1>2 DEF IsJob, Signatures
<1>4. PICK other : other = [infos[s] EXCEPT !.serverSequenceId = NextSequenceId(s, job),
                                           !.userId = LoginOf(s, job)]
  OBVIOUS
<1>5. PICK log : log = answered[s] \o Fragmented(s, job)
  OBVIOUS
<1>6. /\ infos' = [infos EXCEPT ![s] = other]
      /\ answered' = [answered EXCEPT ![s] = log]
      /\ jobs' = [jobs EXCEPT ![j] = Finished(job)]
      /\ UNCHANGED <<clients, probed>>
      /\ job.pending
  BY <1>1, <1>3, <1>4, <1>5 DEF Finish, FinishJob, Pending
<1>10. /\ IsSeq(infos') /\ Len(infos') = Len(infos)
       /\ infos'[s] = other
       /\ \A c \in Signatures : c # s => infos'[c] = infos[c]
  <2>1. PICK q : q = infos
    OBVIOUS
  <2>2. IsSeq(q) /\ s \in 1 .. Len(q)
    BY <2>1 DEF Inv, Signatures
  <2>3. /\ IsSeq([q EXCEPT ![s] = other]) /\ Len([q EXCEPT ![s] = other]) = Len(q)
        /\ [q EXCEPT ![s] = other][s] = other
        /\ \A i \in 1 .. Len(q) : i # s => [q EXCEPT ![s] = other][i] = q[i]
    BY <2>2, SeqExcept
  <2> QED
    BY <1>6, <2>1, <2>3 DEF Signatures
<1>11. /\ IsSeq(answered') /\ Len(answered') = Len(answered)
       /\ answered'[s] = log
       /\ \A c \in Signatures : c # s => answered'[c] = answered[c]
  <2>1. PICK q : q = answered
    OBVIOUS
  <2>2. IsSeq(q) /\ s \in 1 .. Len(q) /\ Len(q) = Len(infos)
    BY <2>1 DEF Inv, Signatures
  <2>3. /\ IsSeq([q EXCEPT ![s] = log]) /\ Len([q EXCEPT ![s] = log]) = Len(q)
        /\ [q EXCEPT ![s] = log][s] = log
        /\ \A i \in 1 .. Len(q) : i # s => [q EXCEPT ![s] = log][i] = q[i]
    BY <2>2, SeqExcept
  <2> QED
    BY <1>6, <2>1, <2>2, <2>3 DEF Signatures
<1>12. job.client = s /\ job.pending /\ job.answered
  BY <1>2, <1>3, <1>6 DEF IsJob
<1>13. Ended(s, job, j)
  BY <1>1, <1>4, <1>5, <1>6, <1>10, <1>11, <1>12, Zenon DEF Ended
<1> QED
  BY <1>13

LEMMA EndedJobs ==
  ASSUME Inv, NEW j \in DOMAIN jobs, NEW s \in Signatures, NEW job, Ended(s, job, j)
  PROVE  /\ DOMAIN jobs = 1 .. Len(jobs) /\ IsSeq(jobs') /\ DOMAIN jobs' = DOMAIN jobs
         /\ \A i \in DOMAIN jobs : i # j => jobs'[i] = jobs[i]
         /\ jobs'[j] = Finished(job)
         /\ \A f \in JobFields : f # "pending" => Finished(job)[f] = job[f]
         /\ DOMAIN Finished(job) = JobFields /\ ~Finished(job).pending
<1>1. PICK q : q = jobs
  OBVIOUS
<1>2. IsSeq(q) /\ DOMAIN q = 1 .. Len(q) /\ j \in 1 .. Len(q)
  BY <1>1, SeqDomain DEF Inv
<1>3. PICK e : e = Finished(job)
  OBVIOUS
<1>4. /\ IsSeq([q EXCEPT ![j] = e]) /\ Len([q EXCEPT ![j] = e]) = Len(q)
      /\ [q EXCEPT ![j] = e][j] = e
      /\ \A i \in 1 .. Len(q) : i # j => [q EXCEPT ![j] = e][i] = q[i]
  BY <1>2, SeqExcept
<1>5. jobs' = [q EXCEPT ![j] = e]
  BY <1>1, <1>3 DEF Ended
<1>6. DOMAIN jobs' = DOMAIN jobs
  BY <1>1, <1>5
<1>7. DOMAIN job = JobFields
  BY DEF Ended, Inv, IsJob
<1>8. /\ \A f \in JobFields : f # "pending" => Finished(job)[f] = job[f]
      /\ DOMAIN Finished(job) = JobFields /\ ~Finished(job).pending
  BY <1>7 DEF Finished, JobFields
<1> QED
  BY <1>1, <1>2, <1>3, <1>4, <1>5, <1>6, <1>8

LEMMA FinishInv ==
  ASSUME Inv, NEW j \in DOMAIN jobs, Finish(j)
  PROVE  Inv'
<1>0. PICK s \in Signatures : \E job : Ended(s, job, j)
  BY FinishStep
<1>1. PICK job : Ended(s, job, j)
  BY <1>0
<1>2. /\ DOMAIN jobs = 1 .. Len(jobs) /\ IsSeq(jobs') /\ DOMAIN jobs' = DOMAIN jobs
      /\ \A i \in DOMAIN jobs : i # j => jobs'[i] = jobs[i]
      /\ jobs'[j] = Finished(job)
      /\ \A f \in JobFields : f # "pending" => Finished(job)[f] = job[f]
      /\ DOMAIN Finished(job) = JobFields /\ ~Finished(job).pending
  BY <1>1, EndedJobs
<1>3. IsJob(job, Len(infos))
  BY <1>1 DEF Ended, Inv
<1>4. IsJob(Finished(job), Len(infos))
  <2>1. /\ Finished(job).client = job.client /\ Finished(job).response = job.response
        /\ Finished(job).header = job.header
    BY <1>2 DEF JobFields
  <2> QED
    BY <1>2, <1>3, <2>1 DEF IsJob
<1>5. NewJobs
  BY <1>2, <1>4 DEF NewJobs, Inv
<1>6. PICK other : other = infos'[s]
  OBVIOUS
<1>7. IsLogOf(infos[s], answered[s])
  BY DEF Inv
<1>8. IsLogOf(other, answered[s] \o Fragmented(s, job))
  <2>1. /\ DOMAIN other = InfoFields
        /\ other.serverSession = infos[s].serverSession
        /\ other.clientSignature = infos[s].clientSignature
        /\ other.serverSequenceId = NextSequenceId(s, job)
    BY <1>1, <1>6, <1>7 DEF Ended, IsLogOf, InfoFields
  <2>2. Len(job.response) \in Nat
    BY <1>3, SeqDomain DEF IsJob
  <2> QED
    BY <2>1, <2>2, AnsweredLog
<1>9. Logs
  BY <1>1, <1>6, <1>8, ZenonT(40) DEF Logs, Ended, Inv
<1> QED
  BY <1>1, <1>5, <1>9, LogsAreKept DEF Ended

LEMMA NextInv ==
  ASSUME Inv, [Next]_vars, AnswersAreMessages'
  PROVE  Inv'
<1>1. CASE Connect
  BY <1>1, ConnectInv
<1>2. CASE HandleFragment
  BY <1>2, FragmentInv
<1>3. CASE HandleMessage
  BY <1>3, HandleInv
<1>4. CASE \E j \in DOMAIN jobs : Finish(j)
  BY <1>4, FinishInv
<1>5. ASSUME NEW s \in Signatures, Leave(s)
      PROVE  Inv'
  BY <1>5 DEF Leave, logs, Inv, Signatures
<1>6. CASE Ignore \/ Send \/ UNCHANGED vars
  BY <1>6, Zenon DEF Ignore, Send, vars, server, logs, Inv, Signatures
<1>7. CASE \E copy \in flight.copies : Repeat(copy) \/ Lose(copy) \/ Arrive(copy)
  BY <1>7 DEF Repeat, Lose, Arrive, server, logs, Inv, Signatures
<1> QED
  BY <1>1, <1>2, <1>3, <1>4, <1>5, <1>6, <1>7 DEF Next, Work

-----------------------------------------------------------------------------
(***************************************************************************)
(* The codec of packets: an encrypted DATA or CONNECT packet is read by    *)
(* its receiver as it was sent, and nothing else is read out of its        *)
(* datagram.                                                               *)
(***************************************************************************)
IsPacket(p) ==
  /\ p.source.streamType = RVSec
  /\ p.packetType \in {"data", "connect"}
  /\ p.packetType = "data" => p.fragmentId \in Nat
  /\ IsSeq(p.payload)
  /\ p.useCompression => Len(p.payload) <= MaxDecompressedSize
  /\ ~p.useCompression => \A i \in 1 .. Len(p.payload) : "crypt" \notin DOMAIN p.payload[i]

\* The cell that depends on the type of the packet.
FieldOf(p) ==
  IF p.packetType = "data" THEN [fragmentId |-> p.fragmentId % FragmentIdSpace]
  ELSE [connSignature |-> p.connSignature]

LEMMA HeaderOfPacket ==
  ASSUME NEW p, IsPacket(p)
  PROVE  LET h == Header(p) IN
         /\ IsEncrypted(p) /\ IsEncrypted(h)
         /\ HasFragmentId(p) <=> p.packetType = "data"
         /\ HasFragmentId(h) <=> p.packetType = "data"
         /\ HasSize(h) <=> HasSize(p)
         /\ Specifics(h) = 1 /\ h.destination = p.destination
         /\ Specific(p) = <<FieldOf(p)>>
         /\ "header" \notin DOMAIN FieldOf(p)
<1> DEFINE h == Header(p)
<1>1. /\ h.source = p.source /\ h.packetType = p.packetType /\ h.flags = p.flags
      /\ h.destination = p.destination
  BY DEF Header
<1> HIDE DEF h
<1>2. IsEncrypted(p) /\ IsEncrypted(h)
  BY <1>1 DEF IsEncrypted, IsPacket
<1>3. /\ HasFragmentId(p) <=> p.packetType = "data"
      /\ HasFragmentId(h) <=> p.packetType = "data"
      /\ HasSize(h) <=> HasSize(p)
      /\ HasConnSignature(p) <=> p.packetType = "connect"
      /\ HasConnSignature(h) <=> p.packetType = "connect"
  BY <1>1 DEF IsPacket, HasFragmentId, HasSize, HasConnSignature
<1>4. Specifics(h) = 1
  BY <1>1, <1>3 DEF Specifics, IsPacket
<1>5. Specific(p) = <<FieldOf(p)>>
  <2>1. CASE p.packetType = "data"
    BY <1>3, <2>1 DEF Specific, FieldOf
  <2>2. CASE p.packetType = "connect"
    BY <1>3, <2>2 DEF Specific, FieldOf
  <2> QED
    BY <2>1, <2>2 DEF IsPacket
<1>6. "header" \notin DOMAIN FieldOf(p)
  BY DEF FieldOf
<1> QED
  BY <1>1, <1>2, <1>3, <1>4, <1>5, <1>6 DEF h

\* What is encrypted is no header, and comes back when it is decrypted.
LEMMA CryptedPayload ==
  ASSUME NEW p, IsPacket(p)
  PROVE  LET c == EncodedPayload(p) IN
         /\ IsSeq(c)
         /\ \A i \in 1 .. Len(c) : "header" \notin DOMAIN c[i]
         /\ DecodedPayload(Header(p), c).ok
         /\ DecodedPayload(Header(p), c).payload = p.payload
<1> DEFINE c == EncodedPayload(p)
           cells == PayloadCells(p)
           h == Header(p)
<1>1. c = Crypt(cells) /\ IsEncrypted(h)
  BY HeaderOfPacket DEF EncodedPayload
<1>2. CASE p.payload = << >>
  <2>1. cells = << >>
    BY <1>2 DEF PayloadCells
  <2>2. c = << >>
    BY <1>1, <2>1 DEF Crypt
  <2>3. DecodedPayload(h, c) = [ok |-> TRUE, payload |-> << >>, useCompression |-> FALSE]
    BY <1>1, <2>2 DEF DecodedPayload
  <2> QED
    BY <1>2, <2>2, <2>3, SeqEmpty
<1>3. CASE p.payload # << >> /\ p.useCompression
  <2> DEFINE first == [compressed |-> TRUE]
             second == [deflated |-> p.payload]
  <2>1. cells = <<first, second>>
    BY <1>3 DEF PayloadCells
  <2>2. CryptCell(first) = [crypt |-> first] /\ CryptCell(second) = [crypt |-> second]
    BY DEF CryptCell
  <2>3. CryptCell([crypt |-> first]) = first /\ CryptCell([crypt |-> second]) = second
    BY DEF CryptCell
  <2> DEFINE one == [crypt |-> first]
             two == [crypt |-> second]
  <2>4. "header" \notin DOMAIN one /\ "header" \notin DOMAIN two
    OBVIOUS
  <2>5. first # [compressed |-> FALSE] /\ "deflated" \in DOMAIN second /\ second.deflated = p.payload
    OBVIOUS
  <2>6. c = <<one, two>>
    <3> HIDE DEF first, second
    <3> QED
      BY <1>1, <2>1, <2>2 DEF Crypt
  <2>7. Crypt(c) = <<first, second>>
    <3> HIDE DEF first, second
    <3> QED
      BY <2>3, <2>6 DEF Crypt
  <2>8. DecodedPayload(h, c) = [ok |-> TRUE, payload |-> second.deflated, useCompression |-> TRUE]
    <3> HIDE DEF first, second, one, two, c, h
    <3>1. c # << >> /\ Len(Crypt(c)) = 2 /\ Crypt(c)[1] = first /\ Crypt(c)[2] = second
      BY <2>6, <2>7
    <3>2. Len(second.deflated) <= MaxDecompressedSize
      BY <1>3, <2>5 DEF IsPacket
    <3> QED
      BY <1>1, <2>5, <3>1, <3>2 DEF DecodedPayload
  <2>9. IsSeq(c) /\ Len(c) = 2 /\ c[1] = one /\ c[2] = two
    <3> HIDE DEF one, two, c
    <3>1. <<one, two>> \in Seq({one, two})
      OBVIOUS
    <3> QED
      BY <2>6, <3>1 DEF IsSeq
  <2>10. DecodedPayload(h, c).ok /\ DecodedPayload(h, c).payload = p.payload
    <3> HIDE DEF c, h, second
    <3> QED
      BY <2>5, <2>8
  <2>11. \A i \in 1 .. Len(c) : "header" \notin DOMAIN c[i]
    <3> HIDE DEF c, one, two
    <3> QED
      BY <2>4, <2>9
  <2> HIDE DEF c, h
  <2> QED
    BY <2>9, <2>10, <2>11 DEF c, h
<1>4. CASE p.payload # << >> /\ ~p.useCompression
  <2> DEFINE first == [compressed |-> FALSE]
             n == Len(p.payload) + 1
  <2>1. cells = <<first>> \o p.payload
    BY <1>4 DEF PayloadCells
  <2>2. IsSeq(p.payload) /\ Len(p.payload) \in Nat
    BY SeqDomain DEF IsPacket
  <2>3. /\ IsSeq(cells) /\ Len(cells) = n /\ cells # << >> /\ cells[1] = first
        /\ Tail(cells) = p.payload /\ \A i \in 1 .. Len(p.payload) : cells[i + 1] = p.payload[i]
    <3> HIDE DEF first, cells
    <3> QED
      BY <2>1, <2>2, SeqCons
  <2>4. "crypt" \notin DOMAIN first
    OBVIOUS
  <2> HIDE DEF first, cells, c, h
  <2>5. n \in Nat /\ DOMAIN cells = 1 .. n
    BY <2>2, <2>3, SeqDomain
  <2>6. \A i \in 1 .. n : "crypt" \notin DOMAIN cells[i]
    <3> TAKE i \in 1 .. n
    <3>1. CASE i = 1
      BY <2>3, <2>4, <3>1
    <3>2. CASE i # 1
      <4>1. i - 1 \in 1 .. Len(p.payload) /\ i - 1 + 1 = i
        BY <2>2, <3>2
      <4>2. cells[i] = p.payload[i - 1]
        BY <2>3, <4>1
      <4> QED
        BY <1>4, <4>1, <4>2 DEF IsPacket
    <3> QED
      BY <3>1, <3>2
  <2>7. c = [i \in 1 .. n |-> [crypt |-> cells[i]]]
    <3>1. \A i \in 1 .. n : CryptCell(cells[i]) = [crypt |-> cells[i]]
      BY <2>6 DEF CryptCell
    <3> QED
      BY <1>1, <2>5, <3>1 DEF Crypt
  <2>8. IsSeq(c) /\ Len(c) = n /\ DOMAIN c = 1 .. n
    BY <2>5, <2>7, SeqFunction
  <2>9. \A i \in 1 .. n : "header" \notin DOMAIN c[i] /\ CryptCell(c[i]) = cells[i]
    <3> TAKE i \in 1 .. n
    <3>1. c[i] = [crypt |-> cells[i]]
      BY <2>7
    <3>2. "header" \notin DOMAIN [crypt |-> cells[i]]
      OBVIOUS
    <3>3. CryptCell([crypt |-> cells[i]]) = cells[i]
      BY DEF CryptCell
    <3> QED
      BY <3>1, <3>2, <3>3
  <2>10. Crypt(c) = cells
    <3>1. Crypt(c) = [i \in 1 .. n |-> cells[i]]
      BY <2>8, <2>9 DEF Crypt
    <3> DEFINE d == Crypt(c)
    <3>2. IsSeq(d) /\ Len(d) = n /\ \A i \in 1 .. n : d[i] = cells[i]
      BY <2>5, <3>1, SeqFunction
    <3> HIDE DEF d
    <3>3. d = cells
      BY <2>3, <3>2, SeqExtensional
    <3> QED
      BY <3>3 DEF d
  <2>11. c # << >>
    BY <2>2, <2>8, SeqEmpty
  <2>12. DecodedPayload(h, c) = [ok |-> TRUE, payload |-> Tail(cells), useCompression |-> FALSE]
    BY <1>1, <2>3, <2>10, <2>11 DEF DecodedPayload, first
  <2> QED
    BY <2>3, <2>8, <2>9, <2>12 DEF c, h
<1> QED
  BY <1>2, <1>3, <1>4

\* The cells in front of the payload.
FrontLength(p) == IF HasSize(p) THEN 3 ELSE 2

\* The cells of a packet, the payload between its front and the checksum.
LEMMA WireOfPacket ==
  ASSUME NEW p, IsPacket(p)
  PROVE  LET c == EncodedPayload(p)
             d == ToBytes(p)
             m == FrontLength(p)
             n == Len(c)
         IN  /\ n \in Nat
             /\ IsSeq(d) /\ Len(d) = m + n + 1
             /\ d[1] = [header |-> Header(p)]
             /\ d[2] = FieldOf(p)
             /\ HasSize(p) => d[3] = [size |-> n]
             /\ \A i \in 1 .. n : d[m + i] = c[i]
             /\ d[m + n + 1] = Checksum(p, SubSeq(d, 1, m + n))
<1> DEFINE c == EncodedPayload(p)
           n == Len(c)
           m == FrontLength(p)
           d == ToBytes(p)
           b == DataBytes(p)
           first == <<[header |-> Header(p)]>>
           second == <<FieldOf(p)>>
           third == IF HasSize(p) THEN <<[size |-> n]>> ELSE << >>
<1>1. b = first \o second \o third \o c
  BY HeaderOfPacket DEF DataBytes
<1>2. IsSeq(c) /\ n \in Nat
  BY CryptedPayload, SeqDomain
<1>3. IsSeq(first) /\ Len(first) = 1 /\ first[1] = [header |-> Header(p)]
  BY SeqSingle
<1>4. IsSeq(second) /\ Len(second) = 1 /\ second[1] = FieldOf(p)
  BY SeqSingle
<1>5. IsSeq(third) /\ Len(third) = m - 2 /\ (HasSize(p) => third[1] = [size |-> n])
  <2>1. CASE HasSize(p)
    <3> DEFINE size == <<[size |-> n]>>
    <3>1. IsSeq(size) /\ Len(size) = 1 /\ size[1] = [size |-> n]
      BY SeqSingle
    <3>2. third = size /\ m = 3
      BY <2>1 DEF FrontLength
    <3> HIDE DEF size, third, m
    <3> QED
      BY <3>1, <3>2 DEF size
  <2>2. CASE ~HasSize(p)
    <3>1. third = << >> /\ m = 2
      BY <2>2 DEF FrontLength
    <3> HIDE DEF third, m
    <3> QED
      BY <2>2, <3>1, SeqEmpty
  <2> QED
    BY <2>1, <2>2
<1>6. m \in {2, 3} /\ (HasSize(p) => m = 3)
  BY DEF FrontLength
<1> DEFINE two == first \o second
           three == two \o third
<1> HIDE DEF first, second, third, c, b, m, n
<1>7. IsSeq(two) /\ Len(two) = 2 /\ two[1] = first[1] /\ two[2] = second[1]
  <2>1. /\ IsSeq(two) /\ Len(two) = Len(first) + Len(second)
        /\ \A i \in 1 .. Len(first) + Len(second) :
             two[i] = IF i <= Len(first) THEN first[i] ELSE second[i - Len(first)]
    BY <1>3, <1>4, SeqConcat, Zenon
  <2> HIDE DEF two
  <2> QED
    BY <1>3, <1>4, <2>1
<1> HIDE DEF two
<1>8. /\ IsSeq(three) /\ Len(three) = m
      /\ three[1] = first[1] /\ three[2] = second[1] /\ (HasSize(p) => three[3] = third[1])
  <2>1. /\ IsSeq(three) /\ Len(three) = Len(two) + Len(third)
        /\ \A i \in 1 .. Len(two) + Len(third) :
             three[i] = IF i <= Len(two) THEN two[i] ELSE third[i - Len(two)]
    BY <1>5, <1>7, SeqConcat, Zenon
  <2> HIDE DEF three
  <2> QED
    BY <1>5, <1>6, <1>7, <2>1
<1>9. b = three \o c
  BY <1>1 DEF two
<1> HIDE DEF three
<1>10. /\ IsSeq(b) /\ Len(b) = m + n
       /\ \A i \in 1 .. m + n : b[i] = IF i <= m THEN three[i] ELSE c[i - m]
  <2>1. /\ IsSeq(b) /\ Len(b) = Len(three) + Len(c)
        /\ \A i \in 1 .. Len(three) + Len(c) :
             b[i] = IF i <= Len(three) THEN three[i] ELSE c[i - Len(three)]
    BY <1>2, <1>8, <1>9, SeqConcat, Zenon
  <2> QED
    BY <1>2, <1>8, <2>1 DEF n
<1>11. d = Append(b, Checksum(p, b))
  BY DEF ToBytes, b
<1> DEFINE sum == Checksum(p, b)
<1> HIDE DEF d, sum
<1>12. /\ IsSeq(d) /\ Len(d) = m + n + 1
       /\ \A i \in 1 .. m + n : d[i] = b[i]
       /\ d[m + n + 1] = sum
  BY <1>2, <1>6, <1>10, <1>11, SeqAppend DEF sum
<1>13. SubSeq(d, 1, m + n) = b
  <2>1. m + n \in 0 .. Len(d) /\ \A i \in 1 .. m + n : b[i] = d[i]
    BY <1>2, <1>6, <1>12
  <2> QED
    BY <1>10, <1>12, <2>1, PrefixIs
<1>14. \A i \in 1 .. n : d[m + i] = c[i]
  <2> TAKE i \in 1 .. n
  <2>1. PICK j \in 1 .. m + n : j = m + i
    BY <1>2, <1>6
  <2>2. ~(j <= m) /\ j - m = i
    BY <1>2, <1>6, <2>1
  <2>3. d[j] = b[j] /\ b[j] = c[j - m]
    BY <1>10, <1>12, <2>2
  <2> QED
    BY <2>1, <2>2, <2>3
<1>15. /\ d[1] = [header |-> Header(p)]
       /\ d[2] = FieldOf(p)
       /\ HasSize(p) => d[3] = [size |-> n]
  BY <1>2, <1>3, <1>4, <1>5, <1>6, <1>8, <1>10, <1>12
<1> QED
  BY <1>2, <1>12, <1>13, <1>14, <1>15 DEF c, d, m, n, sum

FragmentIdOf(p) == IF p.packetType = "data" THEN p.fragmentId % FragmentIdSpace ELSE 0

\* What a receiver reads where the cells of a packet are, up to its checksum.
IsRead(q, p) ==
  q = [ok |-> TRUE, header |-> Header(p), size |-> Len(ToBytes(p)), payload |-> p.payload,
       fragmentId |-> FragmentIdOf(p)]

LEMMA ReadPacket ==
  ASSUME NEW p, IsPacket(p), NEW d, d = ToBytes(p),
         NEW e, IsSeq(e), Len(e) >= Len(d), \A i \in 1 .. Len(d) - 1 : e[i] = d[i],
         HasSize(p) \/ Len(e) = Len(d)
  PROVE  /\ IsRead(FromBytes(e), p)
         /\ IsValid(FromBytes(e), e) <=> e[Len(d)] = d[Len(d)]
<1> DEFINE h == Header(p)
           c == EncodedPayload(p)
           n == Len(c)
           m == FrontLength(p)
<1>1. /\ n \in Nat
      /\ IsSeq(d) /\ Len(d) = m + n + 1
      /\ d[1] = [header |-> h]
      /\ d[2] = FieldOf(p)
      /\ HasSize(p) => d[3] = [size |-> n]
      /\ \A i \in 1 .. n : d[m + i] = c[i]
      /\ d[m + n + 1] = Checksum(p, SubSeq(d, 1, m + n))
  BY WireOfPacket
<1>2. /\ IsSeq(c)
      /\ DecodedPayload(h, c).ok
      /\ DecodedPayload(h, c).payload = p.payload
  BY CryptedPayload
<1>3. /\ HasFragmentId(h) <=> p.packetType = "data"
      /\ HasSize(h) <=> HasSize(p)
      /\ Specifics(h) = 1 /\ h.destination = p.destination
  BY HeaderOfPacket
<1>4. m \in {2, 3} /\ m = 2 + (IF HasSize(p) THEN 1 ELSE 0)
  BY DEF FrontLength
<1>5. Len(e) \in Nat /\ Len(e) >= m + n + 1 /\ \A i \in 1 .. m + n : e[i] = d[i]
  BY <1>1, <1>4, SeqDomain
<1> HIDE DEF h, c, n, m
<1>6. PayloadStart(h) = m
  BY <1>3, <1>4 DEF PayloadStart
<1>7. PayloadLength(h, e, m) = n
  <2>1. CASE HasSize(p)
    <3>1. m = 3 /\ e[3] = [size |-> n] /\ 3 <= Len(e)
      BY <1>1, <1>4, <1>5, <2>1
    <3> QED
      BY <1>3, <2>1, <3>1 DEF PayloadLength
  <2>2. CASE ~HasSize(p)
    <3>1. Len(e) = m + n + 1 /\ Len(e) - m - 1 = n
      BY <1>1, <1>4, <2>2
    <3> QED
      BY <1>3, <2>2, <3>1 DEF PayloadLength
  <2> QED
    BY <2>1, <2>2
<1>8. e # << >> /\ "header" \in DOMAIN e[1] /\ e[1].header = h
  <2>1. Len(e) # 0 /\ e[1] = [header |-> h]
    BY <1>1, <1>4, <1>5
  <2>2. e # << >>
    BY <2>1, SeqEmpty
  <2> QED
    BY <2>1, <2>2
<1>9. FromBytes(e) = PacketAt(h, e, m, n)
  BY <1>6, <1>7, <1>8 DEF FromBytes
<1>10. SubSeq(e, m + 1, m + n) = c
  <2>1. PICK a \in Nat \ {0} : a = m + 1
    BY <1>4
  <2>2. PICK z \in Nat : z = m + n
    BY <1>1, <1>4
  <2>3. z <= Len(e) /\ a <= z + 1 /\ Len(c) = z + 1 - a
    BY <1>1, <1>4, <1>5, <2>1, <2>2 DEF n
  <2>4. ASSUME NEW i \in 1 .. Len(c) PROVE c[i] = e[a + i - 1]
    <3>1. a + i - 1 = m + i /\ m + i \in 1 .. m + n /\ i \in 1 .. n
      BY <1>1, <1>4, <2>1 DEF n
    <3>2. d[m + i] = c[i] /\ e[m + i] = d[m + i]
      BY <1>1, <1>5, <3>1
    <3> QED
      BY <3>1, <3>2
  <2>5. SubSeq(e, a, z) = c
    BY <1>2, <2>3, <2>4, SubSeqIs, ZenonT(40)
  <2> QED
    BY <2>1, <2>2, <2>5
<1>11. PacketAt(h, e, m, n) = PacketWith(h, e, m + n + 1, DecodedPayload(h, c))
  <2>1. ~(n < 0 \/ m + n + 1 > Len(e))
    BY <1>1, <1>4, <1>5
  <2> QED
    BY <1>10, <2>1, Zenon DEF PacketAt
<1>12. e[2] = FieldOf(p)
  BY <1>1, <1>4, <1>5
<1>13. IsRead(FromBytes(e), p)
  <2>1. PacketWith(h, e, m + n + 1, DecodedPayload(h, c))
          = [ok |-> TRUE, header |-> h, size |-> m + n + 1, payload |-> p.payload,
             fragmentId |-> IF HasFragmentId(h) THEN e[2].fragmentId ELSE 0]
    BY <1>2 DEF PacketWith
  <2>2. (IF HasFragmentId(h) THEN e[2].fragmentId ELSE 0) = FragmentIdOf(p)
    <3>1. CASE p.packetType = "data"
      <4>1. e[2].fragmentId = p.fragmentId % FragmentIdSpace
        BY <1>12, <3>1 DEF FieldOf
      <4> QED
        BY <1>3, <3>1, <4>1 DEF FragmentIdOf
    <3>2. CASE p.packetType # "data"
      BY <1>3, <3>2 DEF FragmentIdOf
    <3> QED
      BY <3>1, <3>2
  <2> QED
    BY <1>1, <1>9, <1>11, <2>1, <2>2 DEF IsRead, h
<1>14. IsValid(FromBytes(e), e) <=> e[Len(d)] = d[Len(d)]
  <2> DEFINE q == FromBytes(e)
  <2>1. q.size = m + n + 1 /\ q.header = h
    BY <1>1, <1>13 DEF IsRead, h
  <2>2. ChecksumKey(h) = ChecksumKey(p)
    BY <1>3 DEF ChecksumKey
  <2> HIDE DEF q
  <2>3. q.size - 1 = m + n
    BY <1>1, <1>4, <2>1
  <2>4. SubSeq(e, 1, m + n) = SubSeq(d, 1, m + n)
    <3> DEFINE r == SubSeq(d, 1, m + n)
    <3>1. m + n \in 0 .. Len(d) /\ m + n \in 0 .. Len(e)
      BY <1>1, <1>4, <1>5
    <3>2. IsSeq(r) /\ Len(r) = m + n /\ \A i \in 1 .. m + n : r[i] = d[i]
      BY <1>1, <3>1, FirstPart
    <3> HIDE DEF r
    <3>3. \A i \in 1 .. m + n : r[i] = e[i]
      BY <1>5, <3>2
    <3>4. SubSeq(e, 1, m + n) = r
      BY <3>1, <3>2, <3>3, PrefixIs
    <3> QED
      BY <3>4 DEF r
  <2>5. Checksum(h, SubSeq(e, 1, m + n)) = Checksum(p, SubSeq(d, 1, m + n))
    BY <2>2, <2>4 DEF Checksum
  <2>6. IsValid(q, e) <=> e[m + n + 1] = Checksum(p, SubSeq(d, 1, m + n))
    BY <2>1, <2>3, <2>5 DEF IsValid
  <2> QED
    BY <1>1, <2>6 DEF q
<1> QED
  BY <1>13, <1>14

\* Only the first cell of a packet is a header.
LEMMA OneHeader ==
  ASSUME NEW p, IsPacket(p), NEW d, d = ToBytes(p)
  PROVE  /\ Len(d) \in Nat /\ Len(d) >= 3 /\ IsSeq(d)
         /\ \A i \in 2 .. Len(d) : "header" \notin DOMAIN d[i]
         /\ \E cells : d[Len(d)] = Checksum(p, cells)
<1> DEFINE c == EncodedPayload(p)
           n == Len(c)
           m == FrontLength(p)
<1>1. /\ n \in Nat
      /\ IsSeq(d) /\ Len(d) = m + n + 1
      /\ d[2] = FieldOf(p)
      /\ HasSize(p) => d[3] = [size |-> n]
      /\ \A i \in 1 .. n : d[m + i] = c[i]
      /\ d[m + n + 1] = Checksum(p, SubSeq(d, 1, m + n))
  BY WireOfPacket
<1>2. /\ \A i \in 1 .. n : "header" \notin DOMAIN c[i]
      /\ "header" \notin DOMAIN FieldOf(p)
  BY CryptedPayload, HeaderOfPacket
<1>3. m \in {2, 3} /\ m = 2 + (IF HasSize(p) THEN 1 ELSE 0)
  BY DEF FrontLength
<1> HIDE DEF c, n, m
<1>4. ASSUME NEW i \in 2 .. Len(d)
      PROVE  "header" \notin DOMAIN d[i]
  <2>1. CASE i = 2
    BY <1>1, <1>2, <2>1
  <2>2. CASE i = 3 /\ m = 3
    BY <1>1, <1>3, <2>2
  <2>3. CASE i \in m + 1 .. m + n
    <3>1. i - m \in 1 .. n /\ m + (i - m) = i
      BY <1>1, <1>3, <2>3
    <3>2. d[i] = c[i - m]
      BY <1>1, <3>1
    <3> QED
      BY <1>2, <3>1, <3>2
  <2>4. CASE i = m + n + 1
    BY <1>1, <2>4 DEF Checksum
  <2> QED
    BY <1>1, <1>3, <2>1, <2>2, <2>3, <2>4
<1> QED
  BY <1>1, <1>3, <1>4

Rest(d, offset) == SubSeq(d, offset + 1, Len(d))

LEMMA NoHeader ==
  ASSUME NEW d, IsSeq(d), NEW offset \in 0 .. Len(d),
         offset < Len(d) => "header" \notin DOMAIN d[offset + 1]
  PROVE  ~FromBytes(Rest(d, offset)).ok
<1>1. Len(d) \in Nat
  BY SeqDomain
<1>2. CASE offset = Len(d)
  <2>1. PICK a \in Nat \ {0} : a = offset + 1
    BY <1>1
  <2>2. SubSeq(d, a, Len(d)) = << >>
    <3>1. a <= Len(d) + 1 /\ Len(<< >>) = Len(d) + 1 - a /\ IsSeq(<< >>)
      BY <1>1, <1>2, <2>1, SeqEmpty
    <3>2. \A i \in 1 .. Len(<< >>) : << >>[i] = d[a + i - 1]
      BY SeqEmpty
    <3> QED
      BY <1>1, <3>1, <3>2, SubSeqIs
  <2> QED
    BY <2>1, <2>2 DEF FromBytes, Unreadable, Rest
<1>3. CASE offset < Len(d)
  <2>1. offset + 1 \in Nat \ {0} /\ offset + 1 <= Len(d)
    BY <1>1, <1>3
  <2>2. Rest(d, offset)[1] = d[offset + 1]
    BY <2>1, SubSeqFirst DEF Rest
  <2>3. "header" \notin DOMAIN Rest(d, offset)[1]
    BY <1>3, <2>2
  <2> QED
    BY <2>3 DEF FromBytes, Unreadable
<1> QED
  BY <1>1, <1>2, <1>3

\* A datagram with a packet up to L, and another one behind it or none.
LEMMA TwoPackets ==
  ASSUME NEW d, IsSeq(d), NEW L \in 1 .. Len(d), NEW p, p = FromBytes(d), p.ok, p.size = L,
         NEW q, q = FromBytes(Rest(d, L)),
         \A offset \in 1 .. Len(d) : offset # L => ~FromBytes(Rest(d, offset)).ok,
         q.ok => L < Len(d) /\ q.size = Len(d) - L
  PROVE  PacketsOf(d) =
           Followed(p, d, IF q.ok THEN Followed(q, Rest(d, L), << >>) ELSE << >>)
<1> DEFINE rest(offset) == SubSeq(d, offset + 1, Len(d))
           Step(g, offset) ==
             LET r == FromBytes(rest(offset))
             IN  IF r.ok THEN Followed(r, rest(offset), g[offset + r.size]) ELSE << >>
           from == CHOOSE g : g = [offset \in 0 .. Len(d) |-> Step(g, offset)]
           last == IF q.ok THEN Followed(q, Rest(d, L), << >>) ELSE << >>
           all == Followed(p, d, last)
           found == [offset \in 0 .. Len(d) |->
                       IF offset = 0 THEN all ELSE IF offset = L THEN last ELSE << >>]
<1>1. Len(d) \in Nat /\ L <= Len(d)
  BY SeqDomain
<1>2. rest(0) = d
  BY WholeSubSeq
<1>3. ASSUME NEW g, NEW offset \in 1 .. Len(d), offset # L PROVE Step(g, offset) = << >>
  <2>1. ~FromBytes(rest(offset)).ok
    BY <1>3 DEF Rest
  <2> QED
    BY <2>1
<1>4. ASSUME NEW g, q.ok => g[Len(d)] = << >> PROVE Step(g, L) = last
  <2>1. FromBytes(rest(L)) = q /\ rest(L) = Rest(d, L)
    BY DEF Rest
  <2>2. CASE q.ok
    <3>1. L + q.size = Len(d)
      BY <1>1, <2>2
    <3> HIDE DEF rest
    <3> QED
      BY <1>4, <2>1, <2>2, <3>1, Zenon
  <2>3. CASE ~q.ok
    BY <2>1, <2>3
  <2> QED
    BY <2>2, <2>3
<1>5. ASSUME NEW g, g[L] = last PROVE Step(g, 0) = all
  <2>1. 0 + p.size = L
    BY <1>1
  <2> HIDE DEF rest, last
  <2> QED
    BY <1>2, <1>5, <2>1, Zenon DEF all
<1> HIDE DEF Step, last, all
<1>6. found = [offset \in 0 .. Len(d) |-> Step(found, offset)]
  <2>1. found[L] = last /\ (q.ok => found[Len(d)] = << >>)
    BY <1>1
  <2> HIDE DEF found
  <2>2. Step(found, 0) = all /\ Step(found, L) = last
    BY <1>4, <1>5, <2>1
  <2>3. \A offset \in 1 .. Len(d) : offset # L => Step(found, offset) = << >>
    BY <1>3
  <2>4. ASSUME NEW offset \in 0 .. Len(d)
        PROVE  (IF offset = 0 THEN all ELSE IF offset = L THEN last ELSE << >>)
                 = Step(found, offset)
    BY <1>1, <2>2, <2>3
  <2> DEFINE other == [offset \in 0 .. Len(d) |-> Step(found, offset)]
  <2>5. other = [offset \in 0 .. Len(d) |->
                   IF offset = 0 THEN all ELSE IF offset = L THEN last ELSE << >>]
    BY <2>4
  <2> QED
    BY <2>5 DEF found
<1>7. from = [offset \in 0 .. Len(d) |-> Step(from, offset)]
  <2> HIDE DEF found
  <2> QED
    BY <1>6, Zenon
<1>8. from[0] = all
  <2> HIDE DEF from, found
  <2>1. q.ok => from[Len(d)] = << >>
    <3>1. CASE q.ok
      <4>1. Len(d) \in 1 .. Len(d) /\ Len(d) # L
        BY <1>1, <3>1
      <4>2. Step(from, Len(d)) = << >>
        BY <1>3, <4>1
      <4> QED
        BY <1>1, <1>7, <4>2
    <3> QED
      BY <3>1
  <2>2. Step(from, L) = last
    BY <1>4, <2>1
  <2>3. from[L] = last
    BY <1>1, <1>7, <2>2
  <2>4. Step(from, 0) = all
    BY <1>5, <2>3
  <2> QED
    BY <1>1, <1>7, <2>4
<1>9. PacketsOf(d) = from[0]
  BY Zenon DEF PacketsOf, Step
<1> QED
  BY <1>8, <1>9, Zenon DEF all, last

OnlyPacket(d, p) == \E q : IsRead(q, p) /\ PacketsOf(d) = <<q>>

LEMMA ReadIsOk ==
  ASSUME NEW q, NEW p, IsRead(q, p)
  PROVE  /\ q.ok /\ q.size = Len(ToBytes(p)) /\ q.header = Header(p) /\ q.payload = p.payload
         /\ q.fragmentId = FragmentIdOf(p)
BY DEF IsRead

LEMMA AloneInDatagram ==
  ASSUME NEW p, IsPacket(p)
  PROVE  OnlyPacket(ToBytes(p), p)
<1> DEFINE d == ToBytes(p)
           q == FromBytes(d)
           r == FromBytes(Rest(d, Len(d)))
<1>1. /\ Len(d) \in Nat /\ Len(d) >= 3 /\ IsSeq(d)
      /\ \A i \in 2 .. Len(d) : "header" \notin DOMAIN d[i]
  BY OneHeader
<1>2. IsRead(q, p) /\ IsValid(q, d)
  <2>1. Len(d) >= Len(d) /\ \A i \in 1 .. Len(d) - 1 : d[i] = d[i]
    BY <1>1
  <2> QED
    BY <1>1, <2>1, ReadPacket
<1>3. q.ok /\ q.size = Len(d)
  BY <1>2, ReadIsOk
<1> HIDE DEF d, q, r
<1>4. ASSUME NEW offset \in 1 .. Len(d) PROVE ~FromBytes(Rest(d, offset)).ok
  <2>1. offset < Len(d) => offset + 1 \in 2 .. Len(d)
    BY <1>1
  <2> QED
    BY <1>1, <2>1, NoHeader
<1>5. Len(d) \in 1 .. Len(d)
  BY <1>1
<1>6. ~r.ok
  BY <1>4, <1>5 DEF r
<1>7. PacketsOf(d) = Followed(q, d, IF r.ok THEN Followed(r, Rest(d, Len(d)), << >>) ELSE << >>)
  BY <1>1, <1>3, <1>4, <1>5, <1>6, TwoPackets DEF q, r
<1>8. PacketsOf(d) = <<q>> \o << >>
  BY <1>2, <1>6, <1>7 DEF Followed
<1>9. PacketsOf(d) = <<q>>
  BY <1>8, SeqSingle, EmptyConcat
<1> QED
  BY <1>2, <1>9 DEF OnlyPacket, d

LEMMA SuffixIs ==
  ASSUME NEW q, IsSeq(q), NEW r, IsSeq(r)
  PROVE  Rest(q \o r, Len(q)) = r
<1> DEFINE d == q \o r
<1>1. Len(q) \in Nat /\ Len(r) \in Nat
  BY SeqDomain
<1>2. /\ IsSeq(d) /\ Len(d) = Len(q) + Len(r)
      /\ \A i \in 1 .. Len(q) + Len(r) : d[i] = IF i <= Len(q) THEN q[i] ELSE r[i - Len(q)]
  BY SeqConcat, Zenon
<1> HIDE DEF d
<1>3. PICK a \in Nat \ {0} : a = Len(q) + 1
  BY <1>1
<1>4. Len(d) \in Nat /\ a <= Len(d) + 1 /\ Len(r) = Len(d) + 1 - a
  BY <1>1, <1>2, <1>3
<1>5. ASSUME NEW i \in 1 .. Len(r) PROVE r[i] = d[a + i - 1]
  <2>1. PICK k \in Nat : k = a + i - 1
    BY <1>1, <1>3
  <2> k \in 1 .. Len(q) + Len(r)
    BY <1>1, <1>3, <2>1
  <2>2. ~(k <= Len(q)) /\ k - Len(q) = i
    BY <1>1, <1>3, <2>1
  <2>3. d[k] = r[k - Len(q)]
    BY <1>2, <2>2
  <2> QED
    BY <2>1, <2>2, <2>3
<1>6. SubSeq(d, a, Len(d)) = r
  <2>1. PICK z \in Nat : z = Len(d)
    BY <1>4
  <2>2. z <= Len(d) /\ a <= z + 1 /\ Len(r) = z + 1 - a
    BY <1>4, <2>1
  <2>3. SubSeq(d, a, z) = r
    BY <1>2, <1>5, <2>2, SubSeqIs
  <2> QED
    BY <2>1, <2>3
<1> QED
  BY <1>3, <1>6 DEF Rest, d

LEMMA FrontOfSeq ==
  ASSUME NEW d, IsSeq(d), d # << >>
  PROVE  /\ IsSeq(Front(d)) /\ Len(Front(d)) = Len(d) - 1 /\ Len(d) \in Nat \ {0}
         /\ \A i \in 1 .. Len(d) - 1 : Front(d)[i] = d[i]
<1>1. Len(d) \in Nat \ {0}
  BY SeqTail
<1>2. PICK k \in 0 .. Len(d) : k = Len(d) - 1
  BY <1>1, SMTT(30)
<1>3. /\ IsSeq(SubSeq(d, 1, k)) /\ Len(SubSeq(d, 1, k)) = k
      /\ \A i \in 1 .. k : SubSeq(d, 1, k)[i] = d[i]
  BY FirstPart
<1> QED
  BY <1>1, <1>2, <1>3 DEF Front

\* A packet that was cut off is not read.
LEMMA CutPacket ==
  ASSUME NEW p, IsPacket(p), HasSize(p), NEW f, f = Front(ToBytes(p))
  PROVE  ~FromBytes(f).ok
<1> DEFINE h == Header(p)
           d == ToBytes(p)
           n == Len(EncodedPayload(p))
<1>1. /\ n \in Nat
      /\ IsSeq(d) /\ Len(d) = 3 + n + 1
      /\ d[1] = [header |-> h] /\ d[3] = [size |-> n]
  <2>1. FrontLength(p) = 3
    BY DEF FrontLength
  <2> QED
    BY <2>1, WireOfPacket
<1>2. HasSize(h) /\ Specifics(h) = 1
  BY HeaderOfPacket
<1> HIDE DEF h, d, n
<1>3. d # << >>
  BY <1>1, SeqEmpty
<1>4. IsSeq(f) /\ Len(f) = 3 + n /\ f[1] = [header |-> h] /\ f[3] = [size |-> n] /\ f # << >>
  <2>1. IsSeq(f) /\ Len(f) = Len(d) - 1 /\ \A i \in 1 .. Len(d) - 1 : f[i] = d[i]
    BY <1>1, <1>3, FrontOfSeq DEF d
  <2>2. Len(f) = 3 + n /\ 1 \in 1 .. Len(d) - 1 /\ 3 \in 1 .. Len(d) - 1
    BY <1>1, <2>1
  <2> QED
    BY <1>1, <2>1, <2>2, SeqEmpty
<1>5. PayloadStart(h) = 3
  BY <1>2 DEF PayloadStart
<1>6. PayloadLength(h, f, 3) = n
  BY <1>1, <1>2, <1>4 DEF PayloadLength
<1>7. FromBytes(f) = PacketAt(h, f, 3, n)
  <2>1. "header" \in DOMAIN f[1] /\ f[1].header = h
    BY <1>4
  <2> QED
    BY <1>4, <1>5, <1>6, <2>1 DEF FromBytes
<1>8. 3 + n + 1 > Len(f)
  BY <1>1, <1>4
<1>9. PacketAt(h, f, 3, n) = Unreadable
  BY <1>8 DEF PacketAt
<1> QED
  BY <1>7, <1>9 DEF Unreadable

LEMMA BehindDamaged ==
  ASSUME NEW p, IsPacket(p), HasSize(p)
  PROVE  OnlyPacket(Damaged(ToBytes(p)) \o ToBytes(p), p)
<1> DEFINE d == ToBytes(p)
           f == Damaged(d)
           e == f \o d
           L == Len(d)
           r == FromBytes(e)
           q == FromBytes(d)
<1>1. /\ Len(d) \in Nat /\ Len(d) >= 3 /\ IsSeq(d)
      /\ \A i \in 2 .. Len(d) : "header" \notin DOMAIN d[i]
      /\ \E cells : d[Len(d)] = Checksum(p, cells)
  BY OneHeader
<1>2. IsRead(q, p) /\ IsValid(q, d)
  <2>1. Len(d) >= Len(d) /\ \A i \in 1 .. Len(d) - 1 : d[i] = d[i]
    BY <1>1
  <2> QED
    BY <1>1, <2>1, ReadPacket
<1>3. d # << >>
  BY <1>1, SeqEmpty
<1>4. /\ IsSeq(f) /\ Len(f) = L /\ f[L] = [damaged |-> TRUE]
      /\ \A i \in 1 .. L - 1 : f[i] = d[i]
  <2>1. /\ IsSeq(Front(d)) /\ Len(Front(d)) = L - 1
        /\ \A i \in 1 .. L - 1 : Front(d)[i] = d[i]
    BY <1>1, <1>3, FrontOfSeq
  <2> DEFINE x == [damaged |-> TRUE]
             b == Front(d)
  <2> HIDE DEF x, d, b
  <2>2. /\ IsSeq(Append(b, x)) /\ Len(Append(b, x)) = Len(b) + 1
        /\ \A i \in 1 .. Len(b) : Append(b, x)[i] = b[i]
        /\ Append(b, x)[Len(b) + 1] = x
    BY <2>1, SeqAppend DEF b
  <2>3. f = Append(b, x)
    BY DEF Damaged, b, x
  <2>4. Len(b) = L - 1 /\ L - 1 + 1 = L
    BY <1>1, <2>1 DEF b
  <2> HIDE DEF f
  <2>5. IsSeq(f) /\ Len(f) = L /\ f[L] = x /\ \A i \in 1 .. L - 1 : f[i] = b[i]
    BY <2>2, <2>3, <2>4
  <2> QED
    BY <2>1, <2>5 DEF b, x
<1> HIDE DEF f
<1>5. /\ IsSeq(e) /\ Len(e) = L + L
      /\ \A i \in 1 .. L + L : e[i] = IF i <= L THEN f[i] ELSE d[i - L]
  <2>1. /\ IsSeq(e) /\ Len(e) = Len(f) + Len(d)
        /\ \A i \in 1 .. Len(f) + Len(d) : e[i] = IF i <= Len(f) THEN f[i] ELSE d[i - Len(f)]
    BY <1>1, <1>4, SeqConcat, Zenon
  <2> QED
    BY <1>4, <2>1
<1>6. Rest(e, L) = d
  BY <1>1, <1>4, SuffixIs
<1> HIDE DEF e
<1>7. IsRead(r, p) /\ ~IsValid(r, e)
  <2>1. Len(e) >= L /\ \A i \in 1 .. L - 1 : e[i] = d[i]
    BY <1>1, <1>4, <1>5
  <2>2. e[L] = [damaged |-> TRUE]
    BY <1>1, <1>4, <1>5
  <2>3. e[L] # d[L]
    <3>1. ASSUME NEW cells PROVE [damaged |-> TRUE] # Checksum(p, cells)
      <4>1. "checksum" \in DOMAIN Checksum(p, cells)
        BY DEF Checksum
      <4>2. "checksum" \notin DOMAIN [damaged |-> TRUE]
        OBVIOUS
      <4> QED
        BY <4>1, <4>2
    <3> QED
      BY <1>1, <2>2, <3>1
  <2> QED
    BY <1>5, <2>1, <2>3, ReadPacket
<1>8. r.ok /\ r.size = L /\ q.ok /\ q.size = L
  BY <1>2, <1>7, ReadIsOk
<1> HIDE DEF d, r, q, L
<1>9. ASSUME NEW offset \in 1 .. Len(e), offset # L PROVE ~FromBytes(Rest(e, offset)).ok
  <2>1. ASSUME offset < Len(e) PROVE "header" \notin DOMAIN e[offset + 1]
    <3>1. PICK i \in 2 .. Len(e) : i = offset + 1
      BY <1>1, <1>5, <2>1 DEF L
    <3>2. CASE i = L
      <4>1. e[i] = [damaged |-> TRUE]
        BY <1>1, <1>4, <1>5, <3>2 DEF L
      <4>2. "header" \notin DOMAIN [damaged |-> TRUE]
        OBVIOUS
      <4> QED
        BY <3>1, <4>1, <4>2
    <3>3. CASE i < L
      <4>1. e[i] = d[i] /\ i \in 2 .. Len(d)
        BY <1>1, <1>4, <1>5, <3>1, <3>3 DEF L
      <4> QED
        BY <1>1, <3>1, <4>1
    <3>4. CASE i > L
      <4>1. i - L \in 2 .. Len(d)
        BY <1>1, <1>5, <1>9, <3>1, <3>4 DEF L
      <4>2. e[i] = d[i - L]
        BY <1>1, <1>5, <3>4 DEF L
      <4> QED
        BY <1>1, <3>1, <4>1, <4>2
    <3> QED
      BY <1>1, <3>2, <3>3, <3>4 DEF L
  <2> QED
    BY <1>1, <1>5, <2>1, NoHeader DEF L
<1>10. /\ L \in 1 .. Len(e) /\ L < Len(e) /\ q.size = Len(e) - L
       /\ q = FromBytes(Rest(e, L))
  BY <1>1, <1>5, <1>6, <1>8 DEF L, q
<1>11. PacketsOf(e) = Followed(r, e, IF q.ok THEN Followed(q, Rest(e, L), << >>) ELSE << >>)
  BY <1>5, <1>8, <1>9, <1>10, TwoPackets DEF r
<1>12. PacketsOf(e) = <<q>> \o << >>
  BY <1>2, <1>6, <1>7, <1>8, <1>11 DEF Followed
<1>13. PacketsOf(e) = <<q>>
  BY <1>12, SeqSingle, EmptyConcat
<1> QED
  BY <1>2, <1>13 DEF OnlyPacket, d, e, f

LEMMA BeforeCut ==
  ASSUME NEW p, IsPacket(p), HasSize(p)
  PROVE  OnlyPacket(ToBytes(p) \o Front(ToBytes(p)), p)
<1> DEFINE d == ToBytes(p)
           f == Front(d)
           e == d \o f
           L == Len(d)
           r == FromBytes(e)
           q == FromBytes(f)
<1>1. /\ Len(d) \in Nat /\ Len(d) >= 3 /\ IsSeq(d)
      /\ \A i \in 2 .. Len(d) : "header" \notin DOMAIN d[i]
  BY OneHeader
<1>2. d # << >>
  BY <1>1, SeqEmpty
<1>3. IsSeq(f) /\ Len(f) = L - 1 /\ \A i \in 1 .. L - 1 : f[i] = d[i]
  BY <1>1, <1>2, FrontOfSeq
<1>4. ~q.ok
  BY CutPacket
<1> HIDE DEF f
<1>5. /\ IsSeq(e) /\ Len(e) = L + (L - 1)
      /\ \A i \in 1 .. L + (L - 1) : e[i] = IF i <= L THEN d[i] ELSE f[i - L]
  <2>1. /\ IsSeq(e) /\ Len(e) = Len(d) + Len(f)
        /\ \A i \in 1 .. Len(d) + Len(f) : e[i] = IF i <= Len(d) THEN d[i] ELSE f[i - Len(d)]
    BY <1>1, <1>3, SeqConcat, Zenon
  <2> QED
    BY <1>3, <2>1
<1>6. Rest(e, L) = f
  BY <1>1, <1>3, SuffixIs
<1> HIDE DEF e
<1>7. IsRead(r, p) /\ IsValid(r, e)
  <2>1. Len(e) >= L /\ \A i \in 1 .. L - 1 : e[i] = d[i]
    BY <1>1, <1>5
  <2>2. e[L] = d[L]
    BY <1>1, <1>5
  <2> QED
    BY <1>5, <2>1, <2>2, ReadPacket
<1>8. r.ok /\ r.size = L
  BY <1>7, ReadIsOk
<1> HIDE DEF d, r, q, L
<1>9. ASSUME NEW offset \in 1 .. Len(e), offset # L PROVE ~FromBytes(Rest(e, offset)).ok
  <2>1. ASSUME offset < Len(e) PROVE "header" \notin DOMAIN e[offset + 1]
    <3>1. PICK i \in 2 .. Len(e) : i = offset + 1
      BY <1>1, <1>5, <2>1 DEF L
    <3>2. CASE i <= L
      <4>1. e[i] = d[i] /\ i \in 2 .. Len(d)
        BY <1>1, <1>5, <3>2 DEF L
      <4> QED
        BY <1>1, <3>1, <4>1
    <3>3. CASE i > L
      <4> DEFINE k == i - L
      <4>1. k \in 2 .. L - 1
        BY <1>1, <1>5, <1>9, <3>1, <3>3 DEF L
      <4>2. e[i] = f[k]
        BY <1>1, <1>5, <3>1, <3>3 DEF L
      <4> HIDE DEF k
      <4>3. f[k] = d[k] /\ k \in 2 .. Len(d)
        BY <1>1, <1>3, <4>1 DEF L
      <4> QED
        BY <1>1, <3>1, <4>2, <4>3
    <3> QED
      BY <1>1, <3>2, <3>3 DEF L
  <2> QED
    BY <1>1, <1>5, <2>1, NoHeader DEF L
<1>10. L \in 1 .. Len(e) /\ q = FromBytes(Rest(e, L))
  BY <1>1, <1>5, <1>6 DEF L, q
<1>11. PacketsOf(e) = Followed(r, e, IF q.ok THEN Followed(q, Rest(e, L), << >>) ELSE << >>)
  BY <1>4, <1>5, <1>8, <1>9, <1>10, TwoPackets DEF r
<1>12. PacketsOf(e) = <<r>> \o << >>
  BY <1>4, <1>7, <1>11 DEF Followed
<1>13. PacketsOf(e) = <<r>>
  BY <1>12, SeqSingle, EmptyConcat
<1> QED
  BY <1>7, <1>13 DEF OnlyPacket, d, e, f

\* The packets a server sends in the logs: DATA packets between RVSec ports.
IsServerPacket(p) ==
  /\ p.source = VPort(1, RVSec)
  /\ p.packetType = "data" /\ p.flags = ServerFlags /\ p.useCompression = TRUE
  /\ p.fragmentId \in Nat
  /\ IsSeq(p.payload) /\ Len(p.payload) <= MaxDecompressedSize

\* The datagram it travels in holds this packet only.
LEMMA ReceivedPacket ==
  ASSUME NEW p, IsServerPacket(p)
  PROVE  /\ Received(p).header = Header(p)
         /\ Received(p).payload = p.payload
         /\ Received(p).fragmentId = p.fragmentId % FragmentIdSpace
<1>1. IsPacket(p) /\ p.packetType = "data"
  BY DEF IsPacket, IsServerPacket, VPort
<1>2. PICK q : IsRead(q, p) /\ PacketsOf(ToBytes(p)) = <<q>>
  BY <1>1, AloneInDatagram DEF OnlyPacket
<1>3. Received(p) = q
  BY <1>2, SeqSingle DEF Received
<1> QED
  BY <1>1, <1>2, <1>3, ReadIsOk DEF FragmentIdOf

LEMMA ServerHeader ==
  ASSUME NEW p
  PROVE  LET h == Header(p) IN
         h.sessionId = p.sessionId /\ h.signature = p.signature /\ h.sequence = p.sequence
BY DEF Header

-----------------------------------------------------------------------------
(***************************************************************************)
(* Collecting the messages of a log is a fold: its table gives what each   *)
(* part of the sequence comes to.                                          *)
(***************************************************************************)
Nothing == [messages |-> << >>, parts |-> << >>]
Collected(log) == FoldLeft(CollectPacket, Nothing, log)

\* The table of the fold: what it comes to for each part of a sequence.
CollectTable(log, S, g) ==
  g = [T \in S |-> IF T = {} THEN Nothing
                   ELSE CollectPacket(g[T \ {Max(T)}], log[Max(T)])]

LEMMA CollectTableExists ==
  ASSUME NEW log, NEW n \in Nat
  PROVE  \E g : CollectTable(log, SUBSET (1 .. n), g)
<1> DEFINE S == 1 .. n
           Ns == {k \in Nat : \E g : CollectTable(log, UpTo(S, k), g)}
<1>1. 0 \in Ns
  <2> DEFINE g == [T \in UpTo(S, 0) |-> Nothing]
  <2>1. \A T \in UpTo(S, 0) : T = {}
    BY IntervalIsFinite, OnlyEmptySet
  <2>2. g = [T \in UpTo(S, 0) |-> IF T = {} THEN Nothing
                                  ELSE CollectPacket(g[T \ {Max(T)}], log[Max(T)])]
    BY <2>1
  <2> HIDE DEF g
  <2>3. CollectTable(log, UpTo(S, 0), g)
    BY <2>2, Zenon DEF CollectTable
  <2> QED
    BY <2>3
<1>2. ASSUME NEW k \in Nat, k \in Ns PROVE k + 1 \in Ns
  <2>1. PICK g : CollectTable(log, UpTo(S, k), g)
    BY <1>2
  <2> DEFINE h == [T \in UpTo(S, k + 1) |->
                     IF T = {} THEN Nothing ELSE CollectPacket(g[T \ {Max(T)}], log[Max(T)])]
  <2>2. ASSUME NEW T \in UpTo(S, k + 1), T # {}
        PROVE  /\ T \ {Max(T)} \in UpTo(S, k)
               /\ T \ {Max(T)} \in UpTo(S, k + 1)
    BY <2>2, WithoutMax
  <2>3. \A T \in UpTo(S, k) :
          g[T] = IF T = {} THEN Nothing ELSE CollectPacket(g[T \ {Max(T)}], log[Max(T)])
    BY <2>1, Zenon DEF CollectTable
  <2>4. \A T \in UpTo(S, k) : T \in UpTo(S, k + 1) => h[T] = g[T]
    BY <2>3, Zenon
  <2>5. h = [T \in UpTo(S, k + 1) |->
               IF T = {} THEN Nothing ELSE CollectPacket(h[T \ {Max(T)}], log[Max(T)])]
    <3>1. ASSUME NEW T \in UpTo(S, k + 1), T # {}
          PROVE  h[T \ {Max(T)}] = g[T \ {Max(T)}]
      BY <2>2, <2>4, <3>1, Zenon
    <3> QED
      BY <3>1, Zenon
  <2> HIDE DEF h
  <2>6. CollectTable(log, UpTo(S, k + 1), h)
    BY <2>5, Zenon DEF CollectTable
  <2> QED
    BY <2>6
<1>3. Nat \subseteq Ns
  <2> HIDE DEF Ns
  <2> QED
    BY <1>1, <1>2, NatSetInduction
<1>4. UpTo(S, n) = SUBSET S
  BY UpToAll
<1> QED
  BY <1>3, <1>4

\* The fold is found in it.
LEMMA CollectTableOfFold ==
  ASSUME NEW log, IsSeq(log)
  PROVE  \E g : CollectTable(log, SUBSET (1 .. Len(log)), g) /\ Collected(log) = g[1 .. Len(log)]
<1> DEFINE S == 1 .. Len(log)
           iter == CHOOSE h : h = [T \in SUBSET S |-> IF T = {} THEN Nothing
                                     ELSE CollectPacket(h[T \ {Max(T)}], log[Max(T)])]
<1>1. DOMAIN log = S /\ Len(log) \in Nat
  BY SeqDomain
<1>2. Collected(log) = iter[S]
  <2> HIDE DEF S
  <2> QED
    BY <1>1, Zenon DEF Collected, FoldLeft, MapThenFoldSet
<1>3. \E g : CollectTable(log, SUBSET S, g)
  BY <1>1, CollectTableExists
<1>4. CollectTable(log, SUBSET S, iter)
  <2> HIDE DEF S
  <2> QED
    BY <1>3, Zenon DEF CollectTable
<1> QED
  BY <1>2, <1>4

-----------------------------------------------------------------------------
(***************************************************************************)
(* So is sending the probes of a call.                                     *)
(***************************************************************************)
NoProbes == [s \in Signatures |-> << >>]

\* The table of the fold: what it comes to for each part of a sequence.
ProbeTable(probes, S, g) ==
  g = [T \in S |-> IF T = {} THEN NoProbes
                   ELSE SendProbe(g[T \ {Max(T)}], probes[Max(T)])]

LEMMA ProbeTableExists ==
  ASSUME NEW probes, NEW n \in Nat
  PROVE  \E g : ProbeTable(probes, SUBSET (1 .. n), g)
<1> DEFINE S == 1 .. n
           Ns == {k \in Nat : \E g : ProbeTable(probes, UpTo(S, k), g)}
<1>1. 0 \in Ns
  <2> DEFINE g == [T \in UpTo(S, 0) |-> NoProbes]
  <2>1. \A T \in UpTo(S, 0) : T = {}
    BY IntervalIsFinite, OnlyEmptySet
  <2>2. g = [T \in UpTo(S, 0) |-> IF T = {} THEN NoProbes
                                  ELSE SendProbe(g[T \ {Max(T)}], probes[Max(T)])]
    BY <2>1
  <2> HIDE DEF g
  <2>3. ProbeTable(probes, UpTo(S, 0), g)
    BY <2>2, Zenon DEF ProbeTable
  <2> QED
    BY <2>3
<1>2. ASSUME NEW k \in Nat, k \in Ns PROVE k + 1 \in Ns
  <2>1. PICK g : ProbeTable(probes, UpTo(S, k), g)
    BY <1>2
  <2> DEFINE h == [T \in UpTo(S, k + 1) |->
                     IF T = {} THEN NoProbes ELSE SendProbe(g[T \ {Max(T)}], probes[Max(T)])]
  <2>2. ASSUME NEW T \in UpTo(S, k + 1), T # {}
        PROVE  /\ T \ {Max(T)} \in UpTo(S, k)
               /\ T \ {Max(T)} \in UpTo(S, k + 1)
    BY <2>2, WithoutMax
  <2>3. \A T \in UpTo(S, k) :
          g[T] = IF T = {} THEN NoProbes ELSE SendProbe(g[T \ {Max(T)}], probes[Max(T)])
    BY <2>1, Zenon DEF ProbeTable
  <2>4. \A T \in UpTo(S, k) : T \in UpTo(S, k + 1) => h[T] = g[T]
    BY <2>3, Zenon
  <2>5. h = [T \in UpTo(S, k + 1) |->
               IF T = {} THEN NoProbes ELSE SendProbe(h[T \ {Max(T)}], probes[Max(T)])]
    <3>1. ASSUME NEW T \in UpTo(S, k + 1), T # {}
          PROVE  h[T \ {Max(T)}] = g[T \ {Max(T)}]
      BY <2>2, <2>4, <3>1, Zenon
    <3> QED
      BY <3>1, Zenon
  <2> HIDE DEF h
  <2>6. ProbeTable(probes, UpTo(S, k + 1), h)
    BY <2>5, Zenon DEF ProbeTable
  <2> QED
    BY <2>6
<1>3. Nat \subseteq Ns
  <2> HIDE DEF Ns
  <2> QED
    BY <1>1, <1>2, NatSetInduction
<1>4. UpTo(S, n) = SUBSET S
  BY UpToAll
<1> QED
  BY <1>3, <1>4

\* The fold is found in it.
LEMMA ProbeTableOfFold ==
  ASSUME NEW probes, IsSeq(probes)
  PROVE  \E g : ProbeTable(probes, SUBSET (1 .. Len(probes)), g) /\ ProbePackets(probes) = g[1 .. Len(probes)]
<1> DEFINE S == 1 .. Len(probes)
           iter == CHOOSE h : h = [T \in SUBSET S |-> IF T = {} THEN NoProbes
                                     ELSE SendProbe(h[T \ {Max(T)}], probes[Max(T)])]
<1>1. DOMAIN probes = S /\ Len(probes) \in Nat
  BY SeqDomain
<1>2. ProbePackets(probes) = iter[S]
  <2> HIDE DEF S
  <2> QED
    BY <1>1, Zenon DEF ProbePackets, NoProbes, FoldLeft, MapThenFoldSet
<1>3. \E g : ProbeTable(probes, SUBSET S, g)
  BY <1>1, ProbeTableExists
<1>4. ProbeTable(probes, SUBSET S, iter)
  <2> HIDE DEF S
  <2> QED
    BY <1>3, Zenon DEF ProbeTable
<1> QED
  BY <1>2, <1>4

-----------------------------------------------------------------------------
(***************************************************************************)
(* The fold step by step: the packets of one more message make one more    *)
(* message.                                                                *)
(***************************************************************************)
\* What is collected packet by packet.
IsCollecting(c, log, n) ==
  c[0] = Nothing /\ \A i \in 1 .. n : c[i] = CollectPacket(c[i - 1], log[i])

LEMMA CollectedSteps ==
  ASSUME NEW log, IsSeq(log)
  PROVE  \E c : IsCollecting(c, log, Len(log)) /\ Collected(log) = c[Len(log)]
<1>1. Len(log) \in Nat
  BY SeqDomain
<1>2. PICK n \in Nat : n = Len(log)
  BY <1>1
<1>3. PICK g : CollectTable(log, SUBSET (1 .. n), g) /\ Collected(log) = g[1 .. n]
  BY <1>2, CollectTableOfFold
<1> DEFINE c == [i \in 0 .. n |-> g[1 .. i]]
<1>4. \A T \in SUBSET (1 .. n) :
        g[T] = IF T = {} THEN Nothing ELSE CollectPacket(g[T \ {Max(T)}], log[Max(T)])
  BY <1>3, Zenon DEF CollectTable
<1>5. c[0] = Nothing
  <2>1. 1 .. 0 = {} /\ 0 \in 0 .. n
    OBVIOUS
  <2>2. c[0] = g[{}]
    BY <2>1
  <2> QED
    BY <1>4, <2>2
<1>6. ASSUME NEW i \in 1 .. n
      PROVE  c[i] = CollectPacket(c[i - 1], log[i])
  <2>1. 1 .. i \in SUBSET (1 .. n) /\ 1 .. i # {}
    BY <1>6
  <2>2. Max(1 .. i) = i
    <3>1. Max(1 .. i) \in 1 .. i /\ \A k \in 1 .. i : k <= Max(1 .. i)
      BY <2>1, MaxIsIn
    <3> QED
      BY <1>6, <3>1
  <2>3. (1 .. i) \ {i} = 1 .. i - 1
    BY <1>6
  <2>4. g[1 .. i] = CollectPacket(g[1 .. i - 1], log[i])
    BY <1>4, <2>1, <2>2, <2>3
  <2>5. i \in 0 .. n /\ i - 1 \in 0 .. n
    BY <1>6
  <2> QED
    BY <2>4, <2>5
<1>7. Collected(log) = c[n]
  BY <1>3
<1> HIDE DEF c
<1>8. IsCollecting(c, log, n)
  BY <1>5, <1>6 DEF IsCollecting
<1> QED
  BY <1>2, <1>7, <1>8

BeginAlike(log, other, n) == \A i \in 1 .. n : log[i] = other[i]

LEMMA SameSteps ==
  ASSUME NEW log, NEW other, NEW n \in Nat, NEW m \in Nat, n <= m,
         BeginAlike(log, other, n), NEW c, IsCollecting(c, log, n), NEW d, IsCollecting(d, other, m)
  PROVE  c[n] = d[n]
<1> DEFINE Ns == {i \in Nat : i <= n => c[i] = d[i]}
<1>1. 0 \in Ns
  BY DEF IsCollecting
<1>2. ASSUME NEW i \in Nat, i \in Ns PROVE i + 1 \in Ns
  <2> SUFFICES ASSUME i + 1 <= n PROVE c[i + 1] = d[i + 1]
    OBVIOUS
  <2>1. c[i] = d[i] /\ i + 1 \in 1 .. n /\ i + 1 \in 1 .. m /\ i + 1 - 1 = i
    BY <1>2
  <2>2. c[i + 1] = CollectPacket(c[i], log[i + 1])
    BY <2>1 DEF IsCollecting, BeginAlike
  <2>3. d[i + 1] = CollectPacket(d[i], other[i + 1])
    BY <2>1 DEF IsCollecting
  <2> QED
    BY <2>1, <2>2, <2>3 DEF BeginAlike
<1>3. Nat \subseteq Ns
  <2> HIDE DEF Ns
  <2> QED
    BY <1>1, <1>2, NatSetInduction
<1> QED
  BY <1>3

\* Whole messages were collected, and so many of them.
IsCollected(got, count) ==
  \E ms : IsSeq(ms) /\ Len(ms) = count /\ got = [messages |-> ms, parts |-> << >>]

LEMMA NothingCollected == IsCollected(Collected(<< >>), 0)
<1>1. PICK c : IsCollecting(c, << >>, Len(<< >>)) /\ Collected(<< >>) = c[Len(<< >>)]
  BY SeqEmpty, CollectedSteps
<1>2. Collected(<< >>) = Nothing
  BY <1>1, SeqEmpty DEF IsCollecting
<1> QED
  BY <1>2, SeqEmpty DEF IsCollected, Nothing

\* The fragments of one more message make one more message.
LEMMA OneMoreMessage ==
  ASSUME NEW log, IsSeq(log), NEW count, IsCollected(Collected(log), count),
         NEW part, IsSeq(part), Len(part) # 0,
         \A i \in 1 .. Len(part) : Received(part[i]).fragmentId = Len(part) - i
  PROVE  IsCollected(Collected(log \o part), count + 1)
<1> DEFINE whole == log \o part
<1>1. PICK m \in Nat : m = Len(log)
  BY SeqDomain
<1>2. PICK k \in Nat \ {0} : k = Len(part)
  BY SeqDomain
<1>3. /\ IsSeq(whole) /\ Len(whole) = m + k
      /\ \A i \in 1 .. m + k : whole[i] = IF i <= m THEN log[i] ELSE part[i - m]
  BY <1>1, <1>2, SeqConcat
<1> HIDE DEF whole
<1>4. PICK c : IsCollecting(c, log, m) /\ Collected(log) = c[m]
  BY <1>1, CollectedSteps
<1>5. PICK d : IsCollecting(d, whole, m + k) /\ Collected(whole) = d[m + k]
  BY <1>3, CollectedSteps
<1>6. d[m] = Collected(log)
  <2>1. PICK l \in Nat : l = m + k
    OBVIOUS
  <2>2. m <= l /\ BeginAlike(log, whole, m)
    BY <1>3, <2>1 DEF BeginAlike
  <2>3. IsCollecting(c, log, m) /\ IsCollecting(d, whole, l)
    BY <1>4, <1>5, <2>1
  <2>4. c[m] = d[m]
    BY <1>1, <2>1, <2>2, <2>3, SameSteps
  <2> QED
    BY <1>4, <2>4
<1>7. PICK ms : IsSeq(ms) /\ Len(ms) = count /\ Collected(log) = [messages |-> ms, parts |-> << >>]
  BY DEF IsCollected
<1> DEFINE IsPartial(i) == \E q : d[m + i] = [messages |-> ms, parts |-> q]
           Ns == {i \in Nat : i < k => IsPartial(i)}
<1>8. IsPartial(0)
  <2>1. m + 0 = m
    OBVIOUS
  <2> QED
    BY <1>6, <1>7, <2>1
<1>9. ASSUME NEW i \in 1 .. k
      PROVE  d[m + i] = Collect(d[m + (i - 1)], Received(part[i])) /\ Received(part[i]).fragmentId = k - i
  <2>1. m + i \in 1 .. m + k /\ ~(m + i <= m) /\ m + i - m = i /\ m + i - 1 = m + (i - 1)
    BY <1>9
  <2>2. whole[m + i] = part[i]
    BY <1>3, <2>1
  <2>3. d[m + i] = CollectPacket(d[m + (i - 1)], part[i])
    BY <1>5, <2>1, <2>2 DEF IsCollecting
  <2> QED
    BY <1>2, <2>3 DEF CollectPacket
<1>10. ASSUME NEW i \in Nat, i + 1 < k, IsPartial(i) PROVE IsPartial(i + 1)
  <2>1. PICK q : d[m + i] = [messages |-> ms, parts |-> q]
    BY <1>10
  <2>2. i + 1 \in 1 .. k /\ i + 1 - 1 = i /\ k - (i + 1) # 0
    BY <1>10
  <2>3. PICK r : r = Received(part[i + 1])
    OBVIOUS
  <2>4. d[m + (i + 1)] = Collect(d[m + i], r) /\ r.fragmentId = k - (i + 1)
    BY <1>9, <2>2, <2>3
  <2>5. Collect([messages |-> ms, parts |-> q], r) = [messages |-> ms, parts |-> q \o r.payload]
    BY <2>2, <2>4 DEF Collect
  <2> QED
    BY <2>1, <2>4, <2>5
<1>11. k - 1 \in Ns
  <2> HIDE DEF IsPartial
  <2>1. 0 \in Ns
    BY <1>8
  <2>2. ASSUME NEW i \in Nat, i \in Ns PROVE i + 1 \in Ns
    BY <1>10, <2>2
  <2>3. Nat \subseteq Ns
    <3> HIDE DEF Ns
    <3> QED
      BY <2>1, <2>2, NatSetInduction
  <2> QED
    BY <2>3
<1>12. PICK q : d[m + (k - 1)] = [messages |-> ms, parts |-> q]
  <2>1. IsPartial(k - 1)
    <3> HIDE DEF IsPartial
    <3> QED
      BY <1>11
  <2> QED
    BY <2>1
<1>13. PICK r : r = Received(part[k])
  OBVIOUS
<1>14. d[m + k] = Collect(d[m + (k - 1)], r) /\ r.fragmentId = 0
  <2>1. k \in 1 .. k /\ k - k = 0
    OBVIOUS
  <2> QED
    BY <1>9, <1>13, <2>1
<1>15. d[m + k] = [messages |-> Append(ms, q \o r.payload), parts |-> << >>]
  BY <1>12, <1>14 DEF Collect
<1>16. IsSeq(Append(ms, q \o r.payload)) /\ Len(Append(ms, q \o r.payload)) = count + 1
  BY <1>7, SeqAppend
<1> QED
  BY <1>5, <1>15, <1>16 DEF IsCollected, whole

-----------------------------------------------------------------------------
(***************************************************************************)
(* The probes of a call, for each client in a row.                         *)
(***************************************************************************)
\* A payload fits a packet that its receiver can inflate.
FitsPacket(data) == IsSeq(data) /\ Len(data) <= MaxDecompressedSize

\* Probes to a client, the first of them on its next sequence id.
AreProbesTo(s, log) ==
  /\ IsSeq(log)
  /\ \A k \in 1 .. Len(log) : \E data : FitsPacket(data) /\ log[k] = ProbePacket(s, data, k)

AreProbes(sent) == DOMAIN sent = Signatures /\ \A s \in Signatures : AreProbesTo(s, sent[s])

\* Packets to a client, each a probe with its connection id.
ArePacketsFor(probes, s, log) ==
  /\ IsSeq(log)
  /\ \A k \in 1 .. Len(log) : \E n \in DOMAIN probes :
       /\ connectionIds[probes[n].connectionId] = s
       /\ log[k] = ProbePacket(s, probes[n].data, k)

AreSent(probes, sent) ==
  DOMAIN sent = Signatures /\ \A s \in Signatures : ArePacketsFor(probes, s, sent[s])

LEMMA OneMoreProbe ==
  ASSUME NEW probes, NEW sent, AreSent(probes, sent), NEW p \in DOMAIN probes
  PROVE  AreSent(probes, SendProbe(sent, probes[p]))
<1>0. PICK probe : probe = probes[p]
  OBVIOUS
<1>1. PICK t : t = connectionIds[probe.connectionId]
  OBVIOUS
<1>2. PICK log : log = sent[t]
  OBVIOUS
<1>3. PICK next : next = ProbePacket(t, probe.data, Len(log) + 1)
  OBVIOUS
<1>4. PICK more : more = Append(log, next)
  OBVIOUS
<1>5. PICK new : new = [sent EXCEPT ![t] = more]
  OBVIOUS
<1>6. SendProbe(sent, probe) = new
  BY <1>1, <1>2, <1>3, <1>4, <1>5 DEF SendProbe
<1>7. DOMAIN new = Signatures /\ \A s \in Signatures : new[s] = IF s = t THEN more ELSE sent[s]
  BY <1>5 DEF AreSent
<1>8. ASSUME t \in Signatures
      PROVE  ArePacketsFor(probes, t, more)
  <2>1. IsSeq(log) /\ \A k \in 1 .. Len(log) : \E n \in DOMAIN probes :
          /\ connectionIds[probes[n].connectionId] = t
          /\ log[k] = ProbePacket(t, probes[n].data, k)
    BY <1>2, <1>8 DEF AreSent, ArePacketsFor
  <2>2. Len(log) \in Nat
    BY <2>1, SeqDomain
  <2>3. /\ IsSeq(more) /\ Len(more) = Len(log) + 1
        /\ \A k \in 1 .. Len(log) : more[k] = log[k]
        /\ more[Len(log) + 1] = next
    BY <1>4, <2>1, SeqAppend
  <2>4. ASSUME NEW k \in 1 .. Len(more)
        PROVE  \E n \in DOMAIN probes : /\ connectionIds[probes[n].connectionId] = t
                                        /\ more[k] = ProbePacket(t, probes[n].data, k)
    <3>1. CASE k \in 1 .. Len(log)
      BY <2>1, <2>3, <3>1
    <3>2. CASE k = Len(log) + 1
      BY <1>0, <1>1, <1>3, <2>3, <3>2
    <3> QED
      BY <2>2, <2>3, <3>1, <3>2
  <2> QED
    BY <2>3, <2>4 DEF ArePacketsFor
<1>9. ASSUME NEW s \in Signatures
      PROVE  ArePacketsFor(probes, s, new[s])
  BY <1>7, <1>8 DEF AreSent
<1> QED
  BY <1>0, <1>6, <1>7, <1>9 DEF AreSent

LEMMA ProbesAreSent ==
  ASSUME NEW probes, IsSeq(probes)
  PROVE  AreSent(probes, ProbePackets(probes))
<1>1. PICK n \in Nat : n = Len(probes) /\ DOMAIN probes = 1 .. n
  BY SeqDomain
<1>2. PICK g : ProbeTable(probes, SUBSET (1 .. n), g) /\ ProbePackets(probes) = g[1 .. n]
  BY <1>1, ProbeTableOfFold
<1>3. \A T \in SUBSET (1 .. n) :
        g[T] = IF T = {} THEN NoProbes ELSE SendProbe(g[T \ {Max(T)}], probes[Max(T)])
  BY <1>2, Zenon DEF ProbeTable
<1> DEFINE Good == {T \in SUBSET (1 .. n) : AreSent(probes, g[T])}
<1>4. {} \in Good
  <2>1. g[{}] = NoProbes
    BY <1>3
  <2>2. \A s \in Signatures : ArePacketsFor(probes, s, << >>)
    BY SeqEmpty DEF ArePacketsFor
  <2>3. AreSent(probes, NoProbes)
    BY <2>2 DEF AreSent, NoProbes
  <2> QED
    BY <2>1, <2>3
<1>5. ASSUME NEW T \in SUBSET (1 .. n), T # {}, \A x \in T : T \ {x} \in Good
      PROVE  T \in Good
  <2>1. Max(T) \in T
    BY <1>5, MaxIsIn
  <2>2. AreSent(probes, g[T \ {Max(T)}])
    BY <1>5, <2>1
  <2>3. Max(T) \in DOMAIN probes
    BY <1>1, <2>1
  <2>4. AreSent(probes, SendProbe(g[T \ {Max(T)}], probes[Max(T)]))
    BY <2>2, <2>3, OneMoreProbe
  <2>5. g[T] = SendProbe(g[T \ {Max(T)}], probes[Max(T)])
    BY <1>3, <1>5
  <2> QED
    BY <2>4, <2>5
<1>6. 1 .. n \in Good
  <2> DEFINE S == 1 .. n
  <2>1. IsFiniteSet(S)
    BY IntervalIsFinite
  <2>2. \A T \in SUBSET S : T # {} /\ (\A x \in T : T \ {x} \in Good) => T \in Good
    BY <1>5
  <2>3. S \in Good
    <3> HIDE DEF S, Good
    <3> QED
      BY <1>4, <2>1, <2>2, SubsetInduction
  <2> QED
    BY <2>3
<1> QED
  BY <1>2, <1>6

LEMMA ProbesFitPackets ==
  ASSUME NEW probes, IsSeq(probes), \A n \in DOMAIN probes : FitsPacket(probes[n].data)
  PROVE  AreProbes(ProbePackets(probes))
<1>1. AreSent(probes, ProbePackets(probes))
  BY ProbesAreSent
<1>2. ASSUME NEW s, NEW log, ArePacketsFor(probes, s, log)
      PROVE  AreProbesTo(s, log)
  BY <1>2 DEF ArePacketsFor, AreProbesTo
<1> QED
  BY <1>1, <1>2 DEF AreSent, AreProbes

-----------------------------------------------------------------------------
(***************************************************************************)
(* The fragments of an answer.                                             *)
(***************************************************************************)
LEMMA ChunkFits ==
  ASSUME NEW data, IsSeq(data), NEW i \in Nat \ {0}
  PROVE  FitsPacket(Chunk(data, i))
<1>1. PICK l \in Nat : l = Len(data)
  BY SeqDomain
<1>2. PICK m \in Nat \ {0} : m = MaxPayload
  BY ExchangeAssumption
<1>3. PICK e \in Nat : e = i * m
  OBVIOUS
<1>4. PICK a \in Nat \ {0} : a = (i - 1) * m + 1 /\ e - m + 1 = a
  <2>1. (i - 1) * m \in Nat /\ (i - 1) * m = e - m
    BY <1>3
  <2> QED
    BY <2>1
<1>5. PICK b \in 0 .. l : b = (IF e < l THEN e ELSE l) /\ b <= e
  BY <1>1, <1>3
<1>6. Chunk(data, i) = SubSeq(data, a, b)
  BY <1>1, <1>2, <1>3, <1>4, <1>5 DEF Chunk
<1>7. b + 1 - a <= m
  BY <1>4, <1>5
<1>8. IsSeq(SubSeq(data, a, b)) /\ Len(SubSeq(data, a, b)) \in 0 .. m
  BY <1>1, <1>7, SubSeqFits
<1>9. m <= MaxDecompressedSize /\ MaxDecompressedSize \in Nat
  BY <1>2, ExchangeAssumption, PacketAssumption
<1> QED
  BY <1>6, <1>8, <1>9 DEF FitsPacket

LEMMA FragmentedPackets ==
  ASSUME NEW s, NEW job, IsSeq(job.response), HasHandler(job.header)
  PROVE  /\ IsSeq(Fragmented(s, job)) /\ Len(Fragmented(s, job)) = Count(job.response)
         /\ Count(job.response) \in Nat
         /\ \A i \in 1 .. Count(job.response) :
              /\ IsServerPacket(Fragmented(s, job)[i])
              /\ Fragmented(s, job)[i].to = job.from
              /\ Fragmented(s, job)[i].fragmentId = Count(job.response) - i
<1>1. PICK n \in Nat : n = Count(job.response)
  BY SeqDomain, CountIsNat
<1>2. PICK part : part = Fragmented(s, job)
  OBVIOUS
<1>3. part = [i \in 1 .. n |-> AnswerPacket(s, job, i)]
  BY <1>1, <1>2 DEF Fragmented
<1>4. IsSeq(part) /\ Len(part) = n
  <2>1. DOMAIN part = 1 .. n /\ part = [i \in 1 .. n |-> part[i]]
    BY <1>3
  <2> QED
    BY <2>1, SeqFunction
<1>5. ASSUME NEW i \in 1 .. n
      PROVE  IsServerPacket(part[i]) /\ part[i].to = job.from /\ part[i].fragmentId = n - i
  <2>1. PICK p : p = AnswerPacket(s, job, i)
    OBVIOUS
  <2>2. /\ p.source = job.header.destination /\ p.packetType = "data" /\ p.flags = ServerFlags
        /\ p.useCompression = TRUE /\ p.to = job.from
        /\ p.fragmentId = n - i /\ p.payload = Chunk(job.response, i)
    BY <1>1, <2>1 DEF AnswerPacket, AnswerTo, FragmentId
  <2>3. FitsPacket(p.payload)
    BY <2>2, ChunkFits
  <2>4. IsServerPacket(p)
    BY <2>2, <2>3 DEF IsServerPacket, FitsPacket, HasHandler
  <2> QED
    BY <1>3, <2>1, <2>2, <2>4
<1> QED
  BY <1>1, <1>2, <1>4, <1>5
-----------------------------------------------------------------------------
(***************************************************************************)
(* What the proofs suppose of the handlers' answers so far.                *)
(***************************************************************************)
\* Probes fit a packet, and an answer has a fragment id for each fragment.
ProbesFit ==
  \A j \in DOMAIN jobs :
    /\ IsSeq(jobs[j].probes)
    /\ \A n \in DOMAIN jobs[j].probes : FitsPacket(jobs[j].probes[n].data)

AnswersHaveFragmentIds ==
  \A j \in DOMAIN jobs : jobs[j].answered => Count(jobs[j].response) \in 1 .. FragmentIdSpace

\* Jobs are only added, and all that changes in one is whether it is pending.
JobsInv ==
  /\ IsSeq(jobs)
  /\ \A j \in DOMAIN jobs : DOMAIN jobs[j] = JobFields

KeepsJob(job, other) ==
  /\ other.client = job.client /\ other.from = job.from /\ other.response = job.response
  /\ other.probes = job.probes /\ other.answered = job.answered
  /\ other.piece = job.piece /\ other.call = job.call /\ other.data = job.data
  /\ other.becomes = job.becomes

LEMMA JobsGrow ==
  ASSUME JobsInv, [Next]_vars
  PROVE  /\ JobsInv'
         /\ DOMAIN jobs \subseteq DOMAIN jobs'
         /\ \A j \in DOMAIN jobs : KeepsJob(jobs[j], jobs'[j])
<1>1. PICK q : q = jobs
  OBVIOUS
<1>2. IsSeq(q) /\ Len(q) \in Nat /\ DOMAIN q = 1 .. Len(q)
  BY <1>1, SeqDomain DEF JobsInv
<1>3. CASE HandleMessage
  <2>1. PICK job : jobs' = Append(jobs, job) /\ DOMAIN job = JobFields
    <3>1. PICK s, data, result : jobs' = Append(jobs, JobOf(s, data, result))
      BY <1>3, Zenon DEF HandleMessage
    <3>2. DOMAIN JobOf(s, data, result) = JobFields
      BY DEF JobOf, JobFields
    <3> QED
      BY <3>1, <3>2, SMTT(30)
  <2>2. /\ IsSeq(jobs') /\ Len(jobs') = Len(q) + 1
        /\ \A j \in 1 .. Len(q) : jobs'[j] = q[j]
        /\ jobs'[Len(q) + 1] = job
    BY <1>1, <1>2, <2>1, SeqAppend
  <2>3. DOMAIN jobs' = 1 .. Len(q) + 1
    BY <2>2, SeqDomain
  <2> QED
    BY <1>1, <1>2, <2>1, <2>2, <2>3 DEF JobsInv, KeepsJob
<1>4. ASSUME NEW k \in DOMAIN jobs, Finish(k)
      PROVE  /\ JobsInv'
             /\ DOMAIN jobs \subseteq DOMAIN jobs'
             /\ \A j \in DOMAIN jobs : KeepsJob(jobs[j], jobs'[j])
  <2>1. PICK e : e = Finished(jobs[k])
    OBVIOUS
  <2>2. jobs' = [q EXCEPT ![k] = e]
    BY <1>1, <1>4, <2>1 DEF Finish, FinishJob
  <2>3. /\ IsSeq([q EXCEPT ![k] = e]) /\ Len([q EXCEPT ![k] = e]) = Len(q)
        /\ [q EXCEPT ![k] = e][k] = e
        /\ \A i \in 1 .. Len(q) : i # k => [q EXCEPT ![k] = e][i] = q[i]
    <3>1. k \in 1 .. Len(q)
      BY <1>1, <1>2
    <3> QED
      BY <1>2, <3>1, SeqExcept
  <2>4. DOMAIN jobs[k] = JobFields
    BY <1>4 DEF JobsInv
  <2>5. DOMAIN e = JobFields /\ KeepsJob(jobs[k], e)
    BY <2>1, <2>4 DEF Finished, JobFields, KeepsJob
  <2>6. \A j \in DOMAIN jobs : j # k => KeepsJob(jobs[j], jobs'[j])
    BY <1>1, <1>2, <2>2, <2>3 DEF KeepsJob
  <2>7. jobs'[k] = e /\ IsSeq(jobs') /\ DOMAIN jobs' = DOMAIN jobs
    BY <1>1, <2>2, <2>3
  <2>8. ASSUME NEW j \in DOMAIN jobs PROVE DOMAIN jobs'[j] = JobFields
    BY <1>1, <1>2, <2>2, <2>3, <2>5 DEF JobsInv
  <2> QED
    BY <2>5, <2>6, <2>7, <2>8 DEF JobsInv
<1>5. CASE UNCHANGED jobs
  BY <1>5, SMTT(30) DEF JobsInv, KeepsJob
<1>6. CASE Connect \/ HandleFragment \/ Ignore \/ Send \/ UNCHANGED vars
  BY <1>5, <1>6, Zenon DEF Connect, HandleFragment, Ignore, Send, vars
<1>7. CASE \E s \in Signatures : Leave(s)
  BY <1>5, <1>7 DEF Leave
<1>8. CASE \E copy \in flight.copies : Repeat(copy) \/ Lose(copy) \/ Arrive(copy)
  BY <1>5, <1>8 DEF Repeat, Lose, Arrive
<1> QED
  BY <1>3, <1>4, <1>6, <1>7, <1>8 DEF Next, Work

LEMMA SupposedBefore ==
  ASSUME JobsInv, [Next]_vars
  PROVE  /\ AnswersAreMessages' => AnswersAreMessages
         /\ ProbesFit' => ProbesFit
         /\ AnswersHaveFragmentIds' => AnswersHaveFragmentIds
BY JobsGrow DEF AnswersAreMessages, ProbesFit, AnswersHaveFragmentIds, KeepsJob

-----------------------------------------------------------------------------
(***************************************************************************)
(* What a step does to one connection's answers, and to the jobs that have *)
(* been answered on it.                                                    *)
(***************************************************************************)
Settled(js, s) == {j \in DOMAIN js : js[j].client = s /\ js[j].answered /\ ~js[j].pending}

Fresh(s) == s \notin Signatures /\ answered'[s] = << >> /\ Settled(jobs', s) = {}

Kept(s) ==
  s \in Signatures /\ answered'[s] = answered[s] /\ Settled(jobs', s) = Settled(jobs, s)

AnsweredOne(s, job, j) ==
  /\ s \in Signatures /\ answered'[s] = answered[s] \o Fragmented(s, job)
  /\ IsSeq(job.response) /\ HasHandler(job.header)
  /\ j \in DOMAIN jobs' /\ jobs'[j].client = s /\ jobs'[j].answered
  /\ jobs'[j].response = job.response /\ jobs'[j].from = job.from
  /\ j \notin Settled(jobs, s) /\ Settled(jobs', s) = Settled(jobs, s) \union {j}

OneAtMost == \A s \in Signatures' : Fresh(s) \/ Kept(s) \/ \E job, j : AnsweredOne(s, job, j)

LEMMA ConnectedOne ==
  ASSUME Inv, Connect
  PROVE  OneAtMost
<1>1. PICK info : infos' = Append(infos, info)
  BY DEF Connect
<1>2. answered' = Append(answered, << >>) /\ UNCHANGED jobs
  BY DEF Connect
<1>3. IsSeq(infos) /\ Len(infos) \in Nat /\ IsSeq(answered) /\ Len(answered) = Len(infos)
  BY SeqDomain DEF Inv
<1>4. Len(infos') = Len(infos) + 1
  BY <1>1, <1>3, SeqAppend
<1>5. /\ \A s \in Signatures : answered'[s] = answered[s]
      /\ answered'[Len(infos) + 1] = << >>
  BY <1>2, <1>3, SeqAppend DEF Signatures
<1>6. Signatures' = Signatures \union {Len(infos) + 1} /\ Len(infos) + 1 \notin Signatures
  BY <1>3, <1>4 DEF Signatures
<1>7. Settled(jobs', Len(infos) + 1) = {}
  BY <1>2, <1>3 DEF Settled, Inv, IsJob
<1>8. Fresh(Len(infos) + 1)
  BY <1>5, <1>6, <1>7 DEF Fresh
<1>9. \A s \in Signatures : Kept(s)
  BY <1>2, <1>5 DEF Kept
<1> QED
  BY <1>6, <1>8, <1>9 DEF OneAtMost

LEMMA HandledOne ==
  ASSUME Inv, HandleMessage, AnswersAreMessages'
  PROVE  OneAtMost
<1>0. PICK s \in Signatures : \E job : TookMessage(s, job)
  BY HandleStep
<1>1. PICK job : TookMessage(s, job)
  BY <1>0
<1>2. /\ Len(jobs) \in Nat /\ DOMAIN jobs = 1 .. Len(jobs)
      /\ IsSeq(jobs') /\ DOMAIN jobs' = 1 .. Len(jobs) + 1
      /\ \A j \in 1 .. Len(jobs) : jobs'[j] = jobs[j]
      /\ jobs'[Len(jobs) + 1] = job
  BY <1>1, HandledJobs DEF Inv
<1>3. PICK k : k = Len(jobs) + 1 /\ k \notin DOMAIN jobs /\ DOMAIN jobs' = DOMAIN jobs \union {k}
  BY <1>2
<1>4. jobs'[k] = job /\ \A j \in DOMAIN jobs : jobs'[j] = jobs[j]
  BY <1>2, <1>3
<1>5. IsSeq(job.response) /\ HasHandler(job.header) /\ job.client = s
  BY <1>1, <1>3, <1>4 DEF AnswersAreMessages, TookMessage
<1>6. \A c : c # s => Settled(jobs', c) = Settled(jobs, c)
  BY <1>3, <1>4, <1>5 DEF Settled
<1>7. Settled(jobs', s) = IF IsDone(job) THEN Settled(jobs, s) \union {k} ELSE Settled(jobs, s)
  <2>1. CASE IsDone(job)
    BY <1>3, <1>4, <1>5, <2>1 DEF Settled, IsDone
  <2>2. CASE ~IsDone(job)
    BY <1>3, <1>4, <1>5, <2>2 DEF Settled, IsDone
  <2> QED
    BY <2>1, <2>2
<1>8. k \notin Settled(jobs, s)
  BY <1>3 DEF Settled
<1>9. /\ answered'[s] = IF IsDone(job) THEN answered[s] \o Fragmented(s, job) ELSE answered[s]
      /\ \A c \in Signatures : c # s => answered'[c] = answered[c]
  BY <1>1 DEF TookMessage
<1>10. IsDone(job) => AnsweredOne(s, job, k)
  BY <1>3, <1>4, <1>5, <1>7, <1>8, <1>9 DEF AnsweredOne, IsDone
<1>11. ~IsDone(job) => Kept(s)
  BY <1>7, <1>9 DEF Kept
<1>12. \A c \in Signatures : c # s => Kept(c)
  BY <1>6, <1>9 DEF Kept
<1>13. Signatures' = Signatures
  BY <1>1 DEF TookMessage, Signatures
<1> QED
  BY <1>10, <1>11, <1>12, <1>13 DEF OneAtMost

LEMMA EndedOne ==
  ASSUME Inv, NEW j \in DOMAIN jobs, Finish(j)
  PROVE  OneAtMost
<1>0. PICK s \in Signatures : \E job : Ended(s, job, j)
  BY FinishStep
<1>1. PICK job : Ended(s, job, j)
  BY <1>0
<1>2. /\ DOMAIN jobs = 1 .. Len(jobs) /\ IsSeq(jobs') /\ DOMAIN jobs' = DOMAIN jobs
      /\ \A i \in DOMAIN jobs : i # j => jobs'[i] = jobs[i]
      /\ jobs'[j] = Finished(job)
      /\ \A f \in JobFields : f # "pending" => Finished(job)[f] = job[f]
      /\ DOMAIN Finished(job) = JobFields /\ ~Finished(job).pending
  BY <1>1, EndedJobs
<1>3. /\ job = jobs[j] /\ job.client = s /\ job.pending /\ job.answered
      /\ IsSeq(job.response) /\ HasHandler(job.header)
  BY <1>1 DEF Ended, Inv, IsJob
<1>4. PICK other : other = Finished(job)
  OBVIOUS
<1>5. /\ other.client = s /\ other.answered /\ ~other.pending
      /\ other.response = job.response /\ other.from = job.from
  BY <1>2, <1>3, <1>4 DEF JobFields
<1>6. jobs'[j] = other
  BY <1>2, <1>4
<1>7. \A c : c # s => Settled(jobs', c) = Settled(jobs, c)
  BY <1>2, <1>3, <1>5, <1>6 DEF Settled
<1>8. j \notin Settled(jobs, s) /\ Settled(jobs', s) = Settled(jobs, s) \union {j}
  BY <1>2, <1>3, <1>5, <1>6 DEF Settled
<1>9. /\ answered'[s] = answered[s] \o Fragmented(s, job)
      /\ \A c \in Signatures : c # s => answered'[c] = answered[c]
  BY <1>1 DEF Ended
<1>10. AnsweredOne(s, job, j)
  BY <1>2, <1>3, <1>5, <1>6, <1>8, <1>9 DEF AnsweredOne
<1>11. \A c \in Signatures : c # s => Kept(c)
  BY <1>7, <1>9 DEF Kept
<1>12. Signatures' = Signatures
  BY <1>1 DEF Ended, Signatures
<1> QED
  BY <1>10, <1>11, <1>12 DEF OneAtMost

LEMMA StepOfOne ==
  ASSUME Inv, [Next]_vars, AnswersAreMessages'
  PROVE  OneAtMost
<1>1. CASE HandleFragment
  <2>1. Len(infos') = Len(infos) /\ UNCHANGED <<jobs, answered>>
    <3>1. PICK s, e : infos' = [infos EXCEPT ![s].packetFragments = e]
      BY <1>1 DEF HandleFragment
    <3>2. PICK f : f = infos'
      OBVIOUS
    <3>3. PICK q : q = infos
      OBVIOUS
    <3>4. PICK n \in Nat : n = Len(q) /\ DOMAIN q = 1 .. n
      BY <3>3, SeqDomain DEF Inv
    <3>5. DOMAIN f = 1 .. n /\ f = [i \in 1 .. n |-> f[i]]
      BY <3>1, <3>2, <3>3, <3>4
    <3>6. Len(f) = n
      BY <3>5, SeqFunction
    <3> QED
      BY <1>1, <3>2, <3>3, <3>4, <3>6 DEF HandleFragment
  <2> QED
    BY <2>1 DEF OneAtMost, Kept, Signatures
<1>2. CASE UNCHANGED <<infos, jobs, answered>>
  BY <1>2 DEF OneAtMost, Kept, Signatures
<1>3. CASE Ignore \/ Send \/ UNCHANGED vars
  BY <1>2, <1>3, Zenon DEF Ignore, Send, vars, server, logs
<1>4. CASE \E s \in Signatures : Leave(s)
  BY <1>2, <1>4 DEF Leave, logs
<1>5. CASE \E copy \in flight.copies : Repeat(copy) \/ Lose(copy) \/ Arrive(copy)
  BY <1>2, <1>5 DEF Repeat, Lose, Arrive, server, logs
<1> QED
  BY <1>1, <1>3, <1>4, <1>5, ConnectedOne, HandledOne, EndedOne DEF Next, Work
-----------------------------------------------------------------------------
(***************************************************************************)
(* The packets of the answers: each is one that a client can read, sent to *)
(* where a request on its connection came from.                            *)
(***************************************************************************)
Sources(js, s) == {js[j].from : j \in {k \in DOMAIN js : js[k].client = s}}

ArePackets(log, sources) ==
  \A i \in 1 .. Len(log) : IsServerPacket(log[i]) /\ log[i].to \in sources

PacketsInv == \A s \in Signatures : ArePackets(answered[s], Sources(jobs, s))

LEMMA SourcesGrow ==
  ASSUME JobsInv, [Next]_vars, NEW s
  PROVE  Sources(jobs, s) \subseteq Sources(jobs', s)
BY JobsGrow DEF Sources, KeepsJob

LEMMA PacketsConcat ==
  ASSUME NEW log, IsSeq(log), NEW sources, ArePackets(log, sources),
         NEW s, NEW job, IsSeq(job.response), HasHandler(job.header), job.from \in sources
  PROVE  ArePackets(log \o Fragmented(s, job), sources)
<1>1. PICK part : part = Fragmented(s, job)
  OBVIOUS
<1>2. /\ IsSeq(part)
      /\ \A i \in 1 .. Len(part) : IsServerPacket(part[i]) /\ part[i].to = job.from
  BY <1>1, FragmentedPackets
<1>3. /\ Len(log) \in Nat /\ Len(part) \in Nat /\ Len(log \o part) = Len(log) + Len(part)
      /\ \A i \in 1 .. Len(log) + Len(part) :
           (log \o part)[i] = IF i <= Len(log) THEN log[i] ELSE part[i - Len(log)]
  BY <1>2, SeqDomain, SeqConcat
<1>4. ASSUME NEW i \in 1 .. Len(log) + Len(part)
      PROVE  IsServerPacket((log \o part)[i]) /\ (log \o part)[i].to \in sources
  <2>1. CASE i <= Len(log)
    <3>1. i \in 1 .. Len(log) /\ (log \o part)[i] = log[i]
      BY <1>3, <2>1
    <3> QED
      BY <3>1 DEF ArePackets
  <2>2. CASE ~(i <= Len(log))
    <3>1. i - Len(log) \in 1 .. Len(part) /\ (log \o part)[i] = part[i - Len(log)]
      BY <1>3, <2>2
    <3> QED
      BY <1>2, <3>1
  <2> QED
    BY <2>1, <2>2
<1> QED
  BY <1>1, <1>3, <1>4 DEF ArePackets

LEMMA PacketsStep ==
  ASSUME JobsInv, Inv, PacketsInv, [Next]_vars, AnswersAreMessages'
  PROVE  PacketsInv'
<1> SUFFICES ASSUME NEW s \in Signatures'
             PROVE  ArePackets(answered'[s], Sources(jobs', s))
  BY DEF PacketsInv
<1>1. CASE Fresh(s)
  BY <1>1, SeqEmpty DEF Fresh, ArePackets
<1>2. CASE Kept(s)
  BY <1>2, SourcesGrow DEF Kept, PacketsInv, ArePackets
<1>3. ASSUME NEW job, NEW j, AnsweredOne(s, job, j)
      PROVE  ArePackets(answered'[s], Sources(jobs', s))
  <2>1. IsSeq(answered[s])
    BY <1>3 DEF AnsweredOne, Inv, IsLogOf
  <2>2. ArePackets(answered[s], Sources(jobs', s))
    BY <1>3, SourcesGrow DEF AnsweredOne, PacketsInv, ArePackets
  <2>3. job.from \in Sources(jobs', s)
    BY <1>3 DEF AnsweredOne, Sources
  <2> QED
    BY <1>3, <2>1, <2>2, <2>3, PacketsConcat DEF AnsweredOne
<1> QED
  BY <1>1, <1>2, <1>3, StepOfOne DEF OneAtMost

-----------------------------------------------------------------------------
(***************************************************************************)
(* What the client collects of its answers: as many messages as there are  *)
(* jobs answered on its connection.                                        *)
(***************************************************************************)
OnceInv ==
  \A s \in Signatures :
    IsCollected(Collected(answered[s]), Cardinality(Settled(jobs, s)))

LEMMA OnceStep ==
  ASSUME JobsInv, Inv, OnceInv, [Next]_vars, AnswersAreMessages', AnswersHaveFragmentIds'
  PROVE  OnceInv'
<1> SUFFICES ASSUME NEW s \in Signatures'
             PROVE  IsCollected(Collected(answered'[s]), Cardinality(Settled(jobs', s)))
  BY DEF OnceInv
<1>1. CASE Fresh(s)
  BY <1>1, NothingCollected, FS_EmptySet DEF Fresh
<1>2. CASE Kept(s)
  BY <1>2 DEF Kept, OnceInv
<1>3. ASSUME NEW job, NEW j, AnsweredOne(s, job, j)
      PROVE  IsCollected(Collected(answered'[s]), Cardinality(Settled(jobs', s)))
  <2>1. PICK log : log = answered[s]
    OBVIOUS
  <2>2. PICK count : count = Cardinality(Settled(jobs, s))
    OBVIOUS
  <2>3. IsSeq(log) /\ IsCollected(Collected(log), count)
    BY <1>3, <2>1, <2>2 DEF AnsweredOne, Inv, IsLogOf, OnceInv
  <2>4. Cardinality(Settled(jobs', s)) = count + 1
    <3>1. PICK n \in Nat : n = Len(jobs) /\ DOMAIN jobs = 1 .. n
      BY SeqDomain DEF JobsInv
    <3>2. IsFiniteSet(1 .. n) /\ Settled(jobs, s) \subseteq 1 .. n
      BY <3>1, IntervalIsFinite DEF Settled
    <3>3. IsFiniteSet(Settled(jobs, s))
      BY <3>2, FS_Subset
    <3>4. PICK T : T = Settled(jobs, s)
      OBVIOUS
    <3>5. j \notin T /\ Settled(jobs', s) = T \union {j}
      BY <1>3, <3>4 DEF AnsweredOne
    <3>6. Cardinality(T \union {j}) = Cardinality(T) + 1
      BY <3>3, <3>4, <3>5, FS_AddElement
    <3> QED
      BY <2>2, <3>4, <3>5, <3>6
  <2>5. PICK part : part = Fragmented(s, job)
    OBVIOUS
  <2>6. PICK n : n = Count(job.response)
    OBVIOUS
  <2>7. n \in 1 .. FragmentIdSpace
    BY <1>3, <2>6 DEF AnsweredOne, AnswersHaveFragmentIds, Count
  <2>8. /\ IsSeq(part) /\ Len(part) = n
        /\ \A i \in 1 .. n : IsServerPacket(part[i]) /\ part[i].fragmentId = n - i
    BY <1>3, <2>5, <2>6, FragmentedPackets DEF AnsweredOne
  <2>9. ASSUME NEW i \in 1 .. n
        PROVE  Received(part[i]).fragmentId = n - i
    <3>1. Received(part[i]).fragmentId = (n - i) % FragmentIdSpace
      BY <2>8, ReceivedPacket
    <3>2. (n - i) % FragmentIdSpace = n - i
      <4>1. n - i \in 0 .. FragmentIdSpace - 1 /\ FragmentIdSpace \in Nat \ {0}
        BY <2>7, PacketAssumption
      <4> QED
        BY <4>1
    <3> QED
      BY <3>1, <3>2
  <2>10. IsCollected(Collected(log \o part), count + 1)
    BY <2>3, <2>7, <2>8, <2>9, OneMoreMessage, SMTT(30)
  <2> QED
    BY <1>3, <2>1, <2>4, <2>5, <2>10 DEF AnsweredOne
<1> QED
  BY <1>1, <1>2, <1>3, StepOfOne DEF OneAtMost
-----------------------------------------------------------------------------
(***************************************************************************)
(* The probes sent to each client, on the counter of its own.              *)
(***************************************************************************)
AreProbesOf(info, log) ==
  /\ IsSeq(log)
  /\ info.clientSequenceId = (Len(log) + 1) % SequenceSpace
  /\ \A i \in 1 .. Len(log) : IsServerPacket(log[i]) /\ log[i].sequence = i % SequenceSpace

ProbesInv ==
  /\ IsSeq(probed) /\ Len(probed) = Len(infos)
  /\ \A s \in Signatures : AreProbesOf(infos[s], probed[s])

LEMMA ProbeIsServerPacket ==
  ASSUME NEW s, NEW data, FitsPacket(data), NEW n
  PROVE  /\ IsServerPacket(ProbePacket(s, data, n))
         /\ ProbePacket(s, data, n).sequence = (infos[s].clientSequenceId + n - 1) % SequenceSpace
<1>1. PICK p : p = ProbePacket(s, data, n)
  OBVIOUS
<1>2. /\ p.source = VPort(1, RVSec) /\ p.packetType = "data" /\ p.flags = ServerFlags
      /\ p.useCompression = TRUE /\ p.fragmentId = 0 /\ p.payload = data
      /\ p.sequence = (infos[s].clientSequenceId + n - 1) % SequenceSpace
  BY <1>1 DEF ProbePacket
<1>3. IsServerPacket(p)
  BY <1>2 DEF IsServerPacket, FitsPacket
<1> QED
  BY <1>1, <1>2, <1>3

LEMMA ProbesConcat ==
  ASSUME NEW s, NEW log, AreProbesOf(infos[s], log), NEW more, AreProbesTo(s, more),
         NEW other, other.clientSequenceId = (infos[s].clientSequenceId + Len(more)) % SequenceSpace
  PROVE  AreProbesOf(other, log \o more)
<1>1. IsSeq(log) /\ IsSeq(more)
  BY DEF AreProbesOf, AreProbesTo
<1>2. PICK l \in Nat : l = Len(log)
  BY <1>1, SeqDomain
<1>3. PICK m \in Nat : m = Len(more)
  BY <1>1, SeqDomain
<1>4. PICK next : next = infos[s].clientSequenceId
  OBVIOUS
<1>5. next = (l + 1) % SequenceSpace
  BY <1>2, <1>4 DEF AreProbesOf
<1>6. /\ IsSeq(log \o more) /\ Len(log \o more) = l + m
      /\ \A i \in 1 .. l + m : (log \o more)[i] = IF i <= l THEN log[i] ELSE more[i - l]
  BY <1>1, <1>2, <1>3, SeqConcat
<1>7. SequenceSpace \in Nat \ {0}
  BY ExchangeAssumption
<1>8. other.clientSequenceId = (l + m + 1) % SequenceSpace
  <2>1. other.clientSequenceId = (((l + 1) % SequenceSpace) + m) % SequenceSpace
    BY <1>3, <1>4, <1>5
  <2>2. l + 1 \in Nat /\ l + 1 + m = l + m + 1
    OBVIOUS
  <2>3. (((l + 1) % SequenceSpace) + m) % SequenceSpace = (l + 1 + m) % SequenceSpace
    BY <1>7, <2>2, ModAdd
  <2> QED
    BY <2>1, <2>2, <2>3
<1>9. ASSUME NEW k \in 1 .. m
      PROVE  IsServerPacket(more[k]) /\ more[k].sequence = (l + k) % SequenceSpace
  <2>1. PICK data : FitsPacket(data) /\ more[k] = ProbePacket(s, data, k)
    BY <1>3 DEF AreProbesTo
  <2>2. IsServerPacket(more[k]) /\ more[k].sequence = (next + k - 1) % SequenceSpace
    BY <1>4, <2>1, ProbeIsServerPacket, ZenonT(40)
  <2>3. l + 1 \in Nat /\ k - 1 \in Nat /\ l + 1 + (k - 1) = l + k
    OBVIOUS
  <2>4. (((l + 1) % SequenceSpace) + (k - 1)) % SequenceSpace = (l + 1 + (k - 1)) % SequenceSpace
    BY <1>7, <2>3, ModAdd
  <2>5. next \in Int /\ next + k - 1 = next + (k - 1)
    BY <1>5, <1>7, <2>3
  <2> QED
    BY <1>5, <2>2, <2>3, <2>4, <2>5
<1>10. ASSUME NEW i \in 1 .. l + m
       PROVE  /\ IsServerPacket((log \o more)[i])
              /\ (log \o more)[i].sequence = i % SequenceSpace
  <2>1. CASE i <= l
    <3>1. i \in 1 .. l /\ (log \o more)[i] = log[i]
      BY <1>6, <2>1
    <3> QED
      BY <1>2, <3>1 DEF AreProbesOf
  <2>2. CASE ~(i <= l)
    <3>1. i - l \in 1 .. m /\ (log \o more)[i] = more[i - l] /\ l + (i - l) = i
      BY <1>6, <2>2
    <3> QED
      BY <1>9, <3>1
  <2> QED
    BY <2>1, <2>2
<1> QED
  BY <1>6, <1>8, <1>10 DEF AreProbesOf

LEMMA ConnectProbes ==
  ASSUME Inv, ProbesInv, Connect
  PROVE  ProbesInv'
<1>1. PICK info : infos' = Append(infos, info) /\ info.clientSequenceId = 1 % SequenceSpace
  <2>1. PICK guest, id : infos' = Append(infos, ClientInfo(guest, id))
    BY DEF Connect
  <2>2. ClientInfo(guest, id).clientSequenceId = 1 % SequenceSpace
    BY DEF ClientInfo
  <2> QED
    BY <2>1, <2>2
<1>2. probed' = Append(probed, << >>)
  BY DEF Connect
<1>3. IsSeq(infos) /\ Len(infos) \in Nat /\ IsSeq(probed) /\ Len(probed) = Len(infos)
  BY SeqDomain DEF Inv, ProbesInv
<1>4. /\ Len(infos') = Len(infos) + 1
      /\ \A s \in Signatures : infos'[s] = infos[s]
      /\ infos'[Len(infos) + 1] = info
  BY <1>1, <1>3, SeqAppend DEF Signatures
<1>5. /\ IsSeq(probed') /\ Len(probed') = Len(infos) + 1
      /\ \A s \in Signatures : probed'[s] = probed[s]
      /\ probed'[Len(infos) + 1] = << >>
  BY <1>2, <1>3, SeqAppend DEF Signatures
<1>6. Signatures' = Signatures \union {Len(infos) + 1}
  BY <1>3, <1>4 DEF Signatures
<1>7. AreProbesOf(info, << >>)
  BY <1>1, SeqEmpty DEF AreProbesOf
<1>8. \A s \in Signatures' : AreProbesOf(infos'[s], probed'[s])
  BY <1>4, <1>5, <1>6, <1>7 DEF ProbesInv
<1> QED
  BY <1>4, <1>5, <1>8 DEF ProbesInv

LEMMA HandleProbes ==
  ASSUME Inv, ProbesInv, HandleMessage, ProbesFit'
  PROVE  ProbesInv'
<1>0. PICK s \in Signatures : \E job : TookMessage(s, job)
  BY HandleStep
<1>1. PICK job : TookMessage(s, job)
  BY <1>0
<1>2. /\ Len(jobs) \in Nat /\ DOMAIN jobs' = 1 .. Len(jobs) + 1
      /\ jobs'[Len(jobs) + 1] = job
  BY <1>1, HandledJobs DEF Inv
<1>3. PICK sent : sent = ProbePackets(job.probes)
  OBVIOUS
<1>4. AreProbes(sent)
  <2>1. IsSeq(job.probes) /\ \A n \in DOMAIN job.probes : FitsPacket(job.probes[n].data)
    BY <1>2 DEF ProbesFit
  <2> QED
    BY <1>3, <2>1, ProbesFitPackets
<1>5. /\ probed' = [c \in Signatures |-> probed[c] \o sent[c]]
      /\ Len(infos') = Len(infos)
      /\ \A c \in Signatures :
           infos'[c].clientSequenceId
             = (infos[c].clientSequenceId + Len(sent[c])) % SequenceSpace
  BY <1>1, <1>3 DEF TookMessage
<1>6. IsSeq(probed') /\ Len(probed') = Len(infos)
  <2>1. PICK n \in Nat : n = Len(infos)
    BY SeqDomain DEF Inv
  <2>2. PICK f : f = probed'
    OBVIOUS
  <2>3. DOMAIN f = 1 .. n /\ f = [i \in 1 .. n |-> f[i]]
    BY <1>5, <2>1, <2>2 DEF Signatures
  <2>4. IsSeq(f) /\ Len(f) = n
    BY <2>3, SeqFunction
  <2> QED
    BY <2>1, <2>2, <2>4
<1>7. ASSUME NEW c \in Signatures
      PROVE  AreProbesOf(infos'[c], probed'[c])
  <2>1. AreProbesOf(infos[c], probed[c]) /\ AreProbesTo(c, sent[c])
    BY <1>4 DEF ProbesInv, AreProbes
  <2>2. PICK other : other = infos'[c]
    OBVIOUS
  <2>3. other.clientSequenceId = (infos[c].clientSequenceId + Len(sent[c])) % SequenceSpace
    BY <1>5, <2>2
  <2>4. AreProbesOf(other, probed[c] \o sent[c])
    BY <2>1, <2>3, ProbesConcat
  <2> QED
    BY <1>5, <2>2, <2>4
<1>8. Signatures' = Signatures
  BY <1>5 DEF Signatures
<1> QED
  BY <1>5, <1>6, <1>7, <1>8 DEF ProbesInv

\* A step that changes neither the probes nor what counts them.
LEMMA OtherProbes ==
  ASSUME ProbesInv, UNCHANGED probed, Len(infos') = Len(infos),
         \A s \in Signatures : infos'[s].clientSequenceId = infos[s].clientSequenceId
  PROVE  ProbesInv'
BY DEF ProbesInv, AreProbesOf, Signatures

LEMMA FragmentProbes ==
  ASSUME Inv, ProbesInv, HandleFragment
  PROVE  ProbesInv'
<1>1. PICK s \in Signatures : s = Sender
  BY DEF HandleFragment, Inv
<1>2. PICK e : infos' = [infos EXCEPT ![s] = [infos[s] EXCEPT !.packetFragments = e]]
  BY <1>1 DEF HandleFragment
<1>3. PICK other : other = [infos[s] EXCEPT !.packetFragments = e]
  OBVIOUS
<1>4. DOMAIN infos[s] = InfoFields
  BY DEF Inv, IsLogOf
<1>5. other.clientSequenceId = infos[s].clientSequenceId
  BY <1>3, <1>4 DEF InfoFields
<1>6. PICK q : q = infos
  OBVIOUS
<1>7. /\ Len([q EXCEPT ![s] = other]) = Len(q)
      /\ [q EXCEPT ![s] = other][s] = other
      /\ \A i \in 1 .. Len(q) : i # s => [q EXCEPT ![s] = other][i] = q[i]
  <2>1. IsSeq(q) /\ s \in 1 .. Len(q)
    BY <1>6 DEF Inv, Signatures
  <2> QED
    BY <2>1, SeqExcept
<1>8. /\ Len(infos') = Len(infos)
      /\ \A c \in Signatures : infos'[c].clientSequenceId = infos[c].clientSequenceId
  BY <1>2, <1>3, <1>5, <1>6, <1>7 DEF Signatures
<1> QED
  BY <1>8, OtherProbes DEF HandleFragment

LEMMA FinishProbes ==
  ASSUME Inv, ProbesInv, NEW j \in DOMAIN jobs, Finish(j)
  PROVE  ProbesInv'
<1>0. PICK s \in Signatures : \E job : Ended(s, job, j)
  BY FinishStep
<1>1. PICK job : Ended(s, job, j)
  BY <1>0
<1>2. DOMAIN infos[s] = InfoFields
  BY DEF Inv, IsLogOf
<1>3. PICK a, b : infos'[s] = [infos[s] EXCEPT !.serverSequenceId = a, !.userId = b]
  <2>1. infos'[s] = [infos[s] EXCEPT !.serverSequenceId = NextSequenceId(s, job),
                                     !.userId = LoginOf(s, job)]
    BY <1>1 DEF Ended
  <2> QED
    BY <2>1, Zenon
<1>4. infos'[s].clientSequenceId = infos[s].clientSequenceId
  BY <1>2, <1>3 DEF InfoFields
<1>5. /\ UNCHANGED probed /\ Len(infos') = Len(infos)
      /\ \A c \in Signatures : c # s => infos'[c] = infos[c]
  BY <1>1 DEF Ended
<1> QED
  BY <1>4, <1>5, OtherProbes

LEMMA ProbesStep ==
  ASSUME Inv, ProbesInv, [Next]_vars, ProbesFit'
  PROVE  ProbesInv'
<1>1. CASE UNCHANGED <<infos, probed>>
  BY <1>1, OtherProbes
<1>2. CASE Ignore \/ Send \/ UNCHANGED vars
  BY <1>1, <1>2, Zenon DEF Ignore, Send, vars, server, logs
<1>3. CASE \E s \in Signatures : Leave(s)
  BY <1>1, <1>3 DEF Leave, logs
<1>4. CASE \E copy \in flight.copies : Repeat(copy) \/ Lose(copy) \/ Arrive(copy)
  BY <1>1, <1>4 DEF Repeat, Lose, Arrive, server, logs
<1> QED
  BY <1>2, <1>3, <1>4, ConnectProbes, HandleProbes, FragmentProbes, FinishProbes DEF Next, Work
-----------------------------------------------------------------------------
(***************************************************************************)
(* The theorems.  What a property needs of the handler is a condition on   *)
(* the jobs so far: no assumption is made on what Handle is.               *)
(***************************************************************************)
\* The inductive invariant.
ExchangeInv ==
  /\ JobsInv
  /\ AnswersAreMessages => Inv /\ PacketsInv
  /\ AnswersAreMessages /\ AnswersHaveFragmentIds => OnceInv
  /\ AnswersAreMessages /\ ProbesFit => ProbesInv

LEMMA InitExchange == Init => ExchangeInv
<1> SUFFICES ASSUME Init PROVE ExchangeInv
  OBVIOUS
<1>1. Inv
  BY InitInv
<1>2. infos = << >> /\ jobs = << >> /\ probed = << >>
  BY DEF Init
<1>3. Signatures = {} /\ DOMAIN jobs = {} /\ IsSeq(jobs) /\ IsSeq(probed) /\ Len(probed) = Len(infos)
  BY <1>2, SeqEmpty, SeqDomain DEF Signatures
<1> QED
  BY <1>1, <1>3 DEF ExchangeInv, JobsInv, PacketsInv, OnceInv, ProbesInv

LEMMA NextExchange ==
  ASSUME ExchangeInv, [Next]_vars
  PROVE  ExchangeInv'
<1>1. JobsInv /\ JobsInv'
  BY JobsGrow DEF ExchangeInv
<1>2. /\ AnswersAreMessages' => AnswersAreMessages
      /\ ProbesFit' => ProbesFit
      /\ AnswersHaveFragmentIds' => AnswersHaveFragmentIds
  BY <1>1, SupposedBefore
<1>3. ASSUME AnswersAreMessages' PROVE Inv' /\ PacketsInv'
  BY <1>1, <1>2, <1>3, NextInv, PacketsStep DEF ExchangeInv
<1>4. ASSUME AnswersAreMessages', AnswersHaveFragmentIds' PROVE OnceInv'
  BY <1>1, <1>2, <1>4, OnceStep DEF ExchangeInv
<1>5. ASSUME AnswersAreMessages', ProbesFit' PROVE ProbesInv'
  BY <1>1, <1>2, <1>5, ProbesStep DEF ExchangeInv
<1> QED
  BY <1>1, <1>3, <1>4, <1>5 DEF ExchangeInv

LEMMA ExchangeIsInvariant == Spec => []ExchangeInv
<1> QED
  BY InitExchange, NextExchange, PTL DEF Spec

\* However the handlers of several clients interleave, and whenever they finish: if
\* what they answer are messages, the fragments of each answer leave one after the
\* other, count down to 0 and go to one address, on consecutive sequence ids.
THEOREM AnswersStayUnbroken == Spec => [](AnswersAreMessages => AnswersAreUnbroken)
<1>1. ExchangeInv => (AnswersAreMessages => AnswersAreUnbroken)
  BY DEF ExchangeInv, Inv, IsLogOf, AnswersAreUnbroken
<1> QED
  BY <1>1, ExchangeIsInvariant, PTL

\* Each job that was answered is one message at its client, and nothing else is: with
\* no more fragments in an answer than there are fragment ids, a client that collects
\* the packets as the tests do gets each answer once and whole.
THEOREM EachJobIsAnsweredOnce ==
  Spec => [](AnswersAreMessages /\ AnswersHaveFragmentIds => AnswersAreSentOnce)
<1>1. ASSUME ExchangeInv, AnswersAreMessages, AnswersHaveFragmentIds
      PROVE  AnswersAreSentOnce
  <2> SUFFICES ASSUME NEW s \in Signatures
               PROVE  Len(Messages(answered[s])) =
                        Cardinality({j \in JobsOf(s) : jobs[j].answered /\ ~jobs[j].pending})
    BY DEF AnswersAreSentOnce
  <2>1. IsCollected(Collected(answered[s]), Cardinality(Settled(jobs, s)))
    BY <1>1 DEF ExchangeInv, OnceInv
  <2>2. Len(Collected(answered[s]).messages) = Cardinality(Settled(jobs, s))
    BY <2>1 DEF IsCollected
  <2>3. Messages(answered[s]) = Collected(answered[s]).messages
    BY DEF Messages, Collected, Nothing
  <2>4. Settled(jobs, s) = {j \in JobsOf(s) : jobs[j].answered /\ ~jobs[j].pending}
    BY DEF Settled, JobsOf
  <2> QED
    BY <2>2, <2>3, <2>4
<1> QED
  BY <1>1, ExchangeIsInvariant, PTL

\* The sequence ids a client reads are consecutive in the answers and in the probes,
\* each on a counter of their own, also across the wrap: one probe more, or an answer
\* of several fragments, never leaves a hole or a repetition.
THEOREM SequencesStayConsecutive ==
  Spec => [](AnswersAreMessages /\ ProbesFit => SequencesAreConsecutive)
<1>1. ASSUME ExchangeInv, AnswersAreMessages, ProbesFit
      PROVE  SequencesAreConsecutive
  <2>1. Inv /\ PacketsInv /\ ProbesInv
    BY <1>1 DEF ExchangeInv
  <2>2. ASSUME NEW log, IsSeq(log),
               \A i \in 1 .. Len(log) : IsServerPacket(log[i]) /\ log[i].sequence = i % SequenceSpace
        PROVE  Consecutive(log)
    <3>1. DOMAIN log = 1 .. Len(log)
      BY <2>2, SeqDomain
    <3>2. ASSUME NEW i \in 1 .. Len(log)
          PROVE  Received(log[i]).header.sequence = i % SequenceSpace
      BY <2>2, ReceivedPacket, ServerHeader
    <3> QED
      BY <3>1, <3>2 DEF Consecutive
  <2>3. ASSUME NEW s \in Signatures
        PROVE  Consecutive(answered[s]) /\ Consecutive(probed[s])
    <3>1. IsSeq(answered[s]) /\ IsUnbroken(answered[s], infos[s])
      BY <2>1 DEF Inv, IsLogOf
    <3>2. \A i \in 1 .. Len(answered[s]) :
            IsServerPacket(answered[s][i]) /\ answered[s][i].sequence = i % SequenceSpace
      BY <2>1, <3>1, SeqDomain DEF PacketsInv, ArePackets, IsUnbroken
    <3> QED
      BY <2>1, <2>2, <3>1, <3>2 DEF ProbesInv, AreProbesOf
  <2> QED
    BY <2>3 DEF SequencesAreConsecutive
<1> QED
  BY <1>1, ExchangeIsInvariant, PTL

\* What a client reads of an answer carries the signature and the session of its own
\* connection, and the answer goes to where a request on that connection came from:
\* also when it comes long after the client has left and another has its address.
THEOREM AnswersKeepTheirSession ==
  Spec => [](AnswersAreMessages => LateAnswersKeepTheirSession)
<1>1. ASSUME ExchangeInv, AnswersAreMessages
      PROVE  LateAnswersKeepTheirSession
  <2> SUFFICES ASSUME NEW s \in Signatures, NEW i \in DOMAIN answered[s]
               PROVE  /\ BelongsTo(Received(answered[s][i]).header, infos[s])
                      /\ \E j \in JobsOf(s) : answered[s][i].to = jobs[j].from
    BY DEF LateAnswersKeepTheirSession
  <2>1. Inv /\ PacketsInv
    BY <1>1 DEF ExchangeInv
  <2>2. PICK p : p = answered[s][i]
    OBVIOUS
  <2>3. i \in 1 .. Len(answered[s]) /\ IsUnbroken(answered[s], infos[s])
    BY <2>1, SeqDomain DEF Inv, IsLogOf
  <2>4. IsServerPacket(p) /\ p.to \in Sources(jobs, s)
    BY <2>1, <2>2, <2>3 DEF PacketsInv, ArePackets
  <2>5. p.signature = infos[s].clientSignature /\ p.sessionId = infos[s].serverSession
    BY <2>2, <2>3 DEF IsUnbroken
  <2>6. Received(p).header.signature = p.signature /\ Received(p).header.sessionId = p.sessionId
    BY <2>4, ReceivedPacket, ServerHeader
  <2>7. \E j \in JobsOf(s) : p.to = jobs[j].from
    BY <2>4 DEF Sources, JobsOf
  <2> QED
    BY <2>2, <2>5, <2>6, <2>7 DEF BelongsTo
<1> QED
  BY <1>1, ExchangeIsInvariant, PTL

-----------------------------------------------------------------------------
(***************************************************************************)
(* Requests and responses are read as they were written.                   *)
(***************************************************************************)
LEMMA NumberIsRead ==
  ASSUME NEW w, NEW n, NEW q, IsSeq(q)
  PROVE  /\ IsSeq(<<Number(w, n)>> \o q) /\ Len(<<Number(w, n)>> \o q) = Len(q) + 1
         /\ (<<Number(w, n)>> \o q)[1] = Number(w, n)
         /\ ReadNumber(w, <<Number(w, n)>> \o q) = Got(n, q)
<1>1. PICK x : x = Number(w, n)
  OBVIOUS
<1>2. PICK r : r = <<x>> \o q
  OBVIOUS
<1>3. IsSeq(r) /\ Len(r) = Len(q) + 1 /\ r[1] = x /\ Tail(r) = q
  BY <1>2, SeqCons
<1>4. Len(q) \in Nat
  BY SeqDomain
<1>5. Len(r) > 0
  BY <1>3, <1>4
<1>6. "w" \in DOMAIN x /\ x.w = w /\ x.n = n
  BY <1>1 DEF Number
<1>7. ReadNumber(w, r) = Got(n, q)
  BY <1>3, <1>5, <1>6 DEF ReadNumber
<1> QED
  BY <1>1, <1>2, <1>3, <1>7

\* The bit that marks a request or a response is set and taken away.
LEMMA BitIsRead ==
  ASSUME NEW n \in Nat, NEW bit \in Nat \ {0}, n < bit
  PROVE  /\ WithBit(n, bit) = n + bit
         /\ HasBit(n + bit, bit)
         /\ WithoutBit(n + bit, bit) = n
<1>1. n \div bit = 0
  <2>1. n \div bit \in Int /\ n % bit \in 0 .. bit - 1 /\ n = bit * (n \div bit) + (n % bit)
    BY ModParts
  <2>2. PICK d \in Int : d = n \div bit
    BY <2>1
  <2>3. PICK r \in 0 .. bit - 1 : r = n % bit
    BY <2>1
  <2>4. n = bit * d + r
    BY <2>1, <2>2, <2>3
  <2>5. d >= 1 => bit * d >= bit
    OBVIOUS
  <2>6. d <= -1 => bit * d <= -bit
    OBVIOUS
  <2>7. d = 0
    BY <2>4, <2>5, <2>6
  <2> QED
    BY <2>2, <2>7
<1>2. (n + bit) \div bit = 1
  <2>1. n + bit \in Nat
    OBVIOUS
  <2>2. PICK m \in Nat : m = n + bit
    BY <2>1
  <2>3. m \div bit \in Int /\ m % bit \in 0 .. bit - 1 /\ m = bit * (m \div bit) + (m % bit)
    BY ModParts
  <2>4. PICK d \in Int : d = m \div bit
    BY <2>3
  <2>5. PICK r \in 0 .. bit - 1 : r = m % bit
    BY <2>3
  <2>6. m = bit * d + r
    BY <2>3, <2>4, <2>5
  <2>7. d >= 2 => bit * d >= bit + bit
    OBVIOUS
  <2>8. d <= 0 => bit * d <= 0
    OBVIOUS
  <2>9. d = 1
    BY <2>2, <2>6, <2>7, <2>8
  <2> QED
    BY <2>2, <2>4, <2>9
<1>3. ~HasBit(n, bit)
  BY <1>1 DEF HasBit
<1>4. HasBit(n + bit, bit)
  BY <1>2 DEF HasBit
<1> QED
  BY <1>3, <1>4 DEF WithBit, WithoutBit

LEMMA GotIs ==
  ASSUME NEW value, NEW rest
  PROVE  Got(value, rest).ok /\ Got(value, rest).value = value /\ Got(value, rest).rest = rest
BY DEF Got

\* Three cells, or four, and the rest of a message.
LEMMA ThreeCells ==
  ASSUME NEW q, IsSeq(q)
  PROVE  \A a, b, c : (<<a>> \o <<b, c>>) \o q = <<a>> \o (<<b>> \o (<<c>> \o q))
<1> SUFFICES ASSUME NEW a, NEW b, NEW c
             PROVE  (<<a>> \o <<b, c>>) \o q = <<a>> \o (<<b>> \o (<<c>> \o q))
  BY Zenon
<1>1. IsSeq(<<a>>) /\ IsSeq(<<b>>) /\ IsSeq(<<c>>) /\ IsSeq(<<b, c>>) /\ <<b, c>> = <<b>> \o <<c>>
  BY SeqSingle, PairIsConcat
<1>2. PICK A, B, C, BC : A = <<a>> /\ B = <<b>> /\ C = <<c>> /\ BC = <<b, c>>
  OBVIOUS
<1>3. IsSeq(A) /\ IsSeq(B) /\ IsSeq(C) /\ IsSeq(BC) /\ BC = B \o C
  BY <1>1, <1>2
<1>4. (A \o BC) \o q = A \o (BC \o q)
  <2>1. IsSeq(A) /\ IsSeq(BC) /\ IsSeq(q)
    BY <1>3
  <2> QED
    BY <2>1, ConcatIsAssociative
<1>5. (B \o C) \o q = B \o (C \o q)
  <2>1. IsSeq(B) /\ IsSeq(C) /\ IsSeq(q)
    BY <1>3
  <2> QED
    BY <2>1, ConcatIsAssociative
<1>6. (A \o BC) \o q = A \o (B \o (C \o q))
  BY <1>3, <1>4, <1>5
<1> QED
  BY <1>2, <1>6

LEMMA RequestIsRead ==
  ASSUME NEW r, r = [type |-> "request", protocolId |-> r.protocolId, callId |-> r.callId,
                     methodId |-> r.methodId, parameters |-> r.parameters],
         IsProtocolId(r.protocolId), IsSeq(r.parameters)
  PROVE  ParseRmcPacket(EncodeRmcRequest(r)) = Got(r, << >>)
<1>1. PICK id : id = r.protocolId
  OBVIOUS
<1>2. PICK c : c = r.callId
  OBVIOUS
<1>3. PICK m : m = r.methodId
  OBVIOUS
<1>4. PICK q : q = r.parameters /\ IsSeq(q)
  OBVIOUS
<1>5. PICK q1 : q1 = <<Number(4, m)>> \o q
  OBVIOUS
<1>6. PICK q2 : q2 = <<Number(4, c)>> \o q1
  OBVIOUS
<1>7. /\ IsSeq(q1) /\ Len(q1) = Len(q) + 1 /\ ReadNumber(4, q1) = Got(m, q)
  BY <1>4, <1>5, NumberIsRead
<1>8. /\ IsSeq(q2) /\ Len(q2) = Len(q1) + 1 /\ ReadNumber(4, q2) = Got(c, q1)
  BY <1>6, <1>7, NumberIsRead
<1>9. PICK size : size = Len(RequestId(id) \o <<Number(4, c), Number(4, m)>> \o q)
  OBVIOUS
<1>10. PICK body : body = RequestId(id) \o <<Number(4, c), Number(4, m)>> \o q
  OBVIOUS
<1>11. /\ IsSeq(body) /\ Len(body) >= 1 /\ "w" \in DOMAIN body[1] /\ HasBit(body[1].n, 128)
       /\ ReadId(255, body) = Got(IF body[1].n = 255 THEN id ELSE WithBit(id, 128), q2)
       /\ (body[1].n # 255 => id \in 0 .. 126)
  <2>1. CASE id \in 0 .. 126
    <3>1. id < 255 /\ id < 128 /\ id \in Nat
      BY <2>1
    <3>2. PICK n : n = WithBit(id, 128)
      OBVIOUS
    <3>3. n = id + 128 /\ HasBit(n, 128) /\ n # 255
      BY <2>1, <3>1, <3>2, BitIsRead
    <3>4. RequestId(id) = <<Number(1, n)>>
      BY <3>1, <3>2 DEF RequestId
    <3>5. body = <<Number(1, n)>> \o q2
      <4>1. PICK a, b, e : a = Number(1, n) /\ b = Number(4, c) /\ e = Number(4, m)
        OBVIOUS
      <4>2. (<<a>> \o <<b, e>>) \o q = <<a>> \o (<<b>> \o (<<e>> \o q))
        <5>1. IsSeq(q)
          BY <1>4
        <5>2. \A x, y, z : (<<x>> \o <<y, z>>) \o q = <<x>> \o (<<y>> \o (<<z>> \o q))
          BY <5>1, ThreeCells, Zenon
        <5>3. \A y, z : (<<a>> \o <<y, z>>) \o q = <<a>> \o (<<y>> \o (<<z>> \o q))
          BY <5>2, Zenon
        <5> QED
          BY <5>3
      <4> QED
        BY <1>5, <1>6, <1>10, <3>4, <4>1, <4>2
    <3>6. /\ IsSeq(body) /\ Len(body) = Len(q2) + 1 /\ body[1] = Number(1, n)
          /\ ReadNumber(1, body) = Got(n, q2)
      BY <1>8, <3>5, NumberIsRead
    <3>7. "w" \in DOMAIN body[1] /\ body[1].n = n
      BY <3>6 DEF Number
    <3>8. ReadId(255, body) = Got(n, q2)
      <4>1. ReadId(255, body) = IF n = 255 THEN ReadNumber(2, q2) ELSE Got(n, q2)
        BY <3>6, GotIs DEF ReadId, Then
      <4> QED
        BY <3>3, <4>1
    <3>9. Len(body) >= 1
      BY <1>8, <3>6, SeqDomain
    <3> QED
      BY <2>1, <3>2, <3>3, <3>6, <3>7, <3>8, <3>9
  <2>2. CASE id \in Nat /\ id >= 255
    <3>1. ~(id < 255)
      BY <2>2
    <3>2. PICK q3 : q3 = <<Number(2, id)>> \o q2
      OBVIOUS
    <3>3. IsSeq(q3) /\ ReadNumber(2, q3) = Got(id, q2)
      BY <1>8, <3>2, NumberIsRead
    <3>4. RequestId(id) = <<Number(1, 255), Number(2, id)>>
      BY <3>1 DEF RequestId
    <3>5. body = <<Number(1, 255)>> \o q3
      <4>1. PICK a : a = Number(1, 255)
        OBVIOUS
      <4>2. PICK b : b = Number(2, id)
        OBVIOUS
      <4>3. PICK x, y : x = Number(4, c) /\ y = Number(4, m)
        OBVIOUS
      <4>4. PICK A, B, AB, XY, X, Y :
              A = <<a>> /\ B = <<b>> /\ AB = <<a, b>> /\ XY = <<x, y>> /\ X = <<x>> /\ Y = <<y>>
        OBVIOUS
      <4>5. /\ IsSeq(A) /\ IsSeq(B) /\ IsSeq(AB) /\ IsSeq(XY) /\ IsSeq(X) /\ IsSeq(Y)
            /\ AB = A \o B /\ XY = X \o Y
        BY <4>4, SeqSingle, PairIsConcat
      <4>6. body = (AB \o XY) \o q
        BY <1>10, <3>4, <4>1, <4>2, <4>3, <4>4
      <4>7. (AB \o XY) \o q = AB \o (XY \o q)
        <5>1. IsSeq(AB) /\ IsSeq(XY) /\ IsSeq(q)
          BY <1>4, <4>5
        <5> QED
          BY <5>1, ConcatIsAssociative, SMTT(30)
      <4>8. (X \o Y) \o q = X \o (Y \o q)
        <5>1. IsSeq(X) /\ IsSeq(Y) /\ IsSeq(q)
          BY <1>4, <4>5
        <5> QED
          BY <5>1, ConcatIsAssociative, SMTT(30)
      <4>9. XY \o q = q2
        BY <1>5, <1>6, <4>3, <4>4, <4>5, <4>8, Zenon
      <4>10. (A \o B) \o q2 = A \o (B \o q2)
        <5>1. IsSeq(A) /\ IsSeq(B) /\ IsSeq(q2)
          BY <1>8, <4>5
        <5> QED
          BY <5>1, ConcatIsAssociative
      <4>11. body = A \o (B \o q2)
        BY <4>5, <4>6, <4>7, <4>9, <4>10
      <4> QED
        BY <3>2, <4>1, <4>2, <4>4, <4>11
    <3>6. /\ IsSeq(body) /\ Len(body) = Len(q3) + 1 /\ body[1] = Number(1, 255)
          /\ ReadNumber(1, body) = Got(255, q3)
      BY <3>3, <3>5, NumberIsRead
    <3>7. "w" \in DOMAIN body[1] /\ body[1].n = 255
      BY <3>6 DEF Number
    <3>8. ReadId(255, body) = Got(id, q2)
      BY <3>3, <3>6, GotIs DEF ReadId, Then
    <3>9. HasBit(255, 128)
      BY BitIsRead DEF HasBit
    <3>10. Len(body) >= 1
      BY <3>3, <3>6, SeqDomain
    <3> QED
      BY <3>6, <3>7, <3>8, <3>9, <3>10
  <2>3. id \in Nat /\ id \notin 127 .. 254
    BY <1>1 DEF IsProtocolId
  <2>4. id \in 0 .. 126 \/ (id \in Nat /\ id >= 255)
    BY <2>3
  <2> QED
    BY <2>1, <2>2, <2>4
<1>12. PICK cells : cells = <<Number(4, size)>> \o body
  OBVIOUS
<1>13. EncodeRmcRequest(r) = cells
  BY <1>1, <1>2, <1>3, <1>4, <1>9, <1>10, <1>12 DEF EncodeRmcRequest, WithSize
<1>14. IsSeq(cells) /\ Len(cells) = Len(body) + 1 /\ ReadNumber(4, cells) = Got(size, body)
  BY <1>11, <1>12, NumberIsRead
<1>15. size = Len(body) /\ Len(body) \in Nat
  BY <1>9, <1>10, <1>11, SeqDomain
<1>16. ~(Len(cells) < 2)
  BY <1>11, <1>14, <1>15
<1>17. ParseRmcPacket(cells) = ParseRmcRequest(size, body)
  BY <1>11, <1>14, <1>16, GotIs DEF ParseRmcPacket, Then
<1>18. ParseRmcRequest(size, body) =
         Got([type |-> "request",
              protocolId |-> IF body[1].n = 255 THEN id
                             ELSE WithoutBit(WithBit(id, 128), 128),
              callId |-> c, methodId |-> m, parameters |-> q], << >>)
  <2>1. ~(size < Len(body))
    BY <1>15
  <2>2. PICK read : read = IF body[1].n = 255 THEN id ELSE WithBit(id, 128)
    OBVIOUS
  <2>3. ReadId(255, body) = Got(read, q2)
    BY <1>11, <2>2
  <2>4. ParseRmcRequest(size, body) =
          Got([type |-> "request",
              protocolId |-> IF body[1].n = 255 THEN read ELSE WithoutBit(read, 128),
              callId |-> c, methodId |-> m, parameters |-> q], << >>)
    BY <1>7, <1>8, <2>1, <2>3, GotIs DEF ParseRmcRequest, Then
  <2> QED
    BY <2>2, <2>4
<1>19. (IF body[1].n = 255 THEN id ELSE WithoutBit(WithBit(id, 128), 128)) = id
  <2>1. CASE id \in 0 .. 126 /\ body[1].n # 255
    <3>1. id \in Nat /\ id < 128
      BY <2>1
    <3>2. WithBit(id, 128) = id + 128 /\ WithoutBit(id + 128, 128) = id
      BY <3>1, BitIsRead
    <3> QED
      BY <2>1, <3>2
  <2> QED
    BY <1>11, <2>1
<1>20. ParseRmcPacket(cells) =
         Got([type |-> "request", protocolId |-> id, callId |-> c, methodId |-> m,
              parameters |-> q], << >>)
  BY <1>17, <1>18, <1>19
<1> QED
  BY <1>1, <1>2, <1>3, <1>4, <1>13, <1>20

-----------------------------------------------------------------------------
(***************************************************************************)
(* Messages are cut into chunks of one size and are whole when these are   *)
(* put together again.                                                     *)
(***************************************************************************)
\* What of a message there is up to the end of its i-th chunk.
Cut(i, size, length) == IF i * size < length THEN i * size ELSE length
Cuts(n, size, length) == [i \in 0 .. n |-> Cut(i, size, length)]

LEMMA RoundedUp ==
  ASSUME NEW size \in Nat \ {0}, NEW length \in Nat, NEW n, n = (length + size - 1) \div size
  PROVE  /\ n \in Nat /\ n * size >= length
         /\ n # 0 => (n - 1) * size < length
         /\ length # 0 => n # 0
<1>1. PICK a \in Nat : a = length + size - 1
  <2>1. length + size - 1 \in Nat
    OBVIOUS
  <2> QED
    BY <2>1
<1>2. a \div size \in Int /\ a % size \in 0 .. size - 1 /\ a = size * (a \div size) + (a % size)
  BY ModParts
<1>3. PICK d \in Int : d = a \div size
  BY <1>2
<1>4. PICK r \in 0 .. size - 1 : r = a % size
  BY <1>2
<1>5. PICK e \in Int : e = size * d /\ e = d * size
  OBVIOUS
<1>6. a = e + r
  BY <1>2, <1>3, <1>4, <1>5
<1>7. n = d
  BY <1>1, <1>3
<1>8. d <= -1 => e <= -size
  BY <1>5
<1>9. d \in Nat
  BY <1>1, <1>6, <1>8
<1>10. (d - 1) * size = e - size
  BY <1>5
<1>11. e >= length /\ e - size < length
  BY <1>1, <1>6
<1>12. d = 0 => e = 0
  BY <1>5
<1> QED
  BY <1>5, <1>7, <1>9, <1>10, <1>11, <1>12

LEMMA CutsAre ==
  ASSUME NEW size \in Nat \ {0}, NEW length \in Nat, NEW n \in Nat, n * size >= length,
         n # 0 => (n - 1) * size <= length
  PROVE  /\ AreCuts(Cuts(n, size, length), n, length)
         /\ \A i \in 1 .. n :
              /\ Cuts(n, size, length)[i - 1] = (i - 1) * size
              /\ Cuts(n, size, length)[i] = Cut(i, size, length)
              /\ Cuts(n, size, length)[i] - Cuts(n, size, length)[i - 1] <= size
<1> DEFINE f == Cuts(n, size, length)
<1>1. \A i \in 0 .. n : f[i] = Cut(i, size, length)
  BY DEF Cuts
<1> HIDE DEF f
<1>2. ASSUME NEW i \in 0 .. n PROVE f[i] \in 0 .. length
  <2>1. PICK e \in Nat : e = i * size
    OBVIOUS
  <2>2. f[i] = IF e < length THEN e ELSE length
    BY <1>1, <2>1 DEF Cut
  <2> QED
    BY <2>2
<1>3. ASSUME NEW i \in 1 .. n
      PROVE  /\ f[i - 1] <= f[i] /\ f[i - 1] = (i - 1) * size
             /\ f[i] = Cut(i, size, length) /\ f[i] - f[i - 1] <= size
  <2>1. PICK e \in Nat : e = i * size
    OBVIOUS
  <2>2. PICK k \in 0 .. n : k = i - 1
    OBVIOUS
  <2>3. PICK c \in Nat : c = k * size
    OBVIOUS
  <2>4. e = c + size
    BY <2>1, <2>2, <2>3
  <2>5. PICK m \in Int : m = (n - 1) * size
    OBVIOUS
  <2>6. c <= m
    <3>1. k <= n - 1 /\ n - 1 \in Nat
      BY <2>2
    <3>2. PICK g \in Nat : g = n - 1 - k
      BY <3>1, <2>2
    <3>3. g * size \in Nat
      OBVIOUS
    <3>4. m = c + g * size
      BY <2>3, <2>5, <3>2
    <3> QED
      BY <3>3, <3>4
  <2>7. c <= length
    BY <2>5, <2>6
  <2>8. f[k] = c
    <3>1. f[k] = IF c < length THEN c ELSE length
      BY <1>1, <2>3 DEF Cut
    <3> QED
      BY <2>7, <3>1
  <2>9. f[i] = IF e < length THEN e ELSE length
    BY <1>1, <2>1 DEF Cut
  <2>10. f[i] = Cut(i, size, length)
    BY <1>1
  <2>11. c <= f[i] /\ f[i] - c <= size
    BY <2>4, <2>7, <2>9
  <2> QED
    BY <2>2, <2>3, <2>8, <2>10, <2>11
<1>4. f[0] = 0
  BY <1>1 DEF Cut
<1>5. f[n] = length
  <2>1. PICK e \in Nat : e = n * size
    OBVIOUS
  <2>2. f[n] = IF e < length THEN e ELSE length
    BY <1>1, <2>1 DEF Cut
  <2> QED
    BY <2>1, <2>2
<1> QED
  BY <1>2, <1>3, <1>4, <1>5 DEF AreCuts, f

LEMMA PartsOfCuts ==
  ASSUME NEW q, IsSeq(q), NEW size \in Nat \ {0}, NEW n \in Nat, n * size >= Len(q),
         n # 0 => (n - 1) * size <= Len(q),
         NEW parts, IsSeq(parts), Len(parts) = n,
         \A i \in 1 .. n : parts[i] = SubSeq(q, (i - 1) * size + 1, Cut(i, size, Len(q)))
  PROVE  /\ ArePartsOf(parts, q, Cuts(n, size, Len(q)))
         /\ \A i \in 1 .. n : IsSeq(parts[i]) /\ Len(parts[i]) <= size
<1>1. PICK l \in Nat : l = Len(q)
  BY SeqDomain
<1>2. PICK f : f = Cuts(n, size, l)
  OBVIOUS
<1>3. /\ AreCuts(f, n, l)
      /\ \A i \in 1 .. n : f[i - 1] = (i - 1) * size /\ f[i] = Cut(i, size, l)
                           /\ f[i] - f[i - 1] <= size
  BY <1>1, <1>2, CutsAre, ZenonT(40)
<1>4. ArePartsOf(parts, q, f)
  <2>1. \A i \in 1 .. n : parts[i] = SubSeq(q, f[i - 1] + 1, f[i])
    BY <1>1, <1>3
  <2> QED
    BY <1>1, <1>3, <2>1 DEF ArePartsOf
<1>5. \A i \in 1 .. n : IsSeq(parts[i]) /\ Len(parts[i]) = f[i] - f[i - 1]
  <2>1. \A i \in 1 .. Len(parts) :
           /\ f[i - 1] \in 0 .. Len(q) /\ f[i] \in 0 .. Len(q) /\ f[i - 1] <= f[i]
           /\ IsSeq(parts[i]) /\ Len(parts[i]) = f[i] - f[i - 1]
           /\ SubSeq(q, 1, f[i - 1]) \o parts[i] = SubSeq(q, 1, f[i])
    BY <1>4, PartLength, ZenonT(40)
  <2> QED
    BY <2>1
<1> QED
  BY <1>1, <1>2, <1>3, <1>4, <1>5

\* The chunks of a client's message.
LEMMA ChunksAreParts ==
  ASSUME NEW q, IsSeq(q), NEW size \in Nat \ {0}
  PROVE  LET parts == Chunks(q, size)
             n     == Len(parts)
         IN  /\ IsSeq(parts) /\ n \in Nat \ {0}
             /\ ArePartsOf(parts, q, Cuts(n, size, Len(q)))
             /\ \A i \in 1 .. n : IsSeq(parts[i]) /\ Len(parts[i]) <= size
<1>1. PICK l \in Nat : l = Len(q)
  BY SeqDomain
<1>2. PICK d : d = (l + size - 1) \div size
  OBVIOUS
<1>3. /\ d \in Nat /\ d * size >= l
      /\ d # 0 => (d - 1) * size < l
      /\ l # 0 => d # 0
  BY <1>2, RoundedUp
<1>4. PICK n : n = IF q = << >> THEN 1 ELSE d
  OBVIOUS
<1>5. q = << >> <=> l = 0
  BY <1>1, SeqEmpty, SeqExtensional
<1>6. n \in Nat \ {0} /\ n * size >= l /\ (n - 1) * size <= l /\ (l # 0 => (n - 1) * size < l)
  <2>1. CASE q = << >>
    <3>1. n = 1 /\ l = 0
      BY <1>4, <1>5, <2>1
    <3> QED
      BY <3>1
  <2>2. CASE q # << >>
    <3>1. n = d /\ l # 0
      BY <1>4, <1>5, <2>2
    <3>2. PICK e \in Int : e = (n - 1) * size
      BY <1>3, <3>1
    <3> QED
      BY <1>3, <3>1, <3>2
  <2> QED
    BY <2>1, <2>2
<1>7. PICK parts : parts = Chunks(q, size)
  OBVIOUS
<1>8. parts = [i \in 1 .. n |->
                SubSeq(q, (i - 1) * size + 1, IF i < n THEN i * size ELSE l)]
  BY <1>1, <1>2, <1>4, <1>7 DEF Chunks
<1>9. IsSeq(parts) /\ Len(parts) = n
  <2>1. DOMAIN parts = 1 .. n /\ parts = [i \in 1 .. n |-> parts[i]]
    BY <1>8
  <2> QED
    BY <1>6, <2>1, SeqFunction
<1>10. ASSUME NEW i \in 1 .. n
       PROVE  parts[i] = SubSeq(q, (i - 1) * size + 1, Cut(i, size, l))
  <2>1. PICK e \in Nat : e = i * size
    OBVIOUS
  <2>2. parts[i] = SubSeq(q, (i - 1) * size + 1, IF i < n THEN e ELSE l)
    BY <1>8, <2>1
  <2>3. PICK m \in Int : m = (n - 1) * size
    BY <1>6
  <2>4. PICK w \in Int : w = n * size /\ w = m + size
    BY <1>6, <2>3
  <2>5. i < n => e <= m
    <3> SUFFICES ASSUME i < n PROVE e <= m
      OBVIOUS
    <3>1. PICK g \in Nat : g = n - 1 - i
      BY <1>6
    <3>2. g * size \in Nat
      OBVIOUS
    <3>3. m = e + g * size
      BY <1>6, <2>1, <2>3, <3>1
    <3> QED
      BY <3>2, <3>3
  <2>6. (IF i < n THEN e ELSE l) = IF e < l THEN e ELSE l
    <3>1. CASE i < n
      <4>1. e >= 1
        BY <2>1
      <4>2. l # 0
        BY <1>6, <2>3, <2>5, <3>1, <4>1
      <4>3. m < l
        BY <1>6, <2>3, <4>2
      <4> QED
        BY <2>5, <3>1, <4>3
    <3>2. CASE i = n
      BY <1>6, <2>1, <3>2
    <3> QED
      BY <1>6, <3>1, <3>2
  <2>7. Cut(i, size, l) = IF e < l THEN e ELSE l
    BY <2>1 DEF Cut
  <2> QED
    BY <2>2, <2>6, <2>7
<1>11. /\ ArePartsOf(parts, q, Cuts(n, size, l))
       /\ \A i \in 1 .. n : IsSeq(parts[i]) /\ Len(parts[i]) <= size
  BY <1>1, <1>6, <1>9, <1>10, PartsOfCuts
<1> QED
  BY <1>1, <1>6, <1>7, <1>9, <1>11

\* The chunks of an answer.
LEMMA AnswerIsWhole ==
  ASSUME NEW data, IsSeq(data), NEW parts, IsSeq(parts), Len(parts) = Count(data),
         \A i \in 1 .. Count(data) : parts[i] = Chunk(data, i)
  PROVE  ArePartsOf(parts, data, Cuts(Count(data), MaxPayload, Len(data)))
<1>1. PICK l \in Nat : l = Len(data)
  BY SeqDomain
<1>2. PICK m \in Nat \ {0} : m = MaxPayload
  BY ExchangeAssumption
<1>3. PICK n : n = Count(data)
  OBVIOUS
<1>4. n = (l + m - 1) \div m
  BY <1>1, <1>2, <1>3 DEF Count
<1>5. n \in Nat /\ n * m >= l /\ (n # 0 => (n - 1) * m < l)
  BY <1>4, RoundedUp
<1>6. n # 0 => (n - 1) * m <= l
  <2>1. n # 0 => (n - 1) * m \in Int
    BY <1>5
  <2> QED
    BY <1>5, <2>1
<1>7. \A i \in 1 .. n : parts[i] = SubSeq(data, (i - 1) * m + 1, Cut(i, m, l))
  BY <1>1, <1>2, <1>3 DEF Chunk, Cut
<1>8. ArePartsOf(parts, data, Cuts(n, m, l))
  BY <1>1, <1>3, <1>5, <1>6, <1>7, PartsOfCuts
<1> QED
  BY <1>1, <1>2, <1>3, <1>8

-----------------------------------------------------------------------------
(***************************************************************************)
(* The pieces of a plan are the fragments of its calls, one call after the *)
(* other.                                                                  *)
(***************************************************************************)
PartsOf(calls, k) == Chunks(MessageOf(calls, k), calls[k].fragmentSize)
PartCount(calls, k) == Len(PartsOf(calls, k))

PieceIs(e, calls, k, g) ==
  /\ e.call = k /\ e.from = calls[k].from /\ e.flags = calls[k].flags
  /\ e.source = CLIENT_PORT /\ e.compressed = calls[k].compressed
  /\ e.wrapping = calls[k].wrapping
  /\ e.fragmentId = IF g = PartCount(calls, k) THEN 0 ELSE g
  /\ e.payload = PartsOf(calls, k)[g]

LEMMA CallPieces ==
  ASSUME NEW calls, NEW k, IsSeq(MessageOf(calls, k)), calls[k].fragmentSize \in Nat \ {0}
  PROVE  /\ IsSeq(PiecesOf(calls, k)) /\ Len(PiecesOf(calls, k)) = PartCount(calls, k)
         /\ PartCount(calls, k) \in Nat \ {0}
         /\ \A g \in 1 .. PartCount(calls, k) : PieceIs(PiecesOf(calls, k)[g], calls, k, g)
<1>1. PICK parts : parts = PartsOf(calls, k)
  OBVIOUS
<1>2. PICK n : n = PartCount(calls, k)
  OBVIOUS
<1>3. IsSeq(parts) /\ Len(parts) = n /\ n \in Nat \ {0}
  BY <1>1, <1>2, ChunksAreParts DEF PartsOf, PartCount
<1>4. DOMAIN parts = 1 .. n
  BY <1>3, SeqDomain
<1>5. PICK fragments : fragments = GameFragments(parts)
  OBVIOUS
<1>6. /\ DOMAIN fragments = 1 .. n
      /\ \A i \in 1 .. n : /\ fragments[i].fid = IF i = n THEN 0 ELSE i
                           /\ fragments[i].payload = parts[i]
  BY <1>3, <1>4, <1>5 DEF GameFragments
<1>7. PICK w : w = PiecesOf(calls, k)
  OBVIOUS
<1>8. w = [i \in DOMAIN fragments |->
            [call |-> k, from |-> calls[k].from, source |-> CLIENT_PORT,
             destination |-> calls[k].destination, flags |-> calls[k].flags,
             fragmentId |-> fragments[i].fid, payload |-> fragments[i].payload,
             compressed |-> calls[k].compressed, wrapping |-> calls[k].wrapping,
             addresses |-> calls[k].addresses]]
  BY <1>1, <1>5, <1>7 DEF PiecesOf, PartsOf
<1>9. IsSeq(w) /\ Len(w) = n
  <2>1. DOMAIN w = 1 .. n /\ w = [i \in 1 .. n |-> w[i]]
    BY <1>6, <1>8
  <2> QED
    BY <1>3, <2>1, SeqFunction
<1>10. ASSUME NEW g \in 1 .. n PROVE PieceIs(w[g], calls, k, g)
  <2>1. /\ w[g].call = k /\ w[g].from = calls[k].from /\ w[g].flags = calls[k].flags
        /\ w[g].source = CLIENT_PORT /\ w[g].compressed = calls[k].compressed
        /\ w[g].wrapping = calls[k].wrapping
        /\ w[g].fragmentId = fragments[g].fid /\ w[g].payload = fragments[g].payload
    BY <1>6, <1>8
  <2> QED
    BY <1>1, <1>2, <1>6, <2>1 DEF PieceIs
<1> QED
  BY <1>2, <1>3, <1>7, <1>9, <1>10

\* What a plan says of each of its calls.
LEMMA PlannedCalls ==
  ASSUME NEW p, IsPlan(p)
  PROVE  /\ IsSeq(p.calls)
         /\ \A k \in DOMAIN p.calls :
              /\ IsSeq(MessageOf(p.calls, k)) /\ Len(MessageOf(p.calls, k)) <= MaxReassembledSize
              /\ p.calls[k].fragmentSize \in Nat \ {0}
              /\ p.calls[k].fragmentSize <= MaxDecompressedSize
              /\ PartCount(p.calls, k) <= FragmentIdSpace
<1>1. IsSeq(p.calls)
  BY DEF IsPlan, IsSequence, IsSeq
<1>2. ASSUME NEW k \in DOMAIN p.calls
      PROVE  /\ IsSeq(MessageOf(p.calls, k)) /\ Len(MessageOf(p.calls, k)) <= MaxReassembledSize
             /\ p.calls[k].fragmentSize \in Nat \ {0}
             /\ p.calls[k].fragmentSize <= MaxDecompressedSize
             /\ PartCount(p.calls, k) <= FragmentIdSpace
  <2>1. PICK m : m = MessageOf(p.calls, k)
    OBVIOUS
  <2>2. PICK size : size = p.calls[k].fragmentSize
    OBVIOUS
  <2>3. IsSendable(p.calls[k], m)
    BY <2>1 DEF IsPlan, IsPlannedCall
  <2>4. /\ IsSequence(m) /\ Len(m) <= MaxReassembledSize
        /\ size \in 1 .. MaxDecompressedSize
        /\ Len(Chunks(m, size)) <= FragmentIdSpace
    BY <2>2, <2>3 DEF IsSendable
  <2>5. IsSeq(m)
    BY <2>4 DEF IsSequence, IsSeq
  <2>6. size \in Nat \ {0} /\ size <= MaxDecompressedSize
    BY <2>4, PacketAssumption
  <2> QED
    BY <2>1, <2>2, <2>4, <2>5, <2>6 DEF PartCount, PartsOf
<1> QED
  BY <1>1, <1>2

\* The i-th piece is the g-th fragment of call k, those before it are right in front of
\* it, and in front of these is the last one of another message.
IsFragment(p, i, k, g) ==
  /\ k \in DOMAIN p.calls /\ g \in 1 .. PartCount(p.calls, k) /\ g <= i
  /\ \A h \in 1 .. g : PieceIs(p.pieces[i - g + h], p.calls, k, h)
  /\ i # g => p.pieces[i - g].fragmentId = 0

LEMMA PlannedPieces ==
  ASSUME NEW p, IsPlan(p)
  PROVE  /\ IsSeq(p.pieces)
         /\ \A i \in 1 .. Len(p.pieces) : \E k, g : IsFragment(p, i, k, g)
<1>1. PICK calls : calls = p.calls
  OBVIOUS
<1>2. PICK qs : qs = [k \in DOMAIN calls |-> PiecesOf(calls, k)]
  OBVIOUS
<1>3. PICK w : w = p.pieces
  OBVIOUS
<1>4. w = FlattenSeq(qs)
  BY <1>1, <1>2, <1>3 DEF IsPlan, Pieces
<1>5. PICK n \in Nat : n = Len(calls) /\ DOMAIN calls = 1 .. n
  BY <1>1, PlannedCalls, SeqDomain
<1>6. IsSeq(qs) /\ Len(qs) = n /\ DOMAIN qs = 1 .. n
  <2>1. DOMAIN qs = 1 .. n /\ qs = [k \in 1 .. n |-> qs[k]]
    BY <1>2, <1>5
  <2> QED
    BY <1>5, <2>1, SeqFunction
<1>7. ASSUME NEW k \in 1 .. n
      PROVE  /\ IsSeq(qs[k]) /\ Len(qs[k]) = PartCount(calls, k)
             /\ PartCount(calls, k) \in Nat \ {0}
             /\ \A g \in 1 .. PartCount(calls, k) : PieceIs(qs[k][g], calls, k, g)
  <2>1. k \in DOMAIN p.calls
    BY <1>1, <1>5
  <2>2. IsSeq(MessageOf(calls, k)) /\ calls[k].fragmentSize \in Nat \ {0}
    BY <1>1, <2>1, PlannedCalls
  <2>3. qs[k] = PiecesOf(calls, k)
    BY <1>2, <1>5
  <2> QED
    BY <2>2, <2>3, CallPieces
<1>8. AreBlocks(w, qs, n)
  <2>1. \A k \in 1 .. Len(qs) : IsSeq(qs[k])
    BY <1>6, <1>7
  <2> QED
    BY <1>4, <1>6, <2>1, FlattenBlocks
<1>9. ASSUME NEW i \in 1 .. Len(w) PROVE \E k, g : IsFragment(p, i, k, g)
  <2>1. PICK k \in 1 .. n, o \in Nat : IsBlock(w, qs, k, o) /\ o < i /\ i <= o + Len(qs[k])
    BY <1>8 DEF AreBlocks
  <2>2. PICK c \in Nat \ {0} : c = PartCount(calls, k)
    BY <1>7
  <2>3. Len(qs[k]) = c /\ \A h \in 1 .. c : PieceIs(qs[k][h], calls, k, h)
    BY <1>7, <2>2
  <2>4. \A h \in 1 .. c : w[o + h] = qs[k][h]
    BY <2>1, <2>3 DEF IsBlock
  <2>5. Len(w) \in Nat
    BY <1>8, SeqDomain DEF AreBlocks
  <2>6. PICK g \in Nat : g = i - o
    BY <2>1, <2>5
  <2>7. g \in 1 .. c /\ i - g = o /\ g <= i
    BY <2>1, <2>3, <2>5, <2>6
  <2>8. \A h \in 1 .. g : PieceIs(w[i - g + h], calls, k, h)
    BY <2>3, <2>4, <2>7
  <2>9. i # g => w[i - g].fragmentId = 0
    <3> SUFFICES ASSUME i # g PROVE w[o].fragmentId = 0
      BY <2>7
    <3>1. o # 0
      BY <2>6
    <3>2. PICK h \in 1 .. n : w[o] = qs[h][Len(qs[h])]
      BY <1>6, <2>1, <3>1 DEF IsBlock
    <3>3. PICK e \in Nat \ {0} : e = PartCount(calls, h) /\ e = Len(qs[h])
      BY <1>7
    <3>4. e \in 1 .. e
      OBVIOUS
    <3>5. PieceIs(qs[h][e], calls, h, e)
      BY <1>7, <3>3, <3>4
    <3> QED
      BY <3>2, <3>3, <3>5 DEF PieceIs
  <2>10. k \in DOMAIN p.calls
    BY <1>1, <1>5
  <2>11. IsFragment(p, i, k, g)
    BY <1>1, <1>3, <2>2, <2>7, <2>8, <2>9, <2>10 DEF IsFragment
  <2> QED
    BY <2>11
<1>10. IsSeq(w)
  BY <1>8 DEF AreBlocks
<1> QED
  BY <1>3, <1>9, <1>10

\* Over a network that is not calm there is nothing to put together.
LEMMA OnlyWholePieces ==
  ASSUME NEW p, IsPlan(p), ~IsCalm(p)
  PROVE  \A i \in 1 .. Len(p.pieces) : p.pieces[i].fragmentId = 0
<1> TAKE i \in 1 .. Len(p.pieces)
<1>1. PICK k, g : IsFragment(p, i, k, g)
  BY PlannedPieces
<1>2. PICK c : c = PartCount(p.calls, k)
  OBVIOUS
<1>3. c = 1
  <2>1. k \in DOMAIN p.calls
    BY <1>1 DEF IsFragment
  <2>2. Len(PiecesOf(p.calls, k)) = 1
    BY <2>1 DEF IsPlan
  <2>3. IsSeq(MessageOf(p.calls, k)) /\ p.calls[k].fragmentSize \in Nat \ {0}
    BY <2>1, PlannedCalls
  <2> QED
    BY <1>2, <2>2, <2>3, CallPieces
<1>4. Len(p.pieces) \in Nat
  BY PlannedPieces, SeqDomain
<1>5. g = 1 /\ i - g + g = i
  BY <1>1, <1>2, <1>3, <1>4 DEF IsFragment
<1>6. PieceIs(p.pieces[i], p.calls, k, g)
  <2>1. g \in 1 .. g
    BY <1>5
  <2>2. PieceIs(p.pieces[i - g + g], p.calls, k, g)
    BY <1>1, <2>1 DEF IsFragment
  <2> QED
    BY <1>5, <2>2
<1> QED
  BY <1>2, <1>3, <1>5, <1>6 DEF PieceIs

-----------------------------------------------------------------------------
(***************************************************************************)
(* The server reads of each datagram the one packet its client sent.       *)
(***************************************************************************)
LEMMA PieceIsPacket ==
  ASSUME IsPlan(plan), NEW i \in 1 .. Len(plan.pieces)
  PROVE  LET m == plan.pieces[i]
             p == PacketOfClient(i)
         IN  /\ IsPacket(p) /\ p.packetType = "data"
             /\ p.flags = m.flags /\ p.signature = m.from
             /\ p.payload = m.payload /\ p.fragmentId = m.fragmentId
             /\ m.fragmentId \in 0 .. FragmentIdSpace - 1
             /\ m.wrapping \in {"alone", "damaged", "cut"}
             /\ m.wrapping # "alone" => HasSize(p)
<1>1. PICK k, g : IsFragment(plan, i, k, g)
  BY PlannedPieces
<1>2. PICK c \in Nat \ {0} : c = PartCount(plan.calls, k) /\ c <= FragmentIdSpace
  <2>1. k \in DOMAIN plan.calls
    BY <1>1 DEF IsFragment
  <2> QED
    BY <2>1, PlannedCalls, CallPieces
<1>3. k \in DOMAIN plan.calls /\ g \in 1 .. c /\ g <= i
  BY <1>1, <1>2 DEF IsFragment
<1>4. PICK m : m = plan.pieces[i]
  OBVIOUS
<1>5. PieceIs(m, plan.calls, k, g)
  <2>1. Len(plan.pieces) \in Nat
    BY PlannedPieces, SeqDomain
  <2>2. g \in 1 .. g /\ i - g + g = i
    BY <1>3, <2>1
  <2>3. PieceIs(plan.pieces[i - g + g], plan.calls, k, g)
    BY <1>1, <2>2 DEF IsFragment
  <2> QED
    BY <1>4, <2>2, <2>3
<1>6. PICK q : q = MessageOf(plan.calls, k)
  OBVIOUS
<1>7. PICK call : call = plan.calls[k]
  OBVIOUS
<1>8. PICK size : size = call.fragmentSize
  OBVIOUS
<1>9. IsSeq(q) /\ size \in Nat \ {0} /\ size <= MaxDecompressedSize
  BY <1>3, <1>6, <1>7, <1>8, PlannedCalls
<1>10. PICK parts : parts = Chunks(q, size)
  OBVIOUS
<1>11. parts = PartsOf(plan.calls, k) /\ c = Len(parts)
  BY <1>2, <1>6, <1>7, <1>8, <1>10 DEF PartsOf, PartCount
<1>12. /\ ArePartsOf(parts, q, Cuts(c, size, Len(q)))
       /\ \A j \in 1 .. c : IsSeq(parts[j]) /\ Len(parts[j]) <= size
  BY <1>9, <1>10, <1>11, ChunksAreParts
<1>13. IsSendable(call, q)
  BY <1>3, <1>6, <1>7 DEF IsPlan, IsPlannedCall
<1>14. /\ \A j \in DOMAIN q : "crypt" \notin DOMAIN q[j]
       /\ call.wrapping \in {"alone", "damaged", "cut"}
       /\ call.wrapping # "alone" => "HasSize" \in call.flags
  BY <1>13 DEF IsSendable
<1>15. m.payload = parts[g]
  BY <1>5, <1>11 DEF PieceIs
<1>16. IsSeq(m.payload) /\ Len(m.payload) <= size /\ Len(m.payload) \in Nat
  BY <1>3, <1>12, <1>15, SeqDomain
<1>17. \A j \in 1 .. Len(m.payload) : "crypt" \notin DOMAIN m.payload[j]
  <2>1. PICK f : f = Cuts(c, size, Len(q))
    OBVIOUS
  <2>2. ArePartsOf(parts, q, f)
    BY <1>12, <2>1
  <2>3. \A j \in 1 .. Len(parts) : \A e \in 1 .. Len(parts[j]) :
           \E h \in 1 .. Len(q) : parts[j][e] = q[h]
    <3>1. IsSeq(q)
      BY <1>9
    <3> QED
      BY <2>2, <3>1, PartElements
  <2>4. g \in 1 .. Len(parts) /\ DOMAIN q = 1 .. Len(q)
    BY <1>3, <1>9, <1>11, SeqDomain
  <2>5. ASSUME NEW j \in 1 .. Len(m.payload) PROVE "crypt" \notin DOMAIN m.payload[j]
    <3>1. PICK h \in 1 .. Len(q) : m.payload[j] = q[h]
      BY <1>15, <2>3, <2>4
    <3> QED
      BY <1>14, <2>4, <3>1
  <2> QED
    BY <2>5
<1>18. m.fragmentId \in 0 .. FragmentIdSpace - 1
  <2>1. m.fragmentId = IF g = c THEN 0 ELSE g
    BY <1>2, <1>5 DEF PieceIs
  <2> QED
    BY <1>2, <1>3, <2>1, PacketAssumption
<1>19. PICK p : p = PacketOfClient(i)
  OBVIOUS
<1>20. /\ p.source = m.source /\ p.packetType = "data" /\ p.flags = m.flags
       /\ p.signature = m.from /\ p.fragmentId = m.fragmentId
       /\ p.payload = m.payload /\ p.useCompression = m.compressed
  BY <1>4, <1>19 DEF PacketOfClient
<1>21. /\ m.source.streamType = RVSec /\ m.flags = call.flags
       /\ m.wrapping = call.wrapping
  BY <1>5, <1>7 DEF PieceIs, CLIENT_PORT, VPort
<1>22. IsPacket(p)
  <2>1. MaxDecompressedSize \in Nat
    BY PacketAssumption
  <2>2. Len(p.payload) <= MaxDecompressedSize
    BY <1>9, <1>16, <1>20, <2>1
  <2>3. p.fragmentId \in Nat
    BY <1>18, <1>20, PacketAssumption
  <2>4. p.packetType \in {"data", "connect"} /\ p.source.streamType = RVSec /\ IsSeq(p.payload)
    BY <1>16, <1>20, <1>21
  <2>5. \A j \in 1 .. Len(p.payload) : "crypt" \notin DOMAIN p.payload[j]
    BY <1>17, <1>20
  <2> QED
    BY <2>2, <2>3, <2>4, <2>5 DEF IsPacket
<1>23. m.wrapping # "alone" => HasSize(p)
  BY <1>14, <1>20, <1>21 DEF HasSize
<1> QED
  BY <1>4, <1>14, <1>18, <1>19, <1>20, <1>21, <1>22, <1>23

LEMMA DatagramIsRead ==
  ASSUME IsPlan(plan), NEW i \in 1 .. Len(plan.pieces)
  PROVE  OnlyPacket(Datagram(i), PacketOfClient(i))
<1>1. PICK p : p = PacketOfClient(i)
  OBVIOUS
<1>2. PICK w : w = plan.pieces[i].wrapping
  OBVIOUS
<1>3. IsPacket(p) /\ w \in {"alone", "damaged", "cut"} /\ (w # "alone" => HasSize(p))
  BY <1>1, <1>2, PieceIsPacket
<1>4. CASE w = "alone"
  <2>1. Datagram(i) = ToBytes(p)
    BY <1>1, <1>2, <1>4 DEF Datagram
  <2> QED
    BY <1>1, <1>3, <2>1, AloneInDatagram
<1>5. CASE w = "damaged"
  <2>1. Datagram(i) = Damaged(ToBytes(p)) \o ToBytes(p)
    BY <1>1, <1>2, <1>5 DEF Datagram
  <2>2. HasSize(p)
    BY <1>3, <1>5
  <2> QED
    BY <1>1, <1>3, <2>1, <2>2, BehindDamaged
<1>6. CASE w = "cut"
  <2>1. Datagram(i) = ToBytes(p) \o Front(ToBytes(p))
    BY <1>1, <1>2, <1>6 DEF Datagram
  <2>2. HasSize(p)
    BY <1>3, <1>6
  <2> QED
    BY <1>1, <1>3, <2>1, <2>2, BeforeCut
<1> QED
  BY <1>3, <1>4, <1>5, <1>6

\* A packet that was read is the one of this piece.
ReadsPiece(q, i) ==
  /\ q.header.signature = plan.pieces[i].from /\ q.header.flags = plan.pieces[i].flags
  /\ q.fragmentId = plan.pieces[i].fragmentId /\ q.payload = plan.pieces[i].payload

LEMMA PieceIsRead ==
  ASSUME IsPlan(plan), NEW i \in 1 .. Len(plan.pieces), NEW copy, copy.piece = i
  PROVE  \E q : /\ Taken(PacketsOf(Datagram(i)), copy)
                     = <<[packet |-> q, from |-> copy.from, piece |-> i]>>
                /\ ReadsPiece(q, i)
<1>1. PICK p : p = PacketOfClient(i)
  OBVIOUS
<1>2. PICK q : IsRead(q, p) /\ PacketsOf(Datagram(i)) = <<q>>
  BY <1>1, DatagramIsRead DEF OnlyPacket
<1>3. PICK m : m = plan.pieces[i]
  OBVIOUS
<1>4. /\ p.packetType = "data" /\ p.flags = m.flags /\ p.signature = m.from
      /\ p.payload = m.payload /\ p.fragmentId = m.fragmentId
      /\ m.fragmentId \in 0 .. FragmentIdSpace - 1
  BY <1>1, <1>3, PieceIsPacket
<1>5. q.header = Header(p) /\ q.payload = p.payload /\ q.fragmentId = FragmentIdOf(p)
  BY <1>2, ReadIsOk
<1>6. m.fragmentId % FragmentIdSpace = m.fragmentId
  BY <1>4, PacketAssumption
<1>7. q.fragmentId = m.fragmentId
  BY <1>4, <1>5, <1>6 DEF FragmentIdOf
<1>8. q.header.signature = m.from /\ q.header.flags = m.flags
  BY <1>4, <1>5 DEF Header
<1>9. ReadsPiece(q, i)
  BY <1>3, <1>4, <1>5, <1>7, <1>8 DEF ReadsPiece
<1>10. PICK e : e = [packet |-> q, from |-> copy.from, piece |-> i]
  OBVIOUS
<1>11. Taken(<<q>>, copy) = <<e>>
  <2>1. PICK r : r = <<q>>
    OBVIOUS
  <2>2. IsSeq(r) /\ Len(r) = 1 /\ r[1] = q
    BY <2>1, SeqSingle
  <2>3. DOMAIN r = 1 .. 1
    BY <2>2, SeqDomain
  <2>4. PICK t : t = Taken(r, copy)
    OBVIOUS
  <2>5. DOMAIN t = 1 .. 1 /\ t = [j \in 1 .. 1 |-> t[j]] /\ t[1] = e
    BY <1>10, <2>2, <2>3, <2>4 DEF Taken
  <2>6. IsSeq(t) /\ Len(t) = 1
    BY <2>5, SeqFunction
  <2>7. PICK u : u = <<e>>
    OBVIOUS
  <2>8. IsSeq(u) /\ Len(u) = 1 /\ u[1] = e
    BY <2>7, SeqSingle
  <2>9. t = u
    <3>1. Len(t) = Len(u) /\ \A j \in 1 .. Len(t) : t[j] = u[j]
      BY <2>5, <2>6, <2>8
    <3> QED
      BY <2>6, <2>8, <3>1, SeqExtensional
  <2> QED
    BY <2>1, <2>4, <2>7, <2>9
<1> QED
  BY <1>2, <1>9, <1>10, <1>11

-----------------------------------------------------------------------------
(***************************************************************************)
(* The buffer of a client holds the fragments of one message so far.       *)
(***************************************************************************)
LEMMA EmptyPrefix ==
  ASSUME NEW q, IsSeq(q)
  PROVE  SubSeq(q, 1, 0) = << >>
<1>1. 0 \in 0 .. Len(q)
  BY SeqDomain
<1> QED
  BY <1>1, SeqEmpty, PrefixIs

LEMMA FirstOf ==
  ASSUME NEW q, IsSeq(q), NEW n \in 0 .. Len(q), NEW r, DOMAIN r = 1 .. n,
         r = [i \in 1 .. n |-> r[i]], \A i \in 1 .. n : r[i] = q[i]
  PROVE  r = SubSeq(q, 1, n)
<1>1. n \in Nat
  BY SeqDomain
<1>2. IsSeq(r) /\ Len(r) = n
  BY <1>1, SeqFunction
<1> QED
  BY <1>2, PrefixIs

\* The parts before the g-th one, and their sizes.
Before(parts, g) == SubSeq(parts, 1, g - 1)

FitsBehind(b, parts, g) ==
  /\ IsSeq(b) /\ Len(b) = g - 1 /\ DOMAIN b = 1 .. g - 1
  /\ \A i \in 1 .. g - 1 : b[i] = parts[i]
  /\ ~(BufferedSize(b, g, parts[g]) > MaxReassembledSize)

LEMMA BufferFits ==
  ASSUME NEW q, IsSeq(q), Len(q) <= MaxReassembledSize, NEW f, NEW parts,
         ArePartsOf(parts, q, f), NEW g \in 1 .. Len(parts)
  PROVE  FitsBehind(Before(parts, g), parts, g)
<1>0. PICK b : b = Before(parts, g)
  OBVIOUS
<1>1. IsSeq(parts) /\ Len(parts) \in Nat /\ Len(q) \in Nat
  BY SeqDomain DEF ArePartsOf
<1>2. PICK n \in 0 .. Len(parts) : n = g - 1 /\ n + 1 = g
  BY <1>1
<1>3. IsSeq(b) /\ Len(b) = n /\ \A i \in 1 .. n : b[i] = parts[i]
  BY <1>0, <1>1, <1>2, FirstPart DEF Before
<1>4. DOMAIN b = 1 .. n
  BY <1>3, SeqDomain
<1>5. PICK sizes : sizes = [i \in DOMAIN b |-> Len(b[i])]
  OBVIOUS
<1>6. \A i \in 1 .. n : sizes[i] = Len(parts[i])
  BY <1>3, <1>4, <1>5
<1>7. SumFunctionOnSet(sizes, 1 .. n) = f[n]
  BY <1>6, SumOfParts
<1>8. DOMAIN b \ {g} = 1 .. n
  BY <1>2, <1>4
<1>9. BufferedSize(b, g, parts[g]) = Len(parts[g]) + f[n]
  BY <1>5, <1>7, <1>8 DEF BufferedSize
<1>10. /\ f[g - 1] \in 0 .. Len(q) /\ f[g] \in 0 .. Len(q)
       /\ Len(parts[g]) = f[g] - f[g - 1]
  BY PartLength
<1>11. BufferedSize(b, g, parts[g]) \in 0 .. Len(q)
  BY <1>1, <1>2, <1>9, <1>10
<1>12. ~(BufferedSize(b, g, parts[g]) > MaxReassembledSize)
  BY <1>1, <1>11, MaxSizeAssumption
<1> QED
  BY <1>0, <1>2, <1>3, <1>4, <1>12 DEF FitsBehind

LEMMA BufferTakes ==
  ASSUME NEW q, IsSeq(q), Len(q) <= MaxReassembledSize, NEW f, NEW parts,
         ArePartsOf(parts, q, f), NEW g \in 1 .. Len(parts)
  PROVE  NextBuffer(Before(parts, g), g, parts[g]) = SubSeq(parts, 1, g)
<1>1. IsSeq(parts) /\ Len(parts) \in Nat
  BY SeqDomain DEF ArePartsOf
<1>2. PICK b : b = Before(parts, g)
  OBVIOUS
<1>3. /\ IsSeq(b) /\ Len(b) = g - 1 /\ DOMAIN b = 1 .. g - 1
      /\ \A i \in 1 .. g - 1 : b[i] = parts[i]
      /\ ~(BufferedSize(b, g, parts[g]) > MaxReassembledSize)
  <2>1. FitsBehind(Before(parts, g), parts, g)
    BY BufferFits
  <2> QED
    BY <1>2, <2>1 DEF FitsBehind
<1>4. PICK e : e = parts[g]
  OBVIOUS
<1>5. PICK r : r = NextBuffer(b, g, e)
  OBVIOUS
<1>6. r = [i \in DOMAIN b \union {g} |-> IF i = g THEN e ELSE b[i]]
  <2>1. g # 0
    BY <1>1
  <2> QED
    BY <1>3, <1>4, <1>5, <2>1 DEF NextBuffer, Store
<1>7. DOMAIN b \union {g} = 1 .. g
  BY <1>1, <1>3
<1>8. /\ DOMAIN r = 1 .. g /\ r = [i \in 1 .. g |-> r[i]]
      /\ \A i \in 1 .. g : r[i] = parts[i]
  BY <1>1, <1>3, <1>4, <1>6, <1>7
<1>9. g \in 0 .. Len(parts)
  BY <1>1
<1>10. r = SubSeq(parts, 1, g)
  BY <1>1, <1>8, <1>9, FirstOf
<1> QED
  BY <1>2, <1>4, <1>5, <1>10

LEMMA BufferCompletes ==
  ASSUME NEW q, IsSeq(q), Len(q) <= MaxReassembledSize, NEW f, NEW parts,
         ArePartsOf(parts, q, f), Len(parts) # 0
  PROVE  Reassembled(Before(parts, Len(parts)), parts[Len(parts)]) = q
<1>1. IsSeq(parts) /\ Len(parts) \in Nat \ {0} /\ Len(q) \in Nat
  BY SeqDomain DEF ArePartsOf
<1>2. PICK g \in 1 .. Len(parts) : g = Len(parts)
  BY <1>1
<1>3. PICK n \in 0 .. Len(parts) : n = g - 1
  BY <1>1
<1>4. PICK b : b = Before(parts, g)
  OBVIOUS
<1>5. IsSeq(b) /\ Len(b) = n /\ DOMAIN b = 1 .. n
  <2>1. FitsBehind(Before(parts, g), parts, g)
    BY BufferFits
  <2> QED
    BY <1>3, <1>4, <2>1 DEF FitsBehind
<1>6. Cardinality(DOMAIN b) = n
  <2>1. n \in Nat
    BY <1>1
  <2> QED
    BY <1>5, <2>1, IntervalIsFinite
<1>7. PICK r : r = [i \in 1 .. Cardinality(DOMAIN b) |-> b[i]]
  OBVIOUS
<1>8. Reassembled(b, parts[g]) = FlattenSeq(b) \o parts[g]
  <2>1. DOMAIN r = 1 .. n /\ r = [i \in 1 .. n |-> r[i]] /\ \A i \in 1 .. n : r[i] = b[i]
    BY <1>6, <1>7
  <2>2. n \in Nat
    BY <1>1
  <2>3. IsSeq(r) /\ Len(r) = n
    BY <2>1, <2>2, SeqFunction
  <2>4. r = b
    BY <1>5, <2>1, <2>3, SeqExtensional
  <2>5. Reassembled(b, parts[g]) = FlattenSeq(r) \o parts[g]
    BY <1>7, Zenon DEF Reassembled
  <2> QED
    BY <2>4, <2>5
<1>9. FlattenSeq(b) = SubSeq(q, 1, f[n])
  <2>1. \A k \in 0 .. Len(parts) : FlattenSeq(SubSeq(parts, 1, k)) = SubSeq(q, 1, f[k])
    BY PartsJoin
  <2>2. b = SubSeq(parts, 1, n)
    BY <1>3, <1>4 DEF Before
  <2> QED
    BY <2>1, <2>2
<1>10. SubSeq(q, 1, f[g - 1]) \o parts[g] = SubSeq(q, 1, f[g])
  <2>1. \A i \in 1 .. Len(parts) :
           /\ f[i - 1] \in 0 .. Len(q) /\ f[i] \in 0 .. Len(q) /\ f[i - 1] <= f[i]
           /\ IsSeq(parts[i]) /\ Len(parts[i]) = f[i] - f[i - 1]
           /\ SubSeq(q, 1, f[i - 1]) \o parts[i] = SubSeq(q, 1, f[i])
    BY PartLength, ZenonT(40)
  <2> QED
    BY <2>1
<1>11. f[g] = Len(q)
  BY <1>2 DEF ArePartsOf, AreCuts
<1>12. SubSeq(q, 1, Len(q)) = q
  BY WholeSubSeq
<1>13. Reassembled(b, parts[g]) = q
  BY <1>3, <1>8, <1>9, <1>10, <1>11, <1>12
<1> QED
  BY <1>2, <1>3, <1>4, <1>13

\* The fragments of one message up to this piece of a plan.
UpToPiece(pieces, h) ==
  [f \in 1 .. pieces[h].fragmentId |-> pieces[h - pieces[h].fragmentId + f].payload]

\* The buffer of a client after so many pieces, if none got lost.
BufferAfter(pieces, h, s) ==
  LET m == pieces[h]
  IN  IF h # 0 /\ m.from = s /\ m.fragmentId # 0 /\ "Ack" \notin m.flags
      THEN UpToPiece(pieces, h)
      ELSE NoFragments

LEMMA BuffersAround ==
  ASSUME NEW p, IsPlan(p), NEW i \in 1 .. Len(p.pieces), NEW k, NEW g, IsFragment(p, i, k, g), NEW s
  PROVE  LET parts == PartsOf(p.calls, k)
             same  == p.pieces[i].from = s /\ "Ack" \notin p.pieces[i].flags
         IN  /\ BufferAfter(p.pieces, i - 1, s)
                  = IF same THEN Before(parts, g) ELSE NoFragments
             /\ BufferAfter(p.pieces, i, s)
                  = IF same /\ g # Len(parts) THEN SubSeq(parts, 1, g) ELSE NoFragments
<1>1. PICK w : w = p.pieces
  OBVIOUS
<1>2. IsSeq(w) /\ Len(w) \in Nat
  BY <1>1, PlannedPieces, SeqDomain
<1>3. PICK parts : parts = PartsOf(p.calls, k)
  OBVIOUS
<1>4. k \in DOMAIN p.calls
  BY DEF IsFragment
<1>5. PICK c \in Nat \ {0} : c = PartCount(p.calls, k)
  BY <1>4, PlannedCalls, CallPieces
<1>6. IsSeq(parts) /\ Len(parts) = c
  <2>1. IsSeq(MessageOf(p.calls, k)) /\ p.calls[k].fragmentSize \in Nat \ {0}
    BY <1>4, PlannedCalls
  <2>2. IsSeq(parts)
    BY <1>3, <2>1, ChunksAreParts DEF PartsOf
  <2> QED
    BY <1>3, <1>5, <2>2 DEF PartCount
<1>7. PICK o \in Nat : o = i - g /\ g \in 1 .. c /\ i = o + g
  BY <1>1, <1>2, <1>5 DEF IsFragment
<1>8. \A h \in 1 .. g : PieceIs(w[o + h], p.calls, k, h)
  BY <1>1, <1>7 DEF IsFragment
<1>9. \A h \in 1 .. g : w[o + h].payload = parts[h]
  BY <1>3, <1>8 DEF PieceIs
<1>10. \A h \in 1 .. g : /\ w[o + h].from = p.calls[k].from /\ w[o + h].flags = p.calls[k].flags
                         /\ w[o + h].fragmentId = IF h = c THEN 0 ELSE h
  BY <1>5, <1>8 DEF PieceIs
<1>11. PICK same : same = (w[i].from = s /\ "Ack" \notin w[i].flags)
  OBVIOUS
<1>12. \A h \in 1 .. g : (w[o + h].from = s /\ "Ack" \notin w[o + h].flags) = same
  <2>1. g \in 1 .. g
    BY <1>7
  <2>2. w[i].from = p.calls[k].from /\ w[i].flags = p.calls[k].flags
    BY <1>7, <1>10, <2>1
  <2> QED
    BY <1>10, <1>11, <2>2
<1>13. ASSUME NEW h \in 1 .. g
       PROVE  BufferAfter(w, o + h, s)
                = IF same /\ h # c THEN SubSeq(parts, 1, h) ELSE NoFragments
  <2>1. PICK r : r = [f \in 1 .. h |-> w[o + f].payload]
    OBVIOUS
  <2>2. r = SubSeq(parts, 1, h)
    <3>1. DOMAIN r = 1 .. h /\ r = [f \in 1 .. h |-> r[f]] /\ \A f \in 1 .. h : r[f] = parts[f]
      BY <1>7, <1>9, <2>1
    <3>2. h \in 0 .. Len(parts)
      BY <1>6, <1>7
    <3> QED
      BY <1>6, <3>1, <3>2, FirstOf
  <2>3. o + h # 0 /\ h # 0 /\ o + h - h = o
    BY <1>7
  <2>4. PICK m : m = w[o + h]
    OBVIOUS
  <2>5. m.fragmentId = IF h = c THEN 0 ELSE h
    BY <1>10, <2>4
  <2>6. (m.from = s /\ "Ack" \notin m.flags) = same
    BY <1>12, <2>4
  <2>7. CASE h = c
    BY <2>4, <2>5, <2>7 DEF BufferAfter
  <2>8. CASE h # c
    <3>1. m.fragmentId = h
      BY <2>5, <2>8
    <3>2. r = UpToPiece(w, o + h)
      <4>1. w[o + h].fragmentId = h
        BY <2>4, <3>1
      <4> QED
        BY <2>1, <2>3, <4>1 DEF UpToPiece
    <3>3. BufferAfter(w, o + h, s) = IF same THEN r ELSE NoFragments
      BY <2>3, <2>4, <2>6, <3>1, <3>2 DEF BufferAfter
    <3> QED
      BY <2>2, <2>8, <3>3
  <2> QED
    BY <2>7, <2>8
<1>14. BufferAfter(w, i, s) = IF same /\ g # c THEN SubSeq(parts, 1, g) ELSE NoFragments
  <2>1. g \in 1 .. g
    BY <1>7
  <2> QED
    BY <1>7, <1>13, <2>1
<1>15. BufferAfter(w, i - 1, s) = IF same THEN Before(parts, g) ELSE NoFragments
  <2>1. CASE g = 1
    <3>1. Before(parts, g) = NoFragments
      <4>1. g - 1 = 0
        BY <2>1
      <4> QED
        BY <1>6, <4>1, EmptyPrefix DEF Before, NoFragments
    <3>2. BufferAfter(w, o, s) = NoFragments
      <4>1. i # g => w[o].fragmentId = 0
        BY <1>1, <1>7 DEF IsFragment
      <4>2. i = g => o = 0
        BY <1>7
      <4> QED
        BY <4>1, <4>2 DEF BufferAfter
    <3>3. i - 1 = o
      BY <1>7, <2>1
    <3> QED
      BY <3>1, <3>2, <3>3
  <2>2. CASE g # 1
    <3>1. PICK h \in 1 .. g : h = g - 1 /\ h # c /\ i - 1 = o + h
      <4>1. g - 1 \in 1 .. g /\ g - 1 # c /\ i - 1 = o + (g - 1)
        BY <1>7, <2>2
      <4> QED
        BY <4>1
    <3>2. BufferAfter(w, o + h, s) = IF same THEN SubSeq(parts, 1, h) ELSE NoFragments
      BY <1>13, <3>1
    <3> QED
      BY <3>1, <3>2 DEF Before
  <2> QED
    BY <2>1, <2>2
<1> QED
  BY <1>1, <1>3, <1>6, <1>11, <1>14, <1>15

LEMMA NoBuffers ==
  ASSUME NEW p, IsPlan(p), ~IsCalm(p), NEW h \in 0 .. Len(p.pieces), NEW s
  PROVE  BufferAfter(p.pieces, h, s) = NoFragments
<1>1. Len(p.pieces) \in Nat
  BY PlannedPieces, SeqDomain
<1>2. h # 0 => p.pieces[h].fragmentId = 0
  <2>1. h # 0 => h \in 1 .. Len(p.pieces)
    BY <1>1
  <2> QED
    BY <2>1, OnlyWholePieces
<1> QED
  BY <1>2 DEF BufferAfter

-----------------------------------------------------------------------------
(***************************************************************************)
(* What is on its way to the server, and what the server is at.            *)
(***************************************************************************)
IsCopy(copy, sent) ==
  DOMAIN copy = {"piece", "from", "copy"} /\ copy.piece \in 1 .. sent

\* The packet the server is at.
IsAt(q, from, i) ==
  /\ packets = <<[packet |-> q, from |-> from, piece |-> i]>>
  /\ i \in 1 .. flight.sent /\ ReadsPiece(q, i)

FlightInv ==
  /\ IsPlan(plan)
  /\ DOMAIN flight = {"sent", "copies", "lost", "repeated"}
  /\ flight.sent \in 0 .. Len(plan.pieces)
  /\ \A i \in 1 .. flight.sent : plan.pieces[i].from \in Signatures
  /\ \A copy \in flight.copies : IsCopy(copy, flight.sent)
  /\ packets = << >> \/ \E q, from, i : IsAt(q, from, i)

\* Over a calm network the pieces arrive one by one.
CalmInv ==
  IsCalm(plan) =>
    /\ flight.lost = 0 /\ flight.repeated = 0
    /\ \A copy, other \in flight.copies : copy.piece = flight.sent /\ copy = other
    /\ packets # << >> => flight.copies = {} /\ packets[1].piece = flight.sent

LEMMA InitFlight == Init => FlightInv /\ CalmInv
<1> SUFFICES ASSUME Init PROVE FlightInv /\ CalmInv
  OBVIOUS
<1>1. IsPlan(plan)
  BY PlansAssumption DEF Init
<1>2. flight = [sent |-> 0, copies |-> {}, lost |-> 0, repeated |-> 0] /\ packets = << >>
  BY DEF Init
<1>3. Len(plan.pieces) \in Nat
  BY <1>1, PlannedPieces, SeqDomain
<1> QED
  BY <1>1, <1>2, <1>3 DEF FlightInv, CalmInv

\* Taking the packet leaves none.
LEMMA OnePacketTaken ==
  ASSUME NEW q, NEW from, NEW i, IsAt(q, from, i)
  PROVE  /\ packets # << >> /\ Tail(packets) = << >>
         /\ Head1.packet = q /\ Head1.from = from /\ Head1.piece = i
<1>1. PICK e : e = [packet |-> q, from |-> from, piece |-> i]
  OBVIOUS
<1>2. PICK r : r = packets /\ r = <<e>>
  BY <1>1 DEF IsAt
<1>3. IsSeq(r) /\ Len(r) = 1 /\ r[1] = e
  BY <1>2, SeqSingle
<1>4. r # << >>
  BY <1>3, SeqEmpty
<1>5. IsSeq(Tail(r)) /\ Len(Tail(r)) = 0
  BY <1>3, <1>4, SeqTail
<1>6. Tail(r) = << >>
  <2>1. PICK u : u = << >>
    OBVIOUS
  <2>2. IsSeq(u) /\ Len(u) = 0
    BY <2>1, SeqEmpty
  <2>3. PICK v : v = Tail(r)
    OBVIOUS
  <2>4. IsSeq(v) /\ Len(v) = 0
    BY <1>5, <2>3
  <2>5. v = u
    BY <2>2, <2>4, SeqExtensional
  <2> QED
    BY <2>1, <2>3, <2>5
<1> QED
  BY <1>1, <1>2, <1>3, <1>4, <1>6 DEF Head1

LEMMA SendFlight ==
  ASSUME FlightInv, CalmInv, Send
  PROVE  FlightInv' /\ CalmInv'
<1>1. UNCHANGED <<plan, infos, packets>> /\ packets = << >>
  BY DEF Send, server, Idle
<1>2. PICK n \in Nat : n = flight.sent
  BY PlannedPieces, SeqDomain DEF FlightInv
<1>3. PICK copy : /\ flight' = [flight EXCEPT !.sent = @ + 1, !.copies = @ \union {copy}]
                  /\ DOMAIN copy = {"piece", "from", "copy"} /\ copy.piece = n + 1
  <2>1. PICK from :
          flight' = [flight EXCEPT
                       !.sent = @ + 1,
                       !.copies = @ \union {[piece |-> flight.sent + 1, from |-> from, copy |-> 0]}]
    BY Zenon DEF Send
  <2>2. PICK copy : copy = [piece |-> flight.sent + 1, from |-> from, copy |-> 0]
    OBVIOUS
  <2>3. DOMAIN copy = {"piece", "from", "copy"} /\ copy.piece = n + 1
    BY <1>2, <2>2
  <2>4. flight' = [flight EXCEPT !.sent = @ + 1, !.copies = @ \union {copy}]
    BY <2>1, <2>2, Zenon
  <2> QED
    BY <2>3, <2>4, Zenon
<1>4. DOMAIN flight = {"sent", "copies", "lost", "repeated"}
  BY DEF FlightInv
<1>5. /\ DOMAIN flight' = DOMAIN flight /\ flight'.sent = n + 1
      /\ flight'.copies = flight.copies \union {copy}
      /\ flight'.lost = flight.lost /\ flight'.repeated = flight.repeated
  BY <1>2, <1>3, <1>4
<1>6. n < Len(plan.pieces) /\ plan.pieces[n + 1].from \in Signatures
  BY <1>2 DEF Send
<1>7. FlightInv'
  <2>1. Signatures' = Signatures
    BY <1>1 DEF Signatures
  <2>2. n + 1 \in 0 .. Len(plan.pieces)
    BY <1>2, <1>6 DEF FlightInv
  <2>3. \A i \in 1 .. n + 1 : plan.pieces[i].from \in Signatures
    <3> TAKE i \in 1 .. n + 1
    <3>1. i \in 1 .. n \/ i = n + 1
      BY <1>2
    <3> QED
      BY <1>2, <1>6, <3>1 DEF FlightInv
  <2>4. \A c \in flight'.copies : IsCopy(c, n + 1)
    <3> TAKE c \in flight'.copies
    <3>1. CASE c = copy
      BY <1>2, <1>3, <3>1 DEF IsCopy
    <3>2. CASE c \in flight.copies
      <4>1. IsCopy(c, n)
        BY <1>2, <3>2 DEF FlightInv
      <4> QED
        BY <1>2, <4>1 DEF IsCopy
    <3> QED
      BY <1>5, <3>1, <3>2
  <2> QED
    BY <1>1, <1>4, <1>5, <2>1, <2>2, <2>3, <2>4 DEF FlightInv
<1>8. CalmInv'
  <2> SUFFICES ASSUME IsCalm(plan) PROVE CalmInv'
    BY <1>1 DEF CalmInv
  <2>1. flight.copies = {}
    BY DEF Send, IsCalm
  <2>2. flight'.copies = {copy}
    BY <1>5, <2>1
  <2>3. flight.lost = 0 /\ flight.repeated = 0
    BY DEF CalmInv
  <2> QED
    BY <1>1, <1>3, <1>5, <2>2, <2>3 DEF CalmInv
<1> QED
  BY <1>7, <1>8

LEMMA NetworkFlight ==
  ASSUME FlightInv, CalmInv, NEW copy \in flight.copies, Repeat(copy) \/ Lose(copy)
  PROVE  FlightInv' /\ CalmInv' /\ ~IsCalm(plan)
<1>1. UNCHANGED <<plan, infos, packets>> /\ packets = << >>
  BY DEF Repeat, Lose, server, Idle
<1>2. DOMAIN flight = {"sent", "copies", "lost", "repeated"} /\ IsCopy(copy, flight.sent)
  BY DEF FlightInv
<1>3. \E other : /\ IsCopy(other, flight.sent)
                 /\ flight'.copies \subseteq flight.copies \union {other}
                 /\ flight'.sent = flight.sent /\ DOMAIN flight' = DOMAIN flight
  <2>1. CASE Repeat(copy)
    <3>1. PICK n : n = flight.repeated + 1
      OBVIOUS
    <3>2. PICK other : other = [copy EXCEPT !.copy = n]
      OBVIOUS
    <3>3. IsCopy(other, flight.sent)
      BY <1>2, <3>2 DEF IsCopy
    <3>4. flight' = [flight EXCEPT !.repeated = @ + 1, !.copies = @ \union {other}]
      BY <2>1, <3>1, <3>2 DEF Repeat
    <3> QED
      BY <1>2, <3>3, <3>4
  <2>2. CASE Lose(copy)
    <3>1. flight' = [flight EXCEPT !.lost = @ + 1, !.copies = @ \ {copy}]
      BY <2>2 DEF Lose
    <3> QED
      BY <1>2, <3>1
  <2> QED
    BY <2>1, <2>2
<1>4. FlightInv'
  <2>1. Signatures' = Signatures
    BY <1>1 DEF Signatures
  <2>2. \A c \in flight'.copies : IsCopy(c, flight.sent)
    BY <1>3 DEF FlightInv
  <2>3. flight'.sent = flight.sent /\ DOMAIN flight' = DOMAIN flight
    BY <1>3
  <2> QED
    BY <1>1, <1>2, <2>1, <2>2, <2>3 DEF FlightInv
<1>5. ~IsCalm(plan)
  <2> SUFFICES ASSUME IsCalm(plan) PROVE FALSE
    OBVIOUS
  <2>1. plan.repeats = 0 /\ plan.losses = 0 /\ flight.lost = 0 /\ flight.repeated = 0
    BY DEF IsCalm, CalmInv
  <2>2. flight.repeated < plan.repeats \/ flight.lost < plan.losses
    BY DEF Repeat, Lose
  <2> QED
    BY <2>1, <2>2
<1>6. CalmInv'
  BY <1>1, <1>5 DEF CalmInv
<1> QED
  BY <1>4, <1>5, <1>6

LEMMA ArriveFlight ==
  ASSUME FlightInv, CalmInv, NEW copy \in flight.copies, Arrive(copy)
  PROVE  FlightInv' /\ CalmInv'
<1>1. UNCHANGED <<plan, infos>> /\ packets = << >>
  BY DEF Arrive, server, Idle
<1>2. DOMAIN flight = {"sent", "copies", "lost", "repeated"} /\ IsCopy(copy, flight.sent)
  BY DEF FlightInv
<1>3. flight' = [flight EXCEPT !.copies = @ \ {copy}]
  BY DEF Arrive
<1>4. /\ DOMAIN flight' = DOMAIN flight /\ flight'.sent = flight.sent
      /\ flight'.copies = flight.copies \ {copy}
      /\ flight'.lost = flight.lost /\ flight'.repeated = flight.repeated
  BY <1>2, <1>3
<1>5. PICK i \in 1 .. flight.sent : copy.piece = i
  BY <1>2 DEF IsCopy
<1>6. i \in 1 .. Len(plan.pieces)
  BY PlannedPieces, SeqDomain DEF FlightInv
<1>7. PICK q : /\ Taken(PacketsOf(Datagram(i)), copy)
                     = <<[packet |-> q, from |-> copy.from, piece |-> i]>>
               /\ ReadsPiece(q, i)
  BY <1>5, <1>6, PieceIsRead DEF FlightInv
<1>8. packets' = <<[packet |-> q, from |-> copy.from, piece |-> i]>>
  BY <1>5, <1>7 DEF Arrive
<1>9. IsAt(q, copy.from, i)'
  <2>1. ReadsPiece(q, i)'
    BY <1>1, <1>7 DEF ReadsPiece
  <2> QED
    BY <1>4, <1>8, <2>1 DEF IsAt
<1>10. FlightInv'
  <2>1. Signatures' = Signatures
    BY <1>1 DEF Signatures
  <2>2. \A c \in flight'.copies : IsCopy(c, flight.sent)
    BY <1>4 DEF FlightInv
  <2>3. \E p, from, k : IsAt(p, from, k)'
    BY <1>9
  <2> QED
    BY <1>1, <1>2, <1>4, <2>1, <2>2, <2>3 DEF FlightInv
<1>11. CalmInv'
  <2> SUFFICES ASSUME IsCalm(plan) PROVE CalmInv'
    BY <1>1 DEF CalmInv
  <2>1. /\ flight.lost = 0 /\ flight.repeated = 0
        /\ \A c, d \in flight.copies : c.piece = flight.sent /\ c = d
    BY DEF CalmInv
  <2>2. flight'.copies = {} /\ i = flight.sent
    BY <1>4, <1>5, <2>1
  <2>3. packets'[1].piece = i
    <3>1. PICK e : e = [packet |-> q, from |-> copy.from, piece |-> i]
      OBVIOUS
    <3>2. packets' = <<e>> /\ e.piece = i
      BY <1>8, <3>1
    <3> QED
      BY <3>2, SeqSingle
  <2> QED
    BY <1>4, <2>1, <2>2, <2>3 DEF CalmInv
<1> QED
  BY <1>10, <1>11

\* The server does not touch what is on its way.
LEMMA ServerFlight ==
  ASSUME FlightInv, CalmInv, UNCHANGED <<plan, flight>>, Signatures \subseteq Signatures',
         packets' = << >> \/ UNCHANGED packets
  PROVE  FlightInv' /\ CalmInv'
<1>1. FlightInv'
  <2>1. packets' = << >> \/ \E q, from, i : IsAt(q, from, i)'
    <3>1. CASE packets' = << >>
      BY <3>1
    <3>2. CASE UNCHANGED packets
      BY <3>2 DEF FlightInv, IsAt, ReadsPiece
    <3> QED
      BY <3>1, <3>2
  <2> QED
    BY <2>1 DEF FlightInv
<1>2. CalmInv'
  BY DEF CalmInv
<1> QED
  BY <1>1, <1>2

-----------------------------------------------------------------------------
(***************************************************************************)
(* The buffers hold what has arrived, and the messages given to the        *)
(* handler are what the clients sent.                                      *)
(***************************************************************************)
\* The number of pieces the server is done with, over a calm network.
Arrived ==
  IF ~IsCalm(plan) THEN 0
  ELSE IF packets = << >> /\ flight.copies = {} THEN flight.sent ELSE flight.sent - 1

BufferInv ==
  \A s \in clients : infos[s].packetFragments = BufferAfter(plan.pieces, Arrived, s)

\* What is in a job comes from its call and the handler.
ComesOf(job, result) ==
  /\ job.answered = result.answered
  /\ job.becomes = IF result.answered THEN result.userId ELSE Nobody
  /\ job.response = IF result.answered THEN result.response ELSE << >>
  /\ job.probes = IF result.answered THEN result.probes ELSE << >>

HoldsCall(p, job) ==
  /\ job.piece \in DOMAIN p.pieces /\ p.pieces[job.piece].call \in DOMAIN p.calls
  /\ p.calls[p.pieces[job.piece].call].from = job.client
  /\ job.data = MessageOf(p.calls, p.pieces[job.piece].call)
  /\ job.call.world = p.world
  /\ ComesOf(job, Handle(job.call, job.data))

MessageInv == \A j \in DOMAIN jobs : HoldsCall(plan, jobs[j])

\* What handling a message does to the other fields of the connections.
Answering(job, s, c) == c = s /\ IsDone(job)

LEMMA HandleFields ==
  ASSUME Inv, HandleMessage, NEW s, s = Sender, NEW data, NEW job,
         data = Reassembled(infos[s].packetFragments, Head1.packet.payload),
         job = JobOf(s, data, Handle(Call(s), data)), NEW c \in Signatures
  PROVE  /\ infos'[c].packetFragments = IF c = s THEN NoFragments ELSE infos[c].packetFragments
         /\ infos'[c].userId = IF Answering(job, s, c) THEN LoginOf(s, job) ELSE infos[c].userId
         /\ infos'[c].connectionId = infos[c].connectionId
         /\ infos'[c].address = infos[c].address
<1>1. PICK info : info = infos[c] /\ DOMAIN info = InfoFields
  BY DEF Inv, IsLogOf
<1>2. PICK user : user = IF Answering(job, s, c) THEN LoginOf(s, job) ELSE info.userId
  OBVIOUS
<1>3. PICK fragments : fragments = IF c = s THEN NoFragments ELSE info.packetFragments
  OBVIOUS
<1>4. PICK n, m : infos'[c] = [info EXCEPT !.packetFragments = fragments, !.serverSequenceId = n,
                                            !.userId = user, !.clientSequenceId = m]
  <2>1. PICK sent : sent = ProbePackets(job.probes)
    OBVIOUS
  <2>2. PICK now : now = (job.answered /\ ~job.pending)
    BY SMTT(30)
  <2>3. infos' = [d \in Signatures |->
           [infos[d] EXCEPT
             !.packetFragments = IF d = s THEN NoFragments ELSE @,
             !.serverSequenceId = IF d = s /\ now THEN NextSequenceId(s, job) ELSE @,
             !.userId = IF d = s /\ now THEN LoginOf(s, job) ELSE @,
             !.clientSequenceId = (@ + Len(sent[d])) % SequenceSpace]]
    BY <2>1, <2>2, Zenon DEF HandleMessage
  <2>4. infos'[c] =
           [info EXCEPT
             !.packetFragments = IF c = s THEN NoFragments ELSE @,
             !.serverSequenceId = IF c = s /\ now THEN NextSequenceId(s, job) ELSE @,
             !.userId = IF c = s /\ now THEN LoginOf(s, job) ELSE @,
             !.clientSequenceId = (@ + Len(sent[c])) % SequenceSpace]
    BY <1>1, <2>3, Zenon
  <2>5. PICK n : n = IF c = s /\ now THEN NextSequenceId(s, job) ELSE info.serverSequenceId
    OBVIOUS
  <2>6. PICK m : m = (info.clientSequenceId + Len(sent[c])) % SequenceSpace
    OBVIOUS
  <2>7. user = IF c = s /\ now THEN LoginOf(s, job) ELSE info.userId
    BY <1>2, <2>2 DEF Answering, IsDone
  <2>8. infos'[c] = [info EXCEPT !.packetFragments = fragments, !.serverSequenceId = n,
                                 !.userId = user, !.clientSequenceId = m]
    BY <1>3, <2>4, <2>5, <2>6, <2>7
  <2> QED
    BY <2>8, Zenon
<1> QED
  BY <1>1, <1>2, <1>3, <1>4 DEF InfoFields

\* The packet the server takes is a fragment, those before it are in the buffer.
IsTaken(i, k, g) ==
  /\ i \in 1 .. Len(plan.pieces) /\ IsFragment(plan, i, k, g)
  /\ Head1.piece = i /\ ReadsPiece(Head1.packet, i)
  /\ packets' = << >>
  /\ \A s \in clients : infos[s].packetFragments = BufferAfter(plan.pieces, i - 1, s)
  /\ UNCHANGED <<plan, flight>> =>
       \A s : BufferAfter(plan.pieces, Arrived', s) = BufferAfter(plan.pieces, i, s)

LEMMA TakeFragment ==
  ASSUME FlightInv, CalmInv, BufferInv, TakePacket
  PROVE  \E i, k, g : IsTaken(i, k, g)
<1>1. PICK q, from, i : IsAt(q, from, i)
  BY DEF FlightInv, TakePacket
<1>2. /\ packets # << >> /\ Tail(packets) = << >>
      /\ Head1.packet = q /\ Head1.piece = i
  BY <1>1, OnePacketTaken
<1>3. IsPlan(plan) /\ flight.sent \in 0 .. Len(plan.pieces) /\ Len(plan.pieces) \in Nat
  BY PlannedPieces, SeqDomain DEF FlightInv
<1>4. i \in 1 .. Len(plan.pieces) /\ ReadsPiece(q, i)
  BY <1>1, <1>3 DEF IsAt
<1>5. PICK k, g : IsFragment(plan, i, k, g)
  BY <1>3, <1>4, PlannedPieces
<1>6. packets' = << >>
  BY <1>2 DEF TakePacket
<1>7. i - 1 \in 0 .. Len(plan.pieces) /\ i \in 0 .. Len(plan.pieces) /\ 0 \in 0 .. Len(plan.pieces)
  BY <1>3, <1>4
<1>8. CASE IsCalm(plan)
  <2>1. flight.copies = {} /\ flight.sent = i
    BY <1>2, <1>8 DEF CalmInv, Head1
  <2>2. Arrived = i - 1
    BY <1>2, <1>8, <2>1 DEF Arrived
  <2>3. UNCHANGED <<plan, flight>> => Arrived' = i
    BY <1>6, <1>8, <2>1 DEF Arrived
  <2>4. IsTaken(i, k, g)
    BY <1>2, <1>4, <1>5, <1>6, <2>2, <2>3 DEF IsTaken, BufferInv
  <2> QED
    BY <2>4
<1>9. CASE ~IsCalm(plan)
  <2>1. Arrived = 0 /\ (UNCHANGED <<plan, flight>> => Arrived' = 0)
    BY <1>9 DEF Arrived
  <2>2. \A h \in 0 .. Len(plan.pieces) : \A s : BufferAfter(plan.pieces, h, s) = NoFragments
    BY <1>3, <1>9, NoBuffers
  <2>3. IsTaken(i, k, g)
    BY <1>2, <1>4, <1>5, <1>6, <1>7, <2>1, <2>2 DEF IsTaken, BufferInv
  <2> QED
    BY <2>3
<1> QED
  BY <1>8, <1>9

\* The fragments of the message that the taken packet belongs to.
LEMMA TakenParts ==
  ASSUME FlightInv, NEW i, NEW k, NEW g, IsTaken(i, k, g)
  PROVE  LET parts == PartsOf(plan.calls, k)
             q     == MessageOf(plan.calls, k)
         IN  /\ k \in DOMAIN plan.calls /\ IsSeq(q) /\ Len(q) <= MaxReassembledSize
             /\ IsSeq(parts) /\ Len(parts) # 0 /\ g \in 1 .. Len(parts)
             /\ \E f : ArePartsOf(parts, q, f)
             /\ PieceIs(plan.pieces[i], plan.calls, k, g)
             /\ Head1.packet.fragmentId = IF g = Len(parts) THEN 0 ELSE g
             /\ g # 0
             /\ Head1.packet.payload = parts[g]
             /\ Sender = plan.calls[k].from
             /\ Head1.packet.header.flags = plan.calls[k].flags
<1>1. PICK parts : parts = PartsOf(plan.calls, k)
  OBVIOUS
<1>2. PICK q : q = MessageOf(plan.calls, k)
  OBVIOUS
<1>3. IsPlan(plan)
  BY DEF FlightInv
<1>4. k \in DOMAIN plan.calls
  BY DEF IsTaken, IsFragment
<1>5. /\ IsSeq(q) /\ Len(q) <= MaxReassembledSize
      /\ plan.calls[k].fragmentSize \in Nat \ {0}
  BY <1>2, <1>3, <1>4, PlannedCalls
<1>6. IsSeq(parts) /\ Len(parts) \in Nat \ {0} /\ \E f : ArePartsOf(parts, q, f)
  BY <1>1, <1>2, <1>5, ChunksAreParts DEF PartsOf
<1>7. g \in 1 .. Len(parts) /\ g <= i
  BY <1>1 DEF IsTaken, IsFragment, PartCount
<1>8. PieceIs(plan.pieces[i], plan.calls, k, g)
  <2>1. Len(plan.pieces) \in Nat
    BY <1>3, PlannedPieces, SeqDomain
  <2>2. g \in 1 .. g /\ i - g + g = i
    BY <1>6, <1>7, <2>1 DEF IsTaken
  <2>3. PieceIs(plan.pieces[i - g + g], plan.calls, k, g)
    BY <2>2 DEF IsTaken, IsFragment
  <2> QED
    BY <2>2, <2>3
<1>9. /\ Head1.packet.fragmentId = IF g = Len(parts) THEN 0 ELSE g
      /\ Head1.packet.payload = parts[g]
      /\ Sender = plan.calls[k].from
      /\ Head1.packet.header.flags = plan.calls[k].flags
  BY <1>1, <1>8 DEF IsTaken, ReadsPiece, PieceIs, Sender, PartCount
<1> QED
  BY <1>1, <1>2, <1>4, <1>5, <1>6, <1>7, <1>8, <1>9

LEMMA TakeBuffers ==
  ASSUME Inv, FlightInv, CalmInv, BufferInv, Ignore \/ HandleFragment \/ HandleMessage
  PROVE  BufferInv'
<1>1. TakePacket /\ UNCHANGED <<plan, flight, clients>>
  BY Zenon DEF Ignore, HandleFragment, HandleMessage, server
<1>2. PICK i, k, g : IsTaken(i, k, g)
  BY <1>1, TakeFragment
<1>3. PICK parts : parts = PartsOf(plan.calls, k)
  OBVIOUS
<1>4. PICK q : q = MessageOf(plan.calls, k)
  OBVIOUS
<1>5. /\ IsSeq(q) /\ Len(q) <= MaxReassembledSize
      /\ IsSeq(parts) /\ Len(parts) # 0 /\ g \in 1 .. Len(parts) /\ g # 0
      /\ PieceIs(plan.pieces[i], plan.calls, k, g)
      /\ Head1.packet.fragmentId = IF g = Len(parts) THEN 0 ELSE g
      /\ Head1.packet.payload = parts[g]
      /\ Sender = plan.calls[k].from
      /\ Head1.packet.header.flags = plan.calls[k].flags
  BY <1>2, <1>3, <1>4, TakenParts
<1>6. PICK f : ArePartsOf(parts, q, f)
  BY <1>2, <1>3, <1>4, TakenParts
<1>7. PICK mine : mine = ("Ack" \notin Head1.packet.header.flags)
  OBVIOUS
<1>8. \A s : /\ BufferAfter(plan.pieces, i - 1, s)
                  = IF s = Sender /\ mine THEN Before(parts, g) ELSE NoFragments
             /\ BufferAfter(plan.pieces, i, s)
                  = IF s = Sender /\ mine /\ g # Len(parts) THEN SubSeq(parts, 1, g)
                    ELSE NoFragments
  <2> TAKE s
  <2>1. PICK same :
          same = (plan.pieces[i].from = s /\ "Ack" \notin plan.pieces[i].flags)
    OBVIOUS
  <2>2. /\ BufferAfter(plan.pieces, i - 1, s) = IF same THEN Before(parts, g) ELSE NoFragments
        /\ BufferAfter(plan.pieces, i, s)
             = IF same /\ g # Len(parts) THEN SubSeq(parts, 1, g) ELSE NoFragments
    <3>1. IsPlan(plan) /\ i \in 1 .. Len(plan.pieces) /\ IsFragment(plan, i, k, g)
      BY <1>2 DEF IsTaken, FlightInv
    <3> QED
      BY <1>3, <2>1, <3>1, BuffersAround
  <2>3. same = (s = Sender /\ mine)
    BY <1>5, <1>7, <2>1 DEF PieceIs
  <2> QED
    BY <2>2, <2>3
<1>9. SUFFICES ASSUME NEW s \in clients
               PROVE  infos'[s].packetFragments = BufferAfter(plan.pieces, i, s)
  BY <1>1, <1>2 DEF BufferInv, IsTaken
<1>10. infos[s].packetFragments = BufferAfter(plan.pieces, i - 1, s)
  BY <1>2 DEF IsTaken
<1>11. s \in Signatures
  BY DEF Inv
<1>12. CASE Ignore
  <2>1. UNCHANGED infos /\ ~(s = Sender /\ mine)
    BY <1>7, <1>12 DEF Ignore, server
  <2> QED
    BY <1>8, <1>10, <2>1
<1>13. CASE HandleFragment
  <2>1. PICK info : info = infos[s] /\ DOMAIN info = InfoFields
    BY <1>11 DEF Inv, IsLogOf
  <2>2. IsSeq(infos) /\ DOMAIN infos = 1 .. Len(infos)
    BY SeqDomain DEF Inv
  <2>3. PICK next : next = NextBuffer(infos[Sender].packetFragments, Head1.packet.fragmentId,
                                      Head1.packet.payload)
    OBVIOUS
  <2>4. infos' = [infos EXCEPT ![Sender].packetFragments = next]
    BY <1>13, <2>3 DEF HandleFragment
  <2>5. s # Sender => infos'[s].packetFragments = infos[s].packetFragments
    BY <1>11, <2>2, <2>4 DEF Signatures
  <2>6. s = Sender => infos'[s].packetFragments = next
    <3> SUFFICES ASSUME s = Sender PROVE infos'[s].packetFragments = next
      OBVIOUS
    <3>1. infos'[s] = [info EXCEPT !.packetFragments = next]
      BY <1>11, <2>1, <2>2, <2>4 DEF Signatures
    <3> QED
      BY <2>1, <3>1 DEF InfoFields
  <2>7. CASE s # Sender
    BY <1>8, <1>10, <2>5, <2>7
  <2>8. CASE s = Sender
    <3>1. mine
      BY <1>7, <1>13 DEF HandleFragment
    <3>2. next = NextBuffer(Before(parts, g), Head1.packet.fragmentId, parts[g])
      BY <1>5, <1>8, <1>10, <2>3, <2>8, <3>1
    <3>3. CASE g = Len(parts)
      BY <1>5, <1>8, <2>6, <2>8, <3>2, <3>3 DEF NextBuffer
    <3>4. CASE g # Len(parts)
      <4>1. next = NextBuffer(Before(parts, g), g, parts[g])
        BY <1>5, <3>2, <3>4
      <4>2. next = SubSeq(parts, 1, g)
        BY <1>5, <1>6, <4>1, BufferTakes
      <4> QED
        BY <1>8, <2>6, <2>8, <3>1, <3>4, <4>2
    <3> QED
      BY <3>3, <3>4
  <2> QED
    BY <2>7, <2>8
<1>14. CASE HandleMessage
  <2>1. Head1.packet.fragmentId = 0
    BY <1>14, Zenon DEF HandleMessage, Completes
  <2>2. g = Len(parts)
    BY <1>5, <2>1
  <2>3. infos'[s].packetFragments = IF s = Sender THEN NoFragments ELSE infos[s].packetFragments
    <3>1. PICK data : data = Reassembled(infos[Sender].packetFragments, Head1.packet.payload)
      OBVIOUS
    <3>2. PICK job : job = JobOf(Sender, data, Handle(Call(Sender), data))
      OBVIOUS
    <3>3. PICK c : c = Sender
      OBVIOUS
    <3> QED
      BY <1>11, <1>14, <3>1, <3>2, <3>3, HandleFields
  <2> QED
    BY <1>8, <1>10, <2>2, <2>3, SMTT(30)
<1> QED
  BY <1>12, <1>13, <1>14

LEMMA TakeMessage ==
  ASSUME Inv, FlightInv, CalmInv, BufferInv, MessageInv, HandleMessage
  PROVE  MessageInv'
<1>1. TakePacket /\ UNCHANGED <<plan, flight>> /\ Sender \in clients
  BY Zenon DEF HandleMessage
<1>2. PICK i, k, g : IsTaken(i, k, g)
  BY <1>1, TakeFragment
<1>3. PICK parts : parts = PartsOf(plan.calls, k)
  OBVIOUS
<1>4. PICK q : q = MessageOf(plan.calls, k)
  OBVIOUS
<1>5. /\ k \in DOMAIN plan.calls /\ IsSeq(q) /\ Len(q) <= MaxReassembledSize
      /\ IsSeq(parts) /\ Len(parts) # 0 /\ g \in 1 .. Len(parts) /\ g # 0
      /\ PieceIs(plan.pieces[i], plan.calls, k, g)
      /\ Head1.packet.fragmentId = IF g = Len(parts) THEN 0 ELSE g
      /\ Head1.packet.payload = parts[g]
      /\ Sender = plan.calls[k].from
      /\ Head1.packet.header.flags = plan.calls[k].flags
  BY <1>2, <1>3, <1>4, TakenParts
<1>6. PICK f : ArePartsOf(parts, q, f)
  BY <1>2, <1>3, <1>4, TakenParts, SMTT(30)
<1>7. g = Len(parts)
  BY <1>5, Zenon DEF HandleMessage, Completes
<1>8. infos[Sender].packetFragments = Before(parts, g)
  <2>1. infos[Sender].packetFragments = BufferAfter(plan.pieces, i - 1, Sender)
    BY <1>1, <1>2, SMTT(30) DEF IsTaken
  <2>2. plan.pieces[i].from = Sender /\ "Ack" \notin plan.pieces[i].flags
    BY <1>5, Zenon DEF HandleMessage, PieceIs
  <2>3. IsPlan(plan) /\ i \in 1 .. Len(plan.pieces) /\ IsFragment(plan, i, k, g)
    BY <1>2 DEF IsTaken, FlightInv
  <2>4. PICK s : s = Sender
    OBVIOUS
  <2>5. BufferAfter(plan.pieces, i - 1, s) = Before(parts, g)
    BY <1>3, <2>2, <2>3, <2>4, BuffersAround
  <2> QED
    BY <2>1, <2>4, <2>5
<1>9. PICK data : data = Reassembled(infos[Sender].packetFragments, Head1.packet.payload)
  OBVIOUS
<1>10. data = q
  BY <1>5, <1>6, <1>7, <1>8, <1>9, BufferCompletes
<1>11. PICK call : call = Call(Sender)
  OBVIOUS
<1>12. PICK result : result = Handle(call, data)
  BY SMTT(30)
<1>13. PICK job : job = JobOf(Sender, data, result) /\ jobs' = Append(jobs, job)
  BY <1>9, <1>11, <1>12, Zenon DEF HandleMessage
<1>14. HoldsCall(plan, job)
  <2>1. /\ job.piece = i /\ job.client = Sender /\ job.data = data /\ job.call = call
        /\ ComesOf(job, result)
    BY <1>2, <1>11, <1>13 DEF JobOf, ComesOf, IsTaken
  <2>2. i \in DOMAIN plan.pieces /\ plan.pieces[i].call = k
    BY <1>2, <1>5, PlannedPieces, SeqDomain DEF PieceIs, IsTaken, FlightInv
  <2>3. call.world = plan.world
    BY <1>11 DEF Call
  <2> QED
    BY <1>4, <1>5, <1>10, <1>12, <2>1, <2>2, <2>3 DEF HoldsCall
<1>15. /\ \A j \in 1 .. Len(jobs) : jobs'[j] = jobs[j]
       /\ DOMAIN jobs' = 1 .. Len(jobs) + 1 /\ DOMAIN jobs = 1 .. Len(jobs)
       /\ jobs'[Len(jobs) + 1] = job /\ Len(jobs) \in Nat
  <2>1. IsSeq(jobs)
    BY DEF Inv
  <2>2. /\ IsSeq(jobs') /\ Len(jobs') = Len(jobs) + 1
        /\ \A j \in 1 .. Len(jobs) : jobs'[j] = jobs[j]
        /\ jobs'[Len(jobs) + 1] = job
    BY <1>13, <2>1, SeqAppend
  <2> QED
    BY <2>1, <2>2, SeqDomain
<1>16. ASSUME NEW j \in 1 .. Len(jobs) + 1 PROVE HoldsCall(plan, jobs'[j])
  <2>1. CASE j = Len(jobs) + 1
    BY <1>14, <1>15, <2>1
  <2>2. CASE j \in 1 .. Len(jobs)
    BY <1>15, <2>2 DEF MessageInv
  <2> QED
    BY <1>15, <2>1, <2>2
<1> QED
  BY <1>1, <1>15, <1>16, SMTT(30) DEF MessageInv

LEMMA KeptMessage ==
  ASSUME NEW p, NEW job, NEW other, HoldsCall(p, job), KeepsJob(job, other)
  PROVE  HoldsCall(p, other)
BY DEF HoldsCall, KeepsJob, ComesOf

PlanInv == FlightInv /\ CalmInv /\ BufferInv /\ MessageInv

LEMMA InitPlan == Init => PlanInv
<1> SUFFICES ASSUME Init PROVE PlanInv
  OBVIOUS
<1>1. clients = {} /\ jobs = << >>
  BY DEF Init
<1>2. DOMAIN jobs = {}
  BY <1>1, SeqEmpty, SeqDomain
<1> QED
  BY <1>1, <1>2, InitFlight DEF PlanInv, BufferInv, MessageInv

LEMMA ConnectBuffers ==
  ASSUME Inv, FlightInv, BufferInv, Connect
  PROVE  BufferInv' /\ Signatures \subseteq Signatures'
<1>1. packets = << >> /\ UNCHANGED <<plan, flight, packets>>
  BY DEF Connect, Idle
<1>2. PICK info : infos' = Append(infos, info) /\ info.packetFragments = NoFragments
  <2>1. PICK guest, id : infos' = Append(infos, ClientInfo(guest, id))
    BY DEF Connect
  <2> QED
    BY <2>1 DEF ClientInfo
<1>3. PICK n \in Nat : n = Len(infos)
  BY SeqDomain DEF Inv
<1>4. /\ IsSeq(infos') /\ Len(infos') = n + 1
      /\ \A s \in 1 .. n : infos'[s] = infos[s]
      /\ infos'[n + 1] = info
  BY <1>2, <1>3, SeqAppend DEF Inv
<1>5. Signatures = 1 .. n /\ Signatures' = 1 .. n + 1
  BY <1>3, <1>4 DEF Signatures
<1>6. PICK h : h = Arrived
  OBVIOUS
<1>7. Arrived' = h
  BY <1>1, <1>6 DEF Arrived
<1>8. h \in 1 .. flight.sent \/ h = 0
  <2>1. flight.sent \in Nat
    BY PlannedPieces, SeqDomain DEF FlightInv
  <2>2. CASE ~IsCalm(plan)
    BY <1>6, <2>2 DEF Arrived
  <2>3. CASE IsCalm(plan) /\ flight.copies = {}
    BY <1>1, <1>6, <2>1, <2>3 DEF Arrived
  <2>4. CASE IsCalm(plan) /\ flight.copies # {}
    <3>1. flight.sent # 0
      BY <2>1, <2>4 DEF FlightInv, IsCopy
    <3>2. h = flight.sent - 1
      BY <1>1, <1>6, <2>4 DEF Arrived
    <3> QED
      BY <2>1, <3>1, <3>2
  <2> QED
    BY <2>2, <2>3, <2>4
<1>9. BufferAfter(plan.pieces, h, n + 1) = NoFragments
  <2>1. h # 0 => plan.pieces[h].from \in 1 .. n
    BY <1>5, <1>8 DEF FlightInv
  <2>2. h # 0 => plan.pieces[h].from # n + 1
    BY <1>3, <2>1
  <2> QED
    BY <2>2 DEF BufferAfter
<1>10. \A s \in clients' : infos'[s].packetFragments = BufferAfter(plan.pieces, h, s)
  <2> TAKE s \in clients'
  <2>1. s \in clients \/ s = n + 1
    BY <1>3 DEF Connect
  <2>2. CASE s \in clients
    BY <1>4, <1>5, <1>6, <2>2 DEF Inv, BufferInv
  <2>3. CASE s = n + 1
    BY <1>2, <1>4, <1>9, <2>3
  <2> QED
    BY <2>1, <2>2, <2>3
<1> QED
  BY <1>1, <1>5, <1>3, <1>7, <1>10 DEF BufferInv

LEMMA FinishBuffers ==
  ASSUME Inv, BufferInv, NEW j \in DOMAIN jobs, Finish(j)
  PROVE  BufferInv' /\ Signatures' = Signatures
<1>1. PICK s \in Signatures : \E job : Ended(s, job, j)
  BY FinishStep
<1>2. PICK job : Ended(s, job, j)
  BY <1>1
<1>3. PICK info : info = infos[s] /\ DOMAIN info = InfoFields
  BY DEF Inv, IsLogOf
<1>4. PICK n, user : infos'[s] = [info EXCEPT !.serverSequenceId = n, !.userId = user]
  <2>1. PICK n : n = NextSequenceId(s, job)
    OBVIOUS
  <2>2. PICK user : user = LoginOf(s, job)
    OBVIOUS
  <2>3. infos'[s] = [infos[s] EXCEPT !.serverSequenceId = NextSequenceId(s, job),
                                     !.userId = LoginOf(s, job)]
    BY <1>2 DEF Ended
  <2>4. infos'[s] = [info EXCEPT !.serverSequenceId = n, !.userId = user]
    BY <1>3, <2>1, <2>2, <2>3
  <2> QED
    BY <2>4, Zenon
<1>5. infos'[s].packetFragments = infos[s].packetFragments
  BY <1>3, <1>4 DEF InfoFields
<1>6. \A c \in Signatures : infos'[c].packetFragments = infos[c].packetFragments
  BY <1>2, <1>5 DEF Ended
<1>7. UNCHANGED <<plan, flight, packets, clients>>
  BY DEF Finish
<1>8. Arrived' = Arrived
  BY <1>7 DEF Arrived
<1> QED
  BY <1>2, <1>6, <1>7, <1>8 DEF BufferInv, Inv, Ended, Signatures

LEMMA NetworkBuffers ==
  ASSUME FlightInv, CalmInv, BufferInv,
         Send \/ \E copy \in flight.copies : Repeat(copy) \/ Lose(copy) \/ Arrive(copy)
  PROVE  BufferInv'
<1>1. UNCHANGED <<plan, infos, clients>> /\ packets = << >>
  BY Zenon DEF Send, Repeat, Lose, Arrive, server, Idle
<1>2. SUFFICES Arrived' = Arrived
  BY <1>1 DEF BufferInv
<1>3. CASE ~IsCalm(plan)
  BY <1>1, <1>3 DEF Arrived
<1>4. CASE IsCalm(plan)
  <2>1. PICK n \in Nat : n = flight.sent
    BY PlannedPieces, SeqDomain DEF FlightInv
  <2>2. DOMAIN flight = {"sent", "copies", "lost", "repeated"}
    BY DEF FlightInv
  <2>3. CASE Send
    <3>1. flight.copies = {}
      BY <1>4, <2>3, Zenon DEF Send, IsCalm
    <3>2. PICK copy : flight' = [flight EXCEPT !.sent = @ + 1, !.copies = @ \union {copy}]
      BY <2>3, Zenon DEF Send
    <3>3. flight'.sent = n + 1 /\ flight'.copies # {}
      BY <2>1, <2>2, <3>2
    <3>4. Arrived = n
      BY <1>1, <1>4, <2>1, <3>1 DEF Arrived
    <3>5. Arrived' = (n + 1) - 1
      BY <1>1, <1>4, <3>3 DEF Arrived
    <3> QED
      BY <3>4, <3>5
  <2>4. ASSUME NEW copy \in flight.copies, Arrive(copy) PROVE Arrived' = Arrived
    <3>1. flight' = [flight EXCEPT !.copies = @ \ {copy}]
      BY <2>4 DEF Arrive
    <3>2. flight'.sent = n
      BY <2>1, <2>2, <3>1
    <3>3. packets' # << >>
      <4>1. PICK i \in 1 .. n : copy.piece = i
        BY <2>1, <2>4 DEF FlightInv, IsCopy
      <4>2. i \in 1 .. Len(plan.pieces)
        BY <2>1, PlannedPieces, SeqDomain DEF FlightInv
      <4>3. PICK q : Taken(PacketsOf(Datagram(i)), copy)
                       = <<[packet |-> q, from |-> copy.from, piece |-> i]>>
        BY <4>1, <4>2, PieceIsRead DEF FlightInv
      <4>4. PICK e : e = [packet |-> q, from |-> copy.from, piece |-> i]
        OBVIOUS
      <4>5. packets' = <<e>>
        BY <2>4, <4>1, <4>3, <4>4 DEF Arrive
      <4> QED
        BY <4>5, SeqSingle, SeqEmpty
    <3>4. Arrived = n - 1
      BY <1>4, <2>1, <2>4 DEF Arrived
    <3>5. Arrived' = n - 1
      BY <1>1, <1>4, <3>2, <3>3 DEF Arrived
    <3> QED
      BY <3>4, <3>5
  <2>5. ASSUME NEW copy \in flight.copies, Repeat(copy) \/ Lose(copy) PROVE Arrived' = Arrived
    BY <1>4, <2>5, NetworkFlight
  <2> QED
    BY <2>3, <2>4, <2>5
<1> QED
  BY <1>3, <1>4, SMTT(30)

LEMMA PlanStep ==
  ASSUME Inv, JobsInv, PlanInv, [Next]_vars
  PROVE  PlanInv'
<1>0. FlightInv /\ CalmInv /\ BufferInv /\ MessageInv
  BY DEF PlanInv
<1>1. ASSUME ~HandleMessage PROVE MessageInv'
  <2>1. UNCHANGED plan
    BY ZenonT(40) DEF Next, Work, Connect, HandleFragment, HandleMessage, Ignore, Finish, Leave, Send,
           Repeat, Lose, Arrive, vars
  <2>2. DOMAIN jobs' = DOMAIN jobs
    <3>1. CASE \E j \in DOMAIN jobs : Finish(j)
      BY <3>1 DEF Finish, FinishJob
    <3>2. CASE UNCHANGED jobs
      BY <3>2
    <3> QED
      BY <1>1, <3>1, <3>2, Zenon DEF Next, Work, Connect, HandleFragment, Ignore, Leave, Send,
                             Repeat, Lose, Arrive, vars
  <2>3. ASSUME NEW j \in DOMAIN jobs PROVE HoldsCall(plan, jobs'[j])
    <3>1. KeepsJob(jobs[j], jobs'[j]) /\ HoldsCall(plan, jobs[j])
      BY <1>0, JobsGrow DEF MessageInv
    <3> QED
      BY <3>1, KeptMessage
  <2> QED
    BY <2>1, <2>2, <2>3, SMTT(30) DEF MessageInv
<1>2. CASE Connect
  <2>1. UNCHANGED <<plan, flight, packets>>
    BY <1>2 DEF Connect
  <2>2. BufferInv' /\ Signatures \subseteq Signatures'
    BY <1>0, <1>2, ConnectBuffers
  <2>3. FlightInv' /\ CalmInv'
    BY <1>0, <2>1, <2>2, ServerFlight
  <2>4. ~HandleMessage
    BY <1>2, SeqEmpty DEF Connect, Idle, HandleMessage, TakePacket
  <2> QED
    BY <1>1, <2>2, <2>3, <2>4 DEF PlanInv
<1>3. CASE Ignore \/ HandleFragment \/ HandleMessage
  <2>1. TakePacket /\ UNCHANGED <<plan, flight>>
    BY <1>3, Zenon DEF Ignore, HandleFragment, HandleMessage
  <2>2. packets' = << >>
    BY <1>0, <2>1, TakeFragment DEF IsTaken
  <2>3. Signatures \subseteq Signatures'
    <3>1. CASE Ignore
      BY <3>1 DEF Ignore, server, Signatures
    <3>2. CASE HandleFragment
      <4>1. DOMAIN infos' = DOMAIN infos /\ IsSeq(infos)
        BY <3>2 DEF HandleFragment, Inv
      <4>2. PICK q : q = infos
        OBVIOUS
      <4>3. IsSeq(q) /\ DOMAIN q = 1 .. Len(q)
        BY <4>1, <4>2, SeqDomain
      <4>4. PICK s \in 1 .. Len(q) : s = Sender
        BY <3>2, <4>2 DEF HandleFragment, Inv, Signatures
      <4>5. PICK e : infos' = [q EXCEPT ![s] = e]
        <5>1. PICK e : e = [q[s] EXCEPT !.packetFragments =
                              NextBuffer(@, Head1.packet.fragmentId, Head1.packet.payload)]
          OBVIOUS
        <5>2. infos' = [q EXCEPT ![s] = e]
          BY <3>2, <4>2, <4>4, <5>1 DEF HandleFragment
        <5> QED
          BY <5>2
      <4>6. Len(infos') = Len(infos)
        BY <4>2, <4>3, <4>5, SeqExcept
      <4> QED
        BY <4>6 DEF Signatures
    <3>3. CASE HandleMessage
      <4>1. Len(infos') = Len(infos)
        BY <3>3, HandleStep DEF TookMessage
      <4> QED
        BY <4>1 DEF Signatures
    <3> QED
      BY <1>3, <3>1, <3>2, <3>3
  <2>4. FlightInv' /\ CalmInv'
    BY <1>0, <2>1, <2>2, <2>3, ServerFlight
  <2>5. BufferInv'
    BY <1>0, <1>3, TakeBuffers
  <2>6. MessageInv'
    BY <1>0, <1>1, TakeMessage
  <2> QED
    BY <2>4, <2>5, <2>6, SMTT(30) DEF PlanInv
<1>4. CASE \E j \in DOMAIN jobs : Finish(j)
  <2>1. PICK j \in DOMAIN jobs : Finish(j)
    BY <1>4
  <2>2. UNCHANGED <<plan, flight, packets>> /\ packets = << >>
    BY <2>1 DEF Finish, FinishJob, Idle
  <2>3. BufferInv' /\ Signatures' = Signatures
    BY <1>0, <2>1, FinishBuffers
  <2>4. FlightInv' /\ CalmInv'
    BY <1>0, <2>2, <2>3, ServerFlight
  <2>5. ~HandleMessage
    BY <2>2 DEF HandleMessage, TakePacket
  <2> QED
    BY <1>1, <2>3, <2>4, <2>5 DEF PlanInv
<1>5. ASSUME NEW s \in Signatures, Leave(s) PROVE PlanInv'
  <2>1. UNCHANGED <<plan, flight, packets, infos>> /\ clients' \subseteq clients /\ packets = << >>
    BY <1>5 DEF Leave, Idle
  <2>2. Signatures' = Signatures /\ Arrived' = Arrived
    BY <2>1 DEF Signatures, Arrived
  <2>3. BufferInv'
    BY <1>0, <2>1, <2>2 DEF BufferInv
  <2>4. FlightInv' /\ CalmInv'
    BY <1>0, <2>1, <2>2, ServerFlight
  <2>5. ~HandleMessage
    BY <2>1 DEF HandleMessage, TakePacket
  <2> QED
    BY <1>1, <2>3, <2>4, <2>5 DEF PlanInv
<1>6. CASE Send \/ \E copy \in flight.copies : Repeat(copy) \/ Lose(copy) \/ Arrive(copy)
  <2>1. BufferInv'
    BY <1>0, <1>6, NetworkBuffers
  <2>2. FlightInv' /\ CalmInv'
    BY <1>0, <1>6, SendFlight, NetworkFlight, ArriveFlight, SMTT(30)
  <2>3. ~HandleMessage
    BY <1>6, Zenon DEF Send, Repeat, Lose, Arrive, Idle, HandleMessage, TakePacket
  <2> QED
    BY <1>1, <2>1, <2>2, <2>3 DEF PlanInv
<1>7. CASE UNCHANGED vars
  BY <1>0, <1>7 DEF vars, server, PlanInv, FlightInv, CalmInv, BufferInv, MessageInv, IsAt,
                    ReadsPiece, Arrived, Signatures
<1> QED
  BY <1>2, <1>3, <1>4, <1>5, <1>6, <1>7 DEF Next, Work

\* Together with what is known of the jobs.
SentInv == ExchangeInv /\ (AnswersAreMessages => PlanInv)

LEMMA NextSent ==
  ASSUME SentInv, [Next]_vars
  PROVE  SentInv'
<1>1. ExchangeInv /\ ExchangeInv'
  BY NextExchange DEF SentInv
<1>2. ASSUME AnswersAreMessages' PROVE PlanInv'
  <2>1. AnswersAreMessages
    BY <1>1, <1>2, SupposedBefore DEF ExchangeInv
  <2>2. Inv /\ JobsInv /\ PlanInv
    BY <1>1, <2>1 DEF ExchangeInv, SentInv
  <2> QED
    BY <2>2, PlanStep
<1> QED
  BY <1>1, <1>2 DEF SentInv

LEMMA SentIsInvariant == Spec => []SentInv
<1>1. Init => SentInv
  BY InitExchange, InitPlan DEF SentInv
<1> QED
  BY <1>1, NextSent, PTL DEF Spec

\* For the plans of PlansAssumption: if what the handlers answer are messages, a message
\* that the dispatcher gets is one that the client sent, whole, and it reads the request
\* of the client's call.  A message of several fragments, of any size, is one that comes
\* in order and once; packets that are late, repeated or lost are those of plans whose
\* messages are one fragment each.  The requests are to protocols whose id is below 127
\* or above 254, and datagrams may have any damaged neighbours.
THEOREM HandlersReadTheCalls == Spec => [](AnswersAreMessages => HandlersGetWhatWasSent)
<1>1. ASSUME PlanInv PROVE HandlersGetWhatWasSent
  <2> SUFFICES ASSUME NEW j \in DOMAIN jobs, CallOf(jobs[j]).data = << >>
               PROVE  /\ CallOf(jobs[j]).from = jobs[j].client
                      /\ ParseRmcPacket(jobs[j].data)
                           = Got(RequestOf(plan.calls, CallIdOf(jobs[j])), << >>)
    BY DEF HandlersGetWhatWasSent
  <2>1. PICK k : k = CallIdOf(jobs[j])
    OBVIOUS
  <2>2. /\ k \in DOMAIN plan.calls /\ plan.calls[k].from = jobs[j].client
        /\ CallOf(jobs[j]) = plan.calls[k] /\ plan.calls[k].data = << >>
        /\ jobs[j].data = MessageOf(plan.calls, k)
    BY <1>1, <2>1 DEF PlanInv, MessageInv, HoldsCall, CallOf, CallIdOf
  <2>3. IsPlannedCall(plan.calls, k, plan.guests, plan.world.service)
    BY <1>1, <2>2 DEF PlanInv, FlightInv, IsPlan
  <2>4. PICK call : call = plan.calls[k]
    OBVIOUS
  <2>5. /\ IsSeq(call.parameters) /\ IsProtocolId(call.protocolId)
        /\ call.methodId \in Nat /\ call.methodId < 32768
    <3>1. IsRequest(plan.world.service, call)
      BY <2>2, <2>3, <2>4 DEF IsPlannedCall
    <3>2. IsSequence(call.parameters)
      BY <3>1 DEF IsRequest
    <3>3. IsProtocolId(call.protocolId) /\ call.methodId \in Nat /\ call.methodId < 32768
      <4>1. IsProtocolId(call.protocolId)
        BY <3>1 DEF IsRequest
      <4>2. call.methodId \in Nat
        BY <3>1 DEF IsRequest
      <4>3. call.methodId < 32768
        BY <3>1 DEF IsRequest
      <4> QED
        BY <4>1, <4>2, <4>3
    <3> QED
      BY <3>2, <3>3 DEF IsSequence, IsSeq
  <2>6. k \in Nat
    <3>1. IsSeq(plan.calls)
      BY <1>1, PlannedCalls DEF PlanInv, FlightInv
    <3> QED
      BY <2>2, <3>1, SeqDomain
  <2>7. PICK r : r = RequestOf(plan.calls, k)
    OBVIOUS
  <2>8. ParseRmcPacket(EncodeRmcRequest(r)) = Got(r, << >>)
    BY <2>4, <2>5, <2>6, <2>7, RequestIsRead DEF RequestOf
  <2>9. jobs[j].data = EncodeRmcRequest(r)
    BY <2>2, <2>7 DEF MessageOf
  <2> QED
    BY <2>1, <2>2, <2>7, <2>8, <2>9
<1>2. SentInv => (AnswersAreMessages => HandlersGetWhatWasSent)
  BY <1>1 DEF SentInv
<1> QED
  BY <1>2, SentIsInvariant, PTL

-----------------------------------------------------------------------------
(***************************************************************************)
(* The messages a client collects are the answers of its jobs.             *)
(***************************************************************************)
\* Whole messages were collected, each of them one of these.
IsHeld(got, responses) ==
  \E ms : /\ IsSeq(ms) /\ got = [messages |-> ms, parts |-> << >>]
          /\ \A m \in DOMAIN ms : ms[m] \in responses

LEMMA NothingHeld == IsHeld(Collected(<< >>), {})
<1>1. PICK c : IsCollecting(c, << >>, Len(<< >>)) /\ Collected(<< >>) = c[Len(<< >>)]
  BY SeqEmpty, CollectedSteps
<1>2. Collected(<< >>) = Nothing
  BY <1>1, SeqEmpty DEF IsCollecting
<1>3. DOMAIN << >> = {}
  BY SeqEmpty, SeqDomain
<1> QED
  BY <1>2, <1>3, SeqEmpty DEF IsHeld, Nothing

GrowTo(parts, q, f) ==
  /\ f[0] = 0 /\ f[Len(parts)] = Len(q)
  /\ \A i \in 1 .. Len(parts) : SubSeq(q, 1, f[i - 1]) \o parts[i] = SubSeq(q, 1, f[i])

LEMMA PartsGrow ==
  ASSUME NEW q, IsSeq(q), NEW f, NEW parts, ArePartsOf(parts, q, f)
  PROVE  GrowTo(parts, q, f)
<1>1. \A i \in 1 .. Len(parts) :
        /\ f[i - 1] \in 0 .. Len(q) /\ f[i] \in 0 .. Len(q) /\ f[i - 1] <= f[i]
        /\ IsSeq(parts[i]) /\ Len(parts[i]) = f[i] - f[i - 1]
        /\ SubSeq(q, 1, f[i - 1]) \o parts[i] = SubSeq(q, 1, f[i])
  BY PartLength, Zenon
<1> QED
  BY <1>1 DEF ArePartsOf, AreCuts, GrowTo

\* The fragments of an answer are put together to that answer.
LEMMA OneMoreHeld ==
  ASSUME NEW log, IsSeq(log), NEW R, IsHeld(Collected(log), R),
         NEW part, IsSeq(part), Len(part) # 0,
         NEW data, IsSeq(data), NEW f, NEW chunks, ArePartsOf(chunks, data, f), Len(chunks) = Len(part),
         \A i \in 1 .. Len(part) : /\ Received(part[i]).fragmentId = Len(part) - i
                                   /\ Received(part[i]).payload = chunks[i]
  PROVE  IsHeld(Collected(log \o part), R \union {data})
<1> DEFINE whole == log \o part
<1>1. PICK m \in Nat : m = Len(log)
  BY SeqDomain
<1>2. PICK k \in Nat \ {0} : k = Len(part)
  BY SeqDomain
<1>3. /\ IsSeq(whole) /\ Len(whole) = m + k
      /\ \A i \in 1 .. m + k : whole[i] = IF i <= m THEN log[i] ELSE part[i - m]
  BY <1>1, <1>2, SeqConcat
<1> HIDE DEF whole
<1>4. PICK c : IsCollecting(c, log, m) /\ Collected(log) = c[m]
  BY <1>1, CollectedSteps
<1>5. PICK d : IsCollecting(d, whole, m + k) /\ Collected(whole) = d[m + k]
  BY <1>3, CollectedSteps
<1>6. d[m] = Collected(log)
  <2>1. PICK l \in Nat : l = m + k
    OBVIOUS
  <2>2. m <= l /\ BeginAlike(log, whole, m)
    BY <1>3, <2>1 DEF BeginAlike
  <2>3. IsCollecting(c, log, m) /\ IsCollecting(d, whole, l)
    BY <1>4, <1>5, <2>1
  <2>4. c[m] = d[m]
    BY <1>1, <2>1, <2>2, <2>3, SameSteps
  <2> QED
    BY <1>4, <2>4
<1>7. PICK ms : /\ IsSeq(ms) /\ Collected(log) = [messages |-> ms, parts |-> << >>]
                /\ \A n \in DOMAIN ms : ms[n] \in R
  BY DEF IsHeld
<1>8. /\ f[0] = 0 /\ f[k] = Len(data)
      /\ \A i \in 1 .. k : SubSeq(data, 1, f[i - 1]) \o chunks[i] = SubSeq(data, 1, f[i])
  <2>1. GrowTo(chunks, data, f)
    BY PartsGrow
  <2>2. Len(chunks) = k
    BY <1>2
  <2> QED
    BY <2>1, <2>2 DEF GrowTo
<1>9. ASSUME NEW i \in 1 .. k
      PROVE  /\ d[m + i] = Collect(d[m + (i - 1)], Received(part[i]))
             /\ Received(part[i]).fragmentId = k - i /\ Received(part[i]).payload = chunks[i]
  <2>1. m + i \in 1 .. m + k /\ ~(m + i <= m) /\ m + i - m = i /\ m + i - 1 = m + (i - 1)
    BY <1>9
  <2>2. whole[m + i] = part[i]
    BY <1>3, <2>1
  <2>3. d[m + i] = CollectPacket(d[m + (i - 1)], part[i])
    BY <1>5, <2>1, <2>2 DEF IsCollecting
  <2> QED
    BY <1>2, <2>3 DEF CollectPacket
<1> DEFINE IsPartial(i) == d[m + i] = [messages |-> ms, parts |-> SubSeq(data, 1, f[i])]
           Ns == {i \in Nat : i < k => IsPartial(i)}
<1>10. IsPartial(0)
  <2>1. m + 0 = m
    OBVIOUS
  <2>2. SubSeq(data, 1, f[0]) = << >>
    BY <1>8, EmptyPrefix
  <2> QED
    BY <1>6, <1>7, <2>1, <2>2
<1>11. ASSUME NEW i \in Nat, i + 1 < k, IsPartial(i) PROVE IsPartial(i + 1)
  <2>1. PICK n \in 1 .. k : n = i + 1 /\ n - 1 = i /\ k - n # 0
    BY <1>11
  <2>2. PICK r : r = Received(part[n])
    OBVIOUS
  <2>3. d[m + n] = Collect(d[m + (n - 1)], r) /\ r.fragmentId = k - n /\ r.payload = chunks[n]
    BY <1>9, <2>2
  <2>4. PICK q : q = SubSeq(data, 1, f[i])
    OBVIOUS
  <2>5. Collect([messages |-> ms, parts |-> q], r) = [messages |-> ms, parts |-> q \o r.payload]
    BY <2>1, <2>3 DEF Collect
  <2>6. q \o chunks[n] = SubSeq(data, 1, f[n])
    <3>1. SubSeq(data, 1, f[n - 1]) \o chunks[n] = SubSeq(data, 1, f[n])
      BY <1>8
    <3> QED
      BY <2>1, <2>4, <3>1
  <2>7. d[m + n] = [messages |-> ms, parts |-> SubSeq(data, 1, f[n])]
    BY <1>11, <2>1, <2>3, <2>4, <2>5, <2>6
  <2> QED
    BY <2>1, <2>7
<1>12. k - 1 \in Ns
  <2> HIDE DEF IsPartial
  <2>1. 0 \in Ns
    BY <1>10
  <2>2. ASSUME NEW i \in Nat, i \in Ns PROVE i + 1 \in Ns
    BY <1>11, <2>2
  <2>3. Nat \subseteq Ns
    <3> HIDE DEF Ns
    <3> QED
      BY <2>1, <2>2, NatSetInduction
  <2> QED
    BY <2>3
<1>13. PICK q : d[m + (k - 1)] = [messages |-> ms, parts |-> q] /\ q = SubSeq(data, 1, f[k - 1])
  <2>1. IsPartial(k - 1)
    <3> HIDE DEF IsPartial
    <3> QED
      BY <1>12
  <2> QED
    BY <2>1
<1>14. PICK r : r = Received(part[k])
  OBVIOUS
<1>15. d[m + k] = Collect(d[m + (k - 1)], r) /\ r.fragmentId = 0 /\ r.payload = chunks[k]
  <2>1. k \in 1 .. k /\ k - k = 0
    OBVIOUS
  <2> QED
    BY <1>9, <1>14, <2>1
<1>16. q \o r.payload = data
  <2>1. k \in 1 .. k
    OBVIOUS
  <2>2. q \o r.payload = SubSeq(data, 1, Len(data))
    BY <1>8, <1>13, <1>15, <2>1
  <2> QED
    BY <2>2, WholeSubSeq
<1>17. d[m + k] = [messages |-> Append(ms, data), parts |-> << >>]
  <2>1. d[m + k] = [messages |-> Append(ms, q \o r.payload), parts |-> << >>]
    <3>1. d[m + (k - 1)] = [messages |-> ms, parts |-> q]
      BY <1>13
    <3>2. d[m + k] = Collect([messages |-> ms, parts |-> q], r) /\ r.fragmentId = 0
      BY <1>15, <3>1
    <3> QED
      BY <3>2 DEF Collect
  <2> QED
    BY <1>16, <2>1
<1>18. /\ IsSeq(Append(ms, data))
       /\ \A n \in DOMAIN Append(ms, data) : Append(ms, data)[n] \in R \union {data}
  <2>1. PICK l \in Nat : l = Len(ms) /\ DOMAIN ms = 1 .. l
    BY <1>7, SeqDomain
  <2>2. PICK new : new = Append(ms, data)
    OBVIOUS
  <2>3. /\ IsSeq(new) /\ Len(new) = l + 1 /\ \A i \in 1 .. l : new[i] = ms[i]
        /\ new[l + 1] = data
    BY <1>7, <2>1, <2>2, SeqAppend
  <2>4. DOMAIN new = 1 .. l + 1
    BY <2>3, SeqDomain
  <2>5. ASSUME NEW n \in 1 .. l + 1 PROVE new[n] \in R \union {data}
    <3>1. n \in 1 .. l \/ n = l + 1
      BY <2>5
    <3> QED
      BY <1>7, <2>1, <2>3, <3>1
  <2> QED
    BY <2>2, <2>3, <2>4, <2>5
<1> QED
  BY <1>5, <1>17, <1>18 DEF IsHeld, whole

\* What has been answered on a connection.
Given(js, s) == {js[j].response : j \in Settled(js, s)}

HeldInv == \A s \in Signatures : IsHeld(Collected(answered[s]), Given(jobs, s))

LEMMA HeldStep ==
  ASSUME JobsInv, Inv, HeldInv, [Next]_vars, AnswersAreMessages', AnswersHaveFragmentIds'
  PROVE  HeldInv'
<1> SUFFICES ASSUME NEW s \in Signatures'
             PROVE  IsHeld(Collected(answered'[s]), Given(jobs', s))
  BY DEF HeldInv
<1>1. CASE Fresh(s)
  BY <1>1, NothingHeld DEF Fresh, Given
<1>2. CASE Kept(s)
  <2>1. Given(jobs', s) = Given(jobs, s)
    <3>1. Settled(jobs', s) = Settled(jobs, s)
      BY <1>2 DEF Kept
    <3>2. \A j \in Settled(jobs, s) : jobs'[j].response = jobs[j].response
      BY JobsGrow DEF KeepsJob, Settled
    <3> QED
      BY <3>1, <3>2 DEF Given
  <2> QED
    BY <1>2, <2>1 DEF Kept, HeldInv
<1>3. ASSUME NEW job, NEW j, AnsweredOne(s, job, j)
      PROVE  IsHeld(Collected(answered'[s]), Given(jobs', s))
  <2>1. PICK log : log = answered[s]
    OBVIOUS
  <2>2. PICK R : R = Given(jobs, s)
    OBVIOUS
  <2>3. IsSeq(log) /\ IsHeld(Collected(log), R)
    BY <1>3, <2>1, <2>2 DEF AnsweredOne, Inv, IsLogOf, HeldInv
  <2>4. PICK data : data = job.response /\ IsSeq(data)
    BY <1>3 DEF AnsweredOne
  <2>5. Given(jobs', s) = R \union {data}
    <3>1. Settled(jobs', s) = Settled(jobs, s) \union {j} /\ jobs'[j].response = data
      BY <1>3, <2>4 DEF AnsweredOne
    <3>2. \A i \in Settled(jobs, s) : jobs'[i].response = jobs[i].response
      BY JobsGrow DEF KeepsJob, Settled
    <3> QED
      BY <2>2, <3>1, <3>2 DEF Given
  <2>6. PICK part : part = Fragmented(s, job)
    OBVIOUS
  <2>7. PICK n : n = Count(data)
    OBVIOUS
  <2>8. n \in 1 .. FragmentIdSpace
    BY <1>3, <2>4, <2>7 DEF AnsweredOne, AnswersHaveFragmentIds, Count
  <2>9. /\ IsSeq(part) /\ Len(part) = n
        /\ \A i \in 1 .. n : IsServerPacket(part[i]) /\ part[i].fragmentId = n - i
    BY <1>3, <2>4, <2>6, <2>7, FragmentedPackets DEF AnsweredOne
  <2>10. PICK chunks : chunks = [i \in 1 .. n |-> Chunk(data, i)]
    OBVIOUS
  <2>11. /\ IsSeq(chunks) /\ Len(chunks) = n
         /\ \A i \in 1 .. n : chunks[i] = Chunk(data, i)
    <3>1. DOMAIN chunks = 1 .. n /\ chunks = [i \in 1 .. n |-> chunks[i]]
      BY <2>10
    <3>2. n \in Nat
      BY <2>8
    <3> QED
      BY <2>10, <3>1, <3>2, SeqFunction
  <2>12. PICK f : ArePartsOf(chunks, data, f)
    BY <2>4, <2>7, <2>11, AnswerIsWhole
  <2>13. ASSUME NEW i \in 1 .. n
         PROVE  Received(part[i]).fragmentId = n - i /\ Received(part[i]).payload = chunks[i]
    <3>1. /\ Received(part[i]).fragmentId = (n - i) % FragmentIdSpace
          /\ Received(part[i]).payload = part[i].payload
      BY <2>9, ReceivedPacket
    <3>2. (n - i) % FragmentIdSpace = n - i
      <4>1. n - i \in 0 .. FragmentIdSpace - 1 /\ FragmentIdSpace \in Nat \ {0}
        BY <2>8, PacketAssumption
      <4> QED
        BY <4>1
    <3>3. part[i].payload = Chunk(data, i)
      <4>1. part[i] = AnswerPacket(s, job, i)
        BY <2>4, <2>6, <2>7 DEF Fragmented
      <4> QED
        BY <2>4, <4>1 DEF AnswerPacket
    <3> QED
      BY <2>11, <3>1, <3>2, <3>3
  <2>14. IsHeld(Collected(log \o part), R \union {data})
    <3>1. /\ Len(part) = n /\ Len(chunks) = Len(part) /\ Len(part) # 0
          /\ IsSeq(part) /\ IsSeq(log) /\ IsSeq(data) /\ ArePartsOf(chunks, data, f)
      BY <2>3, <2>4, <2>8, <2>9, <2>11, <2>12
    <3>2. \A i \in 1 .. Len(part) : /\ Received(part[i]).fragmentId = Len(part) - i
                                    /\ Received(part[i]).payload = chunks[i]
      BY <2>13, <3>1
    <3>3. IsHeld(Collected(log), R)
      BY <2>3
    <3> QED
      BY <3>1, <3>2, <3>3, OneMoreHeld
  <2> QED
    BY <1>3, <2>1, <2>5, <2>6, <2>14 DEF AnsweredOne
<1> QED
  BY <1>1, <1>2, <1>3, StepOfOne DEF OneAtMost

LEMMA InitHeld == Init => HeldInv
<1> SUFFICES ASSUME Init PROVE HeldInv
  OBVIOUS
<1>1. infos = << >>
  BY DEF Init
<1>2. Signatures = {}
  BY <1>1, SeqEmpty DEF Signatures
<1> QED
  BY <1>2 DEF HeldInv

\* A message is the response of a job that has been answered.
LEMMA MessagesAreGiven ==
  ASSUME NEW s \in Signatures, HeldInv
  PROVE  /\ IsSeq(Messages(answered[s]))
         /\ \A m \in DOMAIN Messages(answered[s]) :
              \E j \in Settled(jobs, s) : Messages(answered[s])[m] = jobs[j].response
<1>1. PICK ms : /\ IsSeq(ms) /\ Collected(answered[s]) = [messages |-> ms, parts |-> << >>]
                /\ \A m \in DOMAIN ms : ms[m] \in Given(jobs, s)
  BY DEF HeldInv, IsHeld
<1>2. Messages(answered[s]) = ms
  BY <1>1 DEF Messages, Collected, Nothing
<1> QED
  BY <1>1, <1>2 DEF Given

-----------------------------------------------------------------------------
(***************************************************************************)
(* A response is read as it was written.                                   *)
(***************************************************************************)
\* The cells of a response after its protocol id.
Triple(a, b, c) == <<a, b, c>>

TripleThen(a, b, c, q) ==
  /\ IsSeq(Triple(a, b, c))
  /\ Triple(a, b, c) \o q = <<a>> \o (<<b>> \o (<<c>> \o q))

LEMMA TripleIsRead ==
  ASSUME NEW a, NEW b, NEW c, NEW q, IsSeq(q)
  PROVE  TripleThen(a, b, c, q)
<1>1. PICK A, BC, t, u : A = <<a>> /\ BC = <<b, c>> /\ t = <<a, b, c>> /\ u = A \o BC
  OBVIOUS
<1>2. IsSeq(A) /\ Len(A) = 1 /\ A[1] = a
  BY <1>1, SeqSingle
<1>3. IsSeq(BC) /\ Len(BC) = 2 /\ BC[1] = b /\ BC[2] = c
  <2>1. BC = [i \in 1 .. 2 |-> BC[i]] /\ DOMAIN BC = 1 .. 2
    BY <1>1
  <2> QED
    BY <1>1, <2>1, SeqFunction
<1>4. IsSeq(t) /\ Len(t) = 3 /\ t[1] = a /\ t[2] = b /\ t[3] = c
  <2>1. t = [i \in 1 .. 3 |-> t[i]] /\ DOMAIN t = 1 .. 3
    BY <1>1
  <2> QED
    BY <1>1, <2>1, SeqFunction
<1>5. /\ IsSeq(u) /\ Len(u) = Len(A) + Len(BC)
      /\ \A i \in 1 .. Len(A) + Len(BC) : u[i] = IF i <= Len(A) THEN A[i] ELSE BC[i - Len(A)]
  <2>1. /\ IsSeq(A \o BC) /\ Len(A \o BC) = Len(A) + Len(BC)
        /\ \A i \in 1 .. Len(A) + Len(BC) :
             (A \o BC)[i] = IF i <= Len(A) THEN A[i] ELSE BC[i - Len(A)]
    BY <1>2, <1>3, SeqConcat, Zenon
  <2> QED
    BY <1>1, <2>1
<1>6. t = u
  <2>1. Len(u) = 3 /\ u[1] = a /\ u[2] = b /\ u[3] = c
    BY <1>2, <1>3, <1>5
  <2>2. \A i \in 1 .. 3 : t[i] = u[i]
    <3> TAKE i \in 1 .. 3
    <3>1. i = 1 \/ i = 2 \/ i = 3
      OBVIOUS
    <3> QED
      BY <1>4, <2>1, <3>1
  <2> QED
    BY <1>4, <1>5, <2>1, <2>2, SeqExtensional
<1>7. \A x, y, z : (<<x>> \o <<y, z>>) \o q = <<x>> \o (<<y>> \o (<<z>> \o q))
  BY ThreeCells, Zenon
<1>8. \A y, z : (<<a>> \o <<y, z>>) \o q = <<a>> \o (<<y>> \o (<<z>> \o q))
  BY <1>7, Zenon
<1>9. (<<a>> \o <<b, c>>) \o q = <<a>> \o (<<b>> \o (<<c>> \o q))
  BY <1>8
<1> QED
  BY <1>1, <1>4, <1>6, <1>9 DEF TripleThen, Triple

LEMMA ResponseIdIsRead ==
  ASSUME NEW id \in Nat, NEW q, IsSeq(q)
  PROVE  /\ IsSeq(ResponseId(id) \o q) /\ Len(ResponseId(id) \o q) >= 1
         /\ ReadId(127, ResponseId(id) \o q) = Got(id, q)
         /\ ~HasBit((ResponseId(id) \o q)[1].n, 128)
<1>1. ASSUME NEW n \in Nat, n < 128
      PROVE  ~HasBit(n, 128)
  <2>1. WithBit(n, 128) = n + 128
    BY <1>1, BitIsRead
  <2> QED
    BY <1>1, <2>1 DEF WithBit
<1>2. PICK body : body = ResponseId(id) \o q
  OBVIOUS
<1>3. CASE id < 127
  <2>1. body = <<Number(1, id)>> \o q
    BY <1>2, <1>3 DEF ResponseId
  <2>2. IsSeq(body) /\ Len(body) = Len(q) + 1 /\ body[1] = Number(1, id)
        /\ ReadNumber(1, body) = Got(id, q)
    BY <2>1, NumberIsRead
  <2>3. ReadId(127, body) = Got(id, q)
    <3>1. id # 127
      BY <1>3
    <3> QED
      BY <2>2, <3>1, GotIs DEF ReadId, Then
  <2>4. ~HasBit(body[1].n, 128)
    BY <1>1, <1>3, <2>2 DEF Number
  <2>5. Len(body) >= 1
    BY <2>2, SeqDomain
  <2> QED
    BY <1>2, <2>2, <2>3, <2>4, <2>5
<1>4. CASE ~(id < 127)
  <2>1. PICK a, b : a = Number(1, 127) /\ b = Number(2, id)
    OBVIOUS
  <2>2. PICK A, B, AB : A = <<a>> /\ B = <<b>> /\ AB = <<a, b>>
    OBVIOUS
  <2>3. IsSeq(A) /\ IsSeq(B) /\ AB = A \o B
    BY <2>2, SeqSingle, PairIsConcat
  <2>4. body = AB \o q
    BY <1>2, <1>4, <2>1, <2>2 DEF ResponseId
  <2>5. (A \o B) \o q = A \o (B \o q)
    <3>1. IsSeq(A) /\ IsSeq(B) /\ IsSeq(q)
      BY <2>3
    <3> QED
      BY <3>1, ConcatIsAssociative
  <2>6. PICK q3 : q3 = <<Number(2, id)>> \o q
    OBVIOUS
  <2>7. IsSeq(q3) /\ ReadNumber(2, q3) = Got(id, q)
    BY <2>6, NumberIsRead
  <2>8. body = <<Number(1, 127)>> \o q3
    BY <2>1, <2>2, <2>3, <2>4, <2>5, <2>6
  <2>9. /\ IsSeq(body) /\ Len(body) = Len(q3) + 1 /\ body[1] = Number(1, 127)
        /\ ReadNumber(1, body) = Got(127, q3)
    BY <2>7, <2>8, NumberIsRead
  <2>10. ReadId(127, body) = Got(id, q)
    BY <2>7, <2>9, GotIs DEF ReadId, Then
  <2>11. ~HasBit(body[1].n, 128)
    BY <1>1, <2>9 DEF Number
  <2>12. Len(body) >= 1
    BY <2>7, <2>9, SeqDomain
  <2> QED
    BY <1>2, <2>9, <2>10, <2>11, <2>12
<1> QED
  BY <1>3, <1>4

LEMMA ResponseIsRead ==
  ASSUME NEW id \in Nat, NEW status, NEW first, NEW second, NEW data, IsSeq(data)
  PROVE  ParseRmcPacket(WithSize(ResponseId(id) \o
           (Triple(Number(1, status), Number(4, first), Number(4, second)) \o data)))
           = ResponseWith(id, status, first, second, data)
<1>1. PICK q1 : q1 = <<Number(4, second)>> \o data
  OBVIOUS
<1>2. PICK q2 : q2 = <<Number(4, first)>> \o q1
  OBVIOUS
<1>3. PICK q3 : q3 = <<Number(1, status)>> \o q2
  OBVIOUS
<1>4. /\ IsSeq(q1) /\ ReadNumber(4, q1) = Got(second, data)
  BY <1>1, NumberIsRead
<1>5. /\ IsSeq(q2) /\ ReadNumber(4, q2) = Got(first, q1)
  BY <1>2, <1>4, NumberIsRead
<1>6. /\ IsSeq(q3) /\ ReadNumber(1, q3) = Got(status, q2)
  BY <1>3, <1>5, NumberIsRead
<1>7. Triple(Number(1, status), Number(4, first), Number(4, second)) \o data = q3
  <2>1. PICK a, b, c : a = Number(1, status) /\ b = Number(4, first) /\ c = Number(4, second)
    OBVIOUS
  <2>2. Triple(a, b, c) \o data = <<a>> \o (<<b>> \o (<<c>> \o data))
    <3>1. TripleThen(a, b, c, data)
      BY TripleIsRead
    <3> QED
      BY <3>1 DEF TripleThen
  <2> QED
    BY <1>1, <1>2, <1>3, <2>1, <2>2
<1>8. PICK body : body = ResponseId(id) \o q3
  OBVIOUS
<1>9. /\ IsSeq(body) /\ Len(body) >= 1 /\ ReadId(127, body) = Got(id, q3)
      /\ ~HasBit(body[1].n, 128)
  BY <1>6, <1>8, ResponseIdIsRead
<1>10. PICK cells : cells = <<Number(4, Len(body))>> \o body
  OBVIOUS
<1>11. IsSeq(cells) /\ Len(cells) = Len(body) + 1 /\ ReadNumber(4, cells) = Got(Len(body), body)
  BY <1>9, <1>10, NumberIsRead
<1>12. ~(Len(cells) < 2)
  <2>1. Len(body) \in Nat
    BY <1>9, SeqDomain
  <2> QED
    BY <1>9, <1>11, <2>1
<1>13. ParseRmcPacket(cells) = ParseRmcResponse(body)
  BY <1>9, <1>11, <1>12, GotIs DEF ParseRmcPacket, Then
<1>14. ParseRmcResponse(body) = ResponseWith(id, status, first, second, data)
  BY <1>4, <1>5, <1>6, <1>9, GotIs DEF ParseRmcResponse, Then
<1> QED
  BY <1>7, <1>8, <1>10, <1>13, <1>14 DEF WithSize

\* What the client gets of a result.
Reply(id, callId, methodId, data) ==
  [type |-> "response", protocolId |-> id, ok |-> TRUE, callId |-> callId,
   methodId |-> methodId, data |-> data]
Refusal(id, callId, errorCode) ==
  [type |-> "response", protocolId |-> id, ok |-> FALSE, errorCode |-> errorCode,
   callId |-> callId]

Replied(id, callId, result) ==
  IF result.ok THEN Reply(id, callId, result.methodId, result.data)
  ELSE Refusal(id, callId, result.errorCode)

LEMMA ResultIsRead ==
  ASSUME NEW id \in Nat, NEW callId, NEW result,
         result.ok => /\ result.methodId \in Nat /\ result.methodId < 32768
                      /\ IsSeq(result.data)
  PROVE  ParseRmcPacket(EncodeRmcResponse(id, callId, result)) = Got(Replied(id, callId, result), << >>)
<1>1. CASE result.ok
  <2>1. PICK m \in Nat : m = result.methodId /\ m < 32768
    BY <1>1
  <2>2. PICK data : data = result.data /\ IsSeq(data)
    BY <1>1
  <2>3. PICK n : n = WithBit(m, 32768)
    OBVIOUS
  <2>4. WithoutBit(n, 32768) = m
    BY <2>1, <2>3, BitIsRead
  <2>5. EncodeRmcResponse(id, callId, result)
          = WithSize(ResponseId(id) \o
              (Triple(Number(1, 1), Number(4, callId), Number(4, n)) \o data))
    BY <1>1, <2>1, <2>2, <2>3 DEF EncodeRmcResponse, Triple
  <2>6. ParseRmcPacket(EncodeRmcResponse(id, callId, result)) = ResponseWith(id, 1, callId, n, data)
    BY <2>2, <2>5, ResponseIsRead
  <2>7. ResponseWith(id, 1, callId, n, data)
          = Got(Reply(id, callId, WithoutBit(n, 32768), data), << >>)
    BY DEF ResponseWith, Reply
  <2> QED
    BY <1>1, <2>1, <2>2, <2>4, <2>6, <2>7 DEF Replied
<1>2. CASE ~result.ok
  <2>1. PICK data : data = << >>
    OBVIOUS
  <2>2. IsSeq(data)
    BY <2>1, SeqEmpty
  <2>3. PICK t : t = Triple(Number(1, 0), Number(4, result.errorCode), Number(4, callId))
    OBVIOUS
  <2>4. IsSeq(t)
    <3>1. PICK a, b, c : a = Number(1, 0) /\ b = Number(4, result.errorCode) /\ c = Number(4, callId)
      OBVIOUS
    <3>2. TripleThen(a, b, c, data)
      BY <2>2, TripleIsRead
    <3> QED
      BY <2>3, <3>1, <3>2 DEF TripleThen
  <2>5. t \o data = t
    BY <2>1, <2>4, EmptyConcat
  <2>6. EncodeRmcResponse(id, callId, result) = WithSize(ResponseId(id) \o (t \o data))
    <3>1. EncodeRmcResponse(id, callId, result) = WithSize(ResponseId(id) \o t)
      BY <1>2, <2>3 DEF EncodeRmcResponse, Triple
    <3> QED
      BY <2>5, <3>1
  <2>7. ParseRmcPacket(EncodeRmcResponse(id, callId, result))
          = ResponseWith(id, 0, result.errorCode, callId, data)
    BY <2>2, <2>3, <2>6, ResponseIsRead
  <2>8. ResponseWith(id, 0, result.errorCode, callId, data)
          = Got(Refusal(id, callId, result.errorCode), << >>)
    BY DEF ResponseWith, Refusal
  <2> QED
    BY <1>2, <2>7, <2>8 DEF Replied
<1> QED
  BY <1>1, <1>2

-----------------------------------------------------------------------------
(***************************************************************************)
(* What the dispatcher makes of a planned call.                            *)
(***************************************************************************)
\* The handler of the service is the dispatcher.
IsDispatched == \A call, data : Handle(call, data) = Dispatch(call, data)

FoundFor(p, k) == Registration(p.world.service, p.calls[k].protocolId)
OutcomeOf(p, k, at) == Outcome(FoundFor(p, k), p.calls[k], at)

\* The result of a call that was to come to this.
ResultOf(p, k, outcome) ==
  IF FoundFor(p, k) = << >> THEN [ok |-> FALSE, errorCode |-> ErrorCodes[outcome.error]]
  ELSE Result(FoundFor(p, k)[1], RequestOf(p.calls, k), outcome)

LEMMA RegisteredId ==
  ASSUME NEW service, NEW id, Registration(service, id) # << >>
  PROVE  \E i \in DOMAIN Protocols(service) :
           /\ Registration(service, id) = <<Protocols(service)[i]>>
           /\ Registration(service, id)[1] = Protocols(service)[i]
           /\ Protocols(service)[i].id = id
<1>1. PICK found : found = {i \in DOMAIN Protocols(service) : Protocols(service)[i].id = id}
  OBVIOUS
<1>2. /\ found # {}
      /\ Registration(service, id) = <<Protocols(service)[Only(found)]>>
  BY <1>1 DEF Registration
<1>3. Only(found) \in found
  BY <1>2 DEF Only
<1>4. PICK i : i = Only(found) /\ i \in DOMAIN Protocols(service) /\ Protocols(service)[i].id = id
  BY <1>1, <1>3
<1>5. PICK x : x = Protocols(service)[i]
  OBVIOUS
<1>6. Registration(service, id) = <<x>>
  BY <1>2, <1>4, <1>5
<1> QED
  BY <1>4, <1>5, <1>6

\* The order of the checks is the same.
LEMMA HandledIsOutcome ==
  ASSUME NEW p, NEW k, NEW at, FoundFor(p, k) # << >>, IsRequest(p.world.service, p.calls[k])
  PROVE  Handled(FoundFor(p, k)[1], RequestOf(p.calls, k), at) = OutcomeOf(p, k, at)
<1>1. PICK call : call = p.calls[k]
  OBVIOUS
<1>2. PICK found : found = FoundFor(p, k) /\ found # << >>
  OBVIOUS
<1>3. PICK protocol : protocol = found[1]
  OBVIOUS
<1>4. protocol.id = call.protocolId
  BY <1>1, <1>2, <1>3, RegisteredId DEF FoundFor
<1>5. PICK r : /\ r = RequestOf(p.calls, k) /\ r.methodId = call.methodId
               /\ r.parameters = call.parameters
  <2>1. PICK r : r = RequestOf(p.calls, k)
    OBVIOUS
  <2>2. r.methodId = p.calls[k].methodId /\ r.parameters = p.calls[k].parameters
    BY <2>1 DEF RequestOf
  <2> QED
    BY <1>1, <2>1, <2>2
<1>6. PICK method : method = protocol.methods[call.methodId]
  OBVIOUS
<1>7. PICK params : params = Read(method.request, call.parameters)
  OBVIOUS
<1>8. PICK known : known = (call.methodId \in DOMAIN protocol.methods)
  OBVIOUS
<1>9. known => IF call.incomplete THEN ~params.ok ELSE params.ok /\ params.value = call.value
  <2>1. PICK q : q = Registration(p.world.service, call.protocolId)
    OBVIOUS
  <2>2. q = found
    BY <1>1, <1>2, <2>1 DEF FoundFor
  <2>3. q # << >> /\ call.methodId \in DOMAIN q[1].methods =>
          IsReadAs(Read(q[1].methods[call.methodId].request, call.parameters), call)
    <3>1. IsRequest(p.world.service, call)
      BY <1>1
    <3>2. PICK service : service = p.world.service
      BY SMTT(30)
    <3>3. Registration(service, call.protocolId) # << >>
            /\ call.methodId \in DOMAIN Registration(service, call.protocolId)[1].methods =>
              IsReadAs(Read(Registration(service, call.protocolId)[1].methods[call.methodId].request,
                            call.parameters), call)
      BY <3>1, <3>2, SMT DEF IsRequest
    <3> QED
      BY <2>1, <3>2, <3>3
  <2> QED
    BY <1>2, <1>3, <1>6, <1>7, <1>8, <2>2, <2>3 DEF IsReadAs
<1>10. Handled(protocol, r, at) =
         IF protocol.id \in HandMade
         THEN LoginRequired(at, IF ~known THEN Refuse("UnknownMethod")
                                ELSE IF ~params.ok THEN Refuse("ParsingError")
                                ELSE Overlord(protocol, method.key, at))
         ELSE IF ~known THEN Refuse("UnknownMethod")
         ELSE IF ~params.ok THEN Refuse("ParsingError")
         ELSE Handler(protocol.id, method.key, params.value, at)
  BY <1>5, <1>6, <1>7, <1>8 DEF Handled
<1>11. Outcome(found, call, at) =
         IF call.protocolId \in HandMade /\ at.userId = Undefined THEN Refuse("AccessDenied")
         ELSE IF ~known THEN Refuse("UnknownMethod")
         ELSE IF call.incomplete THEN Refuse("ParsingError")
         ELSE IF call.protocolId \in HandMade THEN Overlord(protocol, method.key, at)
         ELSE Handler(call.protocolId, method.key, call.value, at)
  BY <1>2, <1>3, <1>6, <1>8 DEF Outcome
<1>12. Handled(protocol, r, at) = Outcome(found, call, at)
  <2>1. PICK denied, unknown, parsing :
          denied = Refuse("AccessDenied") /\ unknown = Refuse("UnknownMethod")
            /\ parsing = Refuse("ParsingError")
    OBVIOUS
  <2>2. CASE ~known
    BY <1>4, <1>10, <1>11, <2>1, <2>2 DEF LoginRequired
  <2>3. CASE known /\ call.incomplete
    BY <1>4, <1>9, <1>10, <1>11, <2>1, <2>3 DEF LoginRequired
  <2>4. CASE known /\ ~call.incomplete
    BY <1>4, <1>9, <1>10, <1>11, <2>1, <2>4, SMTT(30) DEF LoginRequired
  <2> QED
    BY <2>2, <2>3, <2>4
<1> QED
  BY <1>1, <1>2, <1>3, <1>5, <1>12 DEF OutcomeOf

\* An answered job: its response tells the outcome of its call, and nothing but the
\* outcome decides whom the client becomes and which probes leave.
IsServed(p, job) ==
  LET k == p.pieces[job.piece].call
      outcome == OutcomeOf(p, k, job.call)
  IN  /\ k \in DOMAIN p.calls /\ p.calls[k].data = << >>
      /\ IsRequest(p.world.service, p.calls[k])
      /\ job.response = EncodeRmcResponse(p.calls[k].protocolId, k, ResultOf(p, k, outcome))
      /\ job.becomes = outcome.userId /\ job.probes = outcome.probes

LEMMA JobIsServed ==
  ASSUME IsDispatched, NEW p, IsPlan(p), NEW job, HoldsCall(p, job), job.answered
  PROVE  IsServed(p, job)
<1>1. PICK k : k = p.pieces[job.piece].call /\ k \in DOMAIN p.calls
  BY DEF HoldsCall
<1>2. PICK call : call = p.calls[k]
  OBVIOUS
<1>3. PICK at : at = job.call /\ at.world = p.world
  BY DEF HoldsCall
<1>4. PICK result : result = Dispatch(at, job.data)
  OBVIOUS
<1>5. ComesOf(job, result) /\ result.answered
  BY <1>3, <1>4 DEF HoldsCall, ComesOf, IsDispatched
<1>6. job.data = MessageOf(p.calls, k) /\ IsPlannedCall(p.calls, k, p.guests, p.world.service)
  BY <1>1 DEF HoldsCall, IsPlan
<1>7. ~Silence.answered
  BY DEF Silence
<1>8. call.data = << >>
  <2> SUFFICES ASSUME call.data # << >> PROVE FALSE
    OBVIOUS
  <2>1. job.data = call.data /\ IsNoRequest(call.data)
    BY <1>2, <1>6 DEF MessageOf, IsPlannedCall
  <2>2. result = Silence
    BY <1>4, <2>1 DEF Dispatch, IsNoRequest
  <2> QED
    BY <1>5, <1>7, <2>2
<1>9. IsRequest(p.world.service, call)
  BY <1>2, <1>6, <1>8 DEF IsPlannedCall
<1>10. PICK r : r = RequestOf(p.calls, k)
  OBVIOUS
<1>11. /\ r.type = "request" /\ r.protocolId = call.protocolId /\ r.callId = k
  BY <1>2, <1>10 DEF RequestOf
<1>12. ParseRmcPacket(job.data) = Got(r, << >>)
  <2>1. job.data = EncodeRmcRequest(r)
    BY <1>2, <1>6, <1>8, <1>10 DEF MessageOf
  <2>2. IsSeq(call.parameters) /\ IsProtocolId(call.protocolId)
    <3>1. IsSequence(call.parameters)
      BY <1>9 DEF IsRequest
    <3>2. IsProtocolId(call.protocolId)
      BY <1>9 DEF IsRequest
    <3> QED
      BY <3>1, <3>2 DEF IsSequence, IsSeq
  <2> QED
    BY <1>2, <1>10, <2>1, <2>2, RequestIsRead DEF RequestOf
<1>13. PICK found : found = FoundFor(p, k)
  OBVIOUS
<1>14. result = Serve(r, found, at)
  <2>1. ParseRmcPacket(job.data).ok /\ ParseRmcPacket(job.data).value = r
    BY <1>12, GotIs
  <2>2. r.type # "response"
    BY <1>11
  <2> QED
    BY <1>2, <1>3, <1>4, <1>11, <1>13, <2>1, <2>2 DEF Dispatch, FoundFor
<1>15. PICK outcome : outcome = OutcomeOf(p, k, at)
  OBVIOUS
<1>16. result = Respond(r, found, outcome)
  <2>1. CASE found = << >>
    BY <1>13, <1>14, <1>15, <2>1 DEF Serve, OutcomeOf, Outcome
  <2>2. CASE found # << >>
    BY <1>2, <1>9, <1>10, <1>13, <1>14, <1>15, <2>2, HandledIsOutcome DEF Serve
  <2> QED
    BY <2>1, <2>2
<1>17. result = Answered(r, outcome, ResultOf(p, k, outcome))
  BY <1>10, <1>13, <1>16 DEF Respond, ResultOf
<1>18. /\ result.response = EncodeRmcResponse(call.protocolId, k, ResultOf(p, k, outcome))
       /\ result.userId = outcome.userId /\ result.probes = outcome.probes
  BY <1>11, <1>17 DEF Answered
<1>19. /\ job.response = result.response /\ job.becomes = result.userId
       /\ job.probes = result.probes
  BY <1>5 DEF ComesOf
<1> QED
  BY <1>1, <1>2, <1>3, <1>8, <1>9, <1>15, <1>18, <1>19 DEF IsServed

-----------------------------------------------------------------------------
(***************************************************************************)
(* A client reads what its call came to.                                   *)
(***************************************************************************)
\* What is written of a value is read as that value.
CodecKeeps(type, value, call, at) ==
  IsWritten(Write(type, value)) =>
    /\ IsSeq(Write(type, value))
    /\ IsReadable(call, at) => Read(type, Write(type, value)) = Got(value, << >>)

ResponseType(found, call) == found[1].methods[call.methodId].response

ReadsBack(found, call, outcome, at) ==
  outcome.error = "" =>
    CodecKeeps(ResponseType(found, call), outcome.value, call, at)

\* A supposition about the codec: the values of the answers survive it.
AnswersReadBack ==
  \A j \in DOMAIN jobs : jobs[j].answered =>
    ReadsBack(FoundFor(plan, CallIdOf(jobs[j])), CallOf(jobs[j]),
              OutcomeOf(plan, CallIdOf(jobs[j]), jobs[j].call), jobs[j].call)

Denied(error) == [ok |-> FALSE, errorCode |-> ErrorCodes[error]]
Granted(methodId, data) == [ok |-> TRUE, methodId |-> methodId, data |-> data]

IsDenied(result, response, error, id, callId) ==
  /\ ~result.ok /\ response.type = "response"
  /\ response.callId = callId /\ response.protocolId = id
  /\ ~response.ok /\ response.errorCode = ErrorCodes[error]

IsGranted(result, response, methodId, data, id, callId) ==
  /\ result.ok /\ result.methodId = methodId /\ result.data = data
  /\ response.type = "response"
  /\ response.callId = callId /\ response.protocolId = id
  /\ response.ok /\ response.methodId = methodId /\ response.data = data

LEMMA DeniedIs ==
  ASSUME NEW error, NEW id, NEW callId
  PROVE  IsDenied(Denied(error), Replied(id, callId, Denied(error)), error, id, callId)
<1>1. PICK code : code = ErrorCodes[error]
  OBVIOUS
<1>2. ~Denied(error).ok /\ Denied(error).errorCode = code
  BY <1>1 DEF Denied
<1>3. Replied(id, callId, Denied(error)) = Refusal(id, callId, code)
  BY <1>2 DEF Replied
<1> QED
  BY <1>1, <1>2, <1>3 DEF Refusal, IsDenied

LEMMA GrantedIs ==
  ASSUME NEW methodId, NEW data, NEW id, NEW callId
  PROVE  IsGranted(Granted(methodId, data), Replied(id, callId, Granted(methodId, data)),
                   methodId, data, id, callId)
<1>1. /\ Granted(methodId, data).ok
      /\ Granted(methodId, data).methodId = methodId /\ Granted(methodId, data).data = data
  BY DEF Granted
<1>2. Replied(id, callId, Granted(methodId, data)) = Reply(id, callId, methodId, data)
  BY <1>1 DEF Replied
<1> QED
  BY <1>1, <1>2 DEF Reply, IsGranted

LEMMA NothingIsWritten == IsWritten(<< >>)
<1>1. DOMAIN << >> = {}
  BY SeqEmpty, SeqDomain
<1> QED
  BY <1>1 DEF IsWritten

\* The three kinds of results.
LEMMA ResultKinds ==
  ASSUME NEW p, NEW k, NEW outcome, FoundFor(p, k) = << >> => outcome.error # "",
         NEW type, FoundFor(p, k) # << >> =>
                     type = FoundFor(p, k)[1].methods[p.calls[k].methodId].response
  PROVE  \/ outcome.error # "" /\ ResultOf(p, k, outcome) = Denied(outcome.error)
         \/ /\ FoundFor(p, k) # << >> /\ outcome.error = "" /\ IsWritten(Write(type, outcome.value))
            /\ ResultOf(p, k, outcome) = Granted(p.calls[k].methodId, Write(type, outcome.value))
         \/ /\ FoundFor(p, k) # << >> /\ outcome.error = "" /\ ~IsWritten(Write(type, outcome.value))
            /\ ResultOf(p, k, outcome) = Denied("InternalError")
<1>1. PICK found : found = FoundFor(p, k)
  BY Zenon
<1>2. PICK error : error = outcome.error
  BY Zenon
<1>3. CASE found = << >>
  BY <1>1, <1>3, Zenon DEF ResultOf, Denied
<1>4. CASE found # << >>
  <2>1. PICK r : r = RequestOf(p.calls, k)
    BY Zenon
  <2>2. r.methodId = p.calls[k].methodId
    BY <2>1, Zenon DEF RequestOf
  <2>3. ResultOf(p, k, outcome) = Result(found[1], r, outcome)
    BY <1>1, <1>4, <2>1, Zenon DEF ResultOf
  <2>4. found[1].methods[r.methodId].response = type
    BY <1>1, <1>4, <2>2, Zenon
  <2>5. CASE error # ""
    <3>1. PICK data : data = << >>
      BY Zenon
    <3>3. IsWritten(data)
      BY <3>1, NothingIsWritten, Zenon
    <3>4. Result(found[1], r, outcome) = Denied(error)
      BY <1>2, <2>5, <3>1, <3>3, Zenon DEF Result, Denied
    <3> QED
      BY <1>2, <2>3, <2>5, <3>4, Zenon
  <2>6. CASE error = "" /\ IsWritten(Write(type, outcome.value))
    <3>1. PICK data : data = Write(type, outcome.value) /\ IsWritten(data)
      BY <2>6, Zenon
    <3>2. Result(found[1], r, outcome) = Granted(r.methodId, data)
      BY <1>2, <2>4, <2>6, <3>1, Zenon DEF Result, Granted
    <3> QED
      BY <1>1, <1>2, <1>4, <2>2, <2>3, <2>6, <3>1, <3>2, Zenon
  <2>7. CASE error = "" /\ ~IsWritten(Write(type, outcome.value))
    <3>1. PICK data : data = Write(type, outcome.value) /\ ~IsWritten(data)
      BY <2>7, Zenon
    <3>2. Result(found[1], r, outcome) = Denied("InternalError")
      BY <1>2, <2>4, <2>7, <3>1, Zenon DEF Result, Denied
    <3> QED
      BY <1>1, <1>2, <1>4, <2>3, <2>7, <3>2, Zenon
  <2> QED
    BY <2>5, <2>6, <2>7, Zenon
<1> QED
  BY <1>3, <1>4, Zenon

\* The result of a call tells what it came to.
Tells(result, response, id, callId, found, outcome, call, at) ==
  /\ result.ok => /\ result.methodId \in Nat /\ result.methodId < 32768
                  /\ IsSeq(result.data)
  /\ response.type = "response" /\ response.callId = callId /\ response.protocolId = id
  /\ Says(response, found, outcome, call, at)

TellsOf(p, k, at, id, callId) ==
  Tells(ResultOf(p, k, OutcomeOf(p, k, at)),
        Replied(id, callId, ResultOf(p, k, OutcomeOf(p, k, at))),
        id, callId, FoundFor(p, k), OutcomeOf(p, k, at), p.calls[k], at)

KeepsOf(p, k, at) ==
  /\ p.calls[k].methodId \in Nat /\ p.calls[k].methodId < 32768
  /\ ReadsBack(FoundFor(p, k), p.calls[k], OutcomeOf(p, k, at), at)

LEMMA ResultSays ==
  ASSUME NEW p, NEW k, NEW at, NEW id, NEW callId, KeepsOf(p, k, at)
  PROVE  TellsOf(p, k, at, id, callId)
<1>a. PICK call : call = p.calls[k]
  OBVIOUS
<1>b. PICK found : found = FoundFor(p, k)
  OBVIOUS
<1>c. PICK outcome : outcome = OutcomeOf(p, k, at)
  OBVIOUS
<1>d. PICK result : result = ResultOf(p, k, outcome)
  OBVIOUS
<1>e. /\ call.methodId \in Nat /\ call.methodId < 32768
      /\ ReadsBack(found, call, outcome, at)
  BY <1>a, <1>b, <1>c DEF KeepsOf
<1>1. PICK type : found # << >> => type = found[1].methods[call.methodId].response
  <2>1. PICK type : type = found[1].methods[call.methodId].response
    OBVIOUS
  <2> QED
    BY <2>1
<1>2. found = << >> => outcome.error # ""
  <2> SUFFICES ASSUME found = << >> PROVE outcome.error # ""
    BY Zenon
  <2>1. outcome = Refuse("UnknownProtocol")
    BY <1>b, <1>c DEF OutcomeOf, Outcome
  <2> QED
    BY <2>1, Zenon DEF Refuse, Answer
<1>3. PICK value : value = outcome.value
  OBVIOUS
<1>4. PICK readable : readable = IsReadable(call, at)
  OBVIOUS
<1>5. PICK response : response = Replied(id, callId, result)
  OBVIOUS
<1>6. ASSUME outcome.error # "", result = Denied(outcome.error)
      PROVE  /\ ~result.ok
             /\ response.type = "response" /\ response.callId = callId
             /\ response.protocolId = id /\ Says(response, found, outcome, call, at)
  <2>1. /\ ~result.ok /\ response.type = "response" /\ response.callId = callId
        /\ response.protocolId = id /\ ~response.ok
        /\ response.errorCode = ErrorCodes[outcome.error]
    <3>1. IsDenied(result, response, outcome.error, id, callId)
      BY <1>5, <1>6, DeniedIs, Zenon
    <3> QED
      BY <3>1 DEF IsDenied
  <2> QED
    BY <1>5, <1>6, <2>1, Zenon DEF Says, SaysError
<1>7. ASSUME found # << >>, outcome.error = "", IsWritten(Write(type, value)),
             result = Granted(call.methodId, Write(type, value))
      PROVE  /\ result.ok /\ result.methodId = call.methodId /\ IsSeq(result.data)
             /\ response.type = "response" /\ response.callId = callId
             /\ response.protocolId = id /\ Says(response, found, outcome, call, at)
  <2>1. PICK data : data = Write(type, value)
    OBVIOUS
  <2>2. /\ result.ok /\ result.methodId = call.methodId /\ result.data = data
        /\ response.type = "response" /\ response.callId = callId /\ response.protocolId = id
        /\ response.ok /\ response.methodId = call.methodId /\ response.data = data
    <3>1. IsGranted(result, response, call.methodId, data, id, callId)
      BY <1>5, <1>7, <2>1, GrantedIs, Zenon
    <3> QED
      BY <3>1 DEF IsGranted
  <2>3. CodecKeeps(type, value, call, at)
    <3>1. CodecKeeps(ResponseType(found, call), outcome.value, call, at)
      <4>1. outcome.error = "" /\ ReadsBack(found, call, outcome, at)
        <5>1. ReadsBack(found, call, outcome, at)
          BY <1>e
        <5>2. outcome.error = ""
          BY <1>7, Zenon
        <5> QED
          BY <5>1, <5>2, Zenon
      <4> QED
        BY <4>1, Zenon DEF ReadsBack
    <3>2. type = ResponseType(found, call)
      BY <1>1, <1>7, Zenon DEF ResponseType
    <3> QED
      BY <1>3, <1>4, <3>1, <3>2
  <2>4. IsSeq(data) /\ (readable => Read(type, data) = Got(value, << >>))
    BY <1>4, <1>7, <2>1, <2>3, Zenon DEF CodecKeeps
  <2>5. SaysValue(response, type, value, readable)
    BY <1>7, <2>1, <2>2, <2>4, Zenon DEF SaysValue
  <2> QED
    BY <1>1, <1>3, <1>4, <1>7, <2>2, <2>4, <2>5, Zenon DEF Says
<1>8. ASSUME found # << >>, outcome.error = "", ~IsWritten(Write(type, value)),
             result = Denied("InternalError")
      PROVE  /\ ~result.ok
             /\ response.type = "response" /\ response.callId = callId
             /\ response.protocolId = id /\ Says(response, found, outcome, call, at)
  <2>1. /\ ~result.ok /\ response.type = "response" /\ response.callId = callId
        /\ response.protocolId = id /\ ~response.ok
        /\ response.errorCode = ErrorCodes["InternalError"]
    <3>1. IsDenied(result, response, "InternalError", id, callId)
      BY <1>5, <1>8, DeniedIs, Zenon
    <3> QED
      BY <3>1 DEF IsDenied
  <2>2. SaysValue(response, type, value, readable)
    BY <1>8, <2>1, Zenon DEF SaysValue, SaysError
  <2> QED
    BY <1>1, <1>3, <1>4, <1>8, <2>1, <2>2, Zenon DEF Says
<1>9. \/ outcome.error # "" /\ result = Denied(outcome.error)
      \/ /\ found # << >> /\ outcome.error = "" /\ IsWritten(Write(type, value))
         /\ result = Granted(call.methodId, Write(type, value))
      \/ /\ found # << >> /\ outcome.error = "" /\ ~IsWritten(Write(type, value))
         /\ result = Denied("InternalError")
  <2>1. FoundFor(p, k) = << >> => outcome.error # ""
    BY <1>2, <1>b, Zenon
  <2>2. FoundFor(p, k) # << >> => type = FoundFor(p, k)[1].methods[p.calls[k].methodId].response
    BY <1>1, <1>a, <1>b
  <2> QED
    BY <1>3, <1>a, <1>b, <1>d, <2>1, <2>2, ResultKinds, Zenon
<1>10. Tells(result, response, id, callId, found, outcome, call, at)
  <2>1. CASE outcome.error # "" /\ result = Denied(outcome.error)
    <3>1. /\ ~result.ok
          /\ response.type = "response" /\ response.callId = callId
          /\ response.protocolId = id /\ Says(response, found, outcome, call, at)
      BY <1>6, <2>1, Zenon
    <3> QED
      BY <3>1 DEF Tells
  <2>2. CASE /\ found # << >> /\ outcome.error = "" /\ IsWritten(Write(type, value))
             /\ result = Granted(call.methodId, Write(type, value))
    <3>1. /\ result.ok /\ result.methodId = call.methodId /\ IsSeq(result.data)
          /\ response.type = "response" /\ response.callId = callId
          /\ response.protocolId = id /\ Says(response, found, outcome, call, at)
      BY <1>7, <2>2, Zenon
    <3> QED
      BY <1>e, <3>1 DEF Tells
  <2>3. CASE /\ found # << >> /\ outcome.error = "" /\ ~IsWritten(Write(type, value))
             /\ result = Denied("InternalError")
    <3>1. /\ ~result.ok
          /\ response.type = "response" /\ response.callId = callId
          /\ response.protocolId = id /\ Says(response, found, outcome, call, at)
      BY <1>8, <2>3, Zenon
    <3> QED
      BY <3>1 DEF Tells
  <2> QED
    BY <1>9, <2>1, <2>2, <2>3, Zenon
<1> QED
  BY <1>5, <1>10, <1>a, <1>b, <1>c, <1>d DEF TellsOf

LEMMA ServedAnswers ==
  ASSUME IsPlan(plan), NEW job, IsServed(plan, job), job.call.world = plan.world,
         ReadsBack(FoundFor(plan, CallIdOf(job)), CallOf(job),
                   OutcomeOf(plan, CallIdOf(job), job.call), job.call)
  PROVE  Answers(ParseRmcPacket(job.response), job)
<1>1. PICK k : k = CallIdOf(job)
  BY SMTT(30)
<1>2. PICK call : call = plan.calls[k] /\ call = CallOf(job)
  BY <1>1 DEF CallOf, CallIdOf
<1>3. PICK at : at = job.call
  OBVIOUS
<1>4. PICK found : found = FoundFor(plan, k)
  OBVIOUS
<1>5. PICK outcome : outcome = OutcomeOf(plan, k, at)
  OBVIOUS
<1>6. PICK result : result = ResultOf(plan, k, outcome)
  OBVIOUS
<1>7. /\ IsRequest(plan.world.service, call)
      /\ job.response = EncodeRmcResponse(call.protocolId, k, result)
  BY <1>1, <1>2, <1>3, <1>5, <1>6 DEF IsServed, CallIdOf
<1>8. call.methodId \in Nat /\ call.methodId < 32768
  <2>1. call.methodId \in Nat
    BY <1>7 DEF IsRequest
  <2>2. call.methodId < 32768
    BY <1>7 DEF IsRequest
  <2> QED
    BY <2>1, <2>2
<1>9. PICK id \in Nat : id = call.protocolId
  <2>1. IsProtocolId(call.protocolId)
    BY <1>7 DEF IsRequest
  <2> QED
    BY <2>1 DEF IsProtocolId
<1>10. ReadsBack(found, call, outcome, at)
  BY <1>1, <1>2, <1>3, <1>4, <1>5
<1>11. PICK response : response = Replied(id, k, result)
  OBVIOUS
<1>12. /\ result.ok => /\ result.methodId \in Nat /\ result.methodId < 32768
                       /\ IsSeq(result.data)
       /\ response.type = "response" /\ response.callId = k /\ response.protocolId = id
       /\ Says(response, found, outcome, call, at)
  <2>1. TellsOf(plan, k, at, id, k)
    <3>1. KeepsOf(plan, k, at)
      BY <1>2, <1>4, <1>5, <1>8, <1>10 DEF KeepsOf
    <3> QED
      BY <3>1, ResultSays
  <2> QED
    BY <1>2, <1>4, <1>5, <1>6, <1>11, <2>1 DEF TellsOf, Tells
<1>13. ParseRmcPacket(job.response) = Got(response, << >>)
  BY <1>7, <1>9, <1>11, <1>12, ResultIsRead
<1>14. ParseRmcPacket(job.response).ok /\ ParseRmcPacket(job.response).value = response
  BY <1>13, GotIs
<1>15. outcome = Outcome(Registration(plan.world.service, call.protocolId), call, at)
  BY <1>2, <1>5 DEF OutcomeOf, FoundFor
<1>16. found = Registration(plan.world.service, call.protocolId)
  BY <1>2, <1>4 DEF FoundFor
<1> QED
  BY <1>1, <1>2, <1>3, <1>9, <1>12, <1>14, <1>15, <1>16 DEF Answers, SaysOutcome

-----------------------------------------------------------------------------
AnsweredInv == SentInv /\ (AnswersAreMessages /\ AnswersHaveFragmentIds => HeldInv)

LEMMA NextAnswered ==
  ASSUME AnsweredInv, [Next]_vars
  PROVE  AnsweredInv'
<1>1. SentInv'
  BY NextSent DEF AnsweredInv
<1>2. ASSUME AnswersAreMessages', AnswersHaveFragmentIds' PROVE HeldInv'
  <2>1. JobsInv
    BY DEF AnsweredInv, SentInv, ExchangeInv
  <2>2. AnswersAreMessages /\ AnswersHaveFragmentIds
    BY <1>2, <2>1, SupposedBefore
  <2>3. Inv /\ HeldInv
    BY <2>2 DEF AnsweredInv, SentInv, ExchangeInv
  <2> QED
    BY <1>2, <2>1, <2>3, HeldStep
<1> QED
  BY <1>1, <1>2 DEF AnsweredInv

LEMMA AnsweredIsInvariant == Spec => []AnsweredInv
<1>1. Init => AnsweredInv
  BY InitExchange, InitPlan, InitHeld DEF AnsweredInv, SentInv
<1> QED
  BY <1>1, NextAnswered, PTL DEF Spec

\* A client puts the fragments of an answer together and reads what the handler came to
\* on a call of its own, or the error its call was to fail with: with the dispatcher as
\* the handler, if the codec keeps the values of the answers and no answer has more
\* fragments than there are fragment ids.
THEOREM ClientsReadTheirAnswers ==
  ASSUME IsDispatched
  PROVE  Spec => [](AnswersAreMessages /\ AnswersHaveFragmentIds /\ AnswersReadBack
                      => AnswersMatchCalls)
<1>1. ASSUME AnsweredInv, AnswersAreMessages, AnswersHaveFragmentIds, AnswersReadBack
      PROVE  AnswersMatchCalls
  <2>1. PlanInv /\ HeldInv
    BY <1>1 DEF AnsweredInv, SentInv
  <2> SUFFICES ASSUME NEW s \in Signatures, NEW m \in DOMAIN Messages(answered[s])
               PROVE  \E j \in JobsOf(s) :
                        Answers(ParseRmcPacket(Messages(answered[s])[m]), jobs[j])
    BY DEF AnswersMatchCalls, MatchCalls
  <2>2. PICK j \in Settled(jobs, s) : Messages(answered[s])[m] = jobs[j].response
    BY <2>1, MessagesAreGiven
  <2>3. j \in DOMAIN jobs /\ jobs[j].client = s /\ jobs[j].answered
    BY DEF Settled
  <2>4. PICK job : job = jobs[j]
    OBVIOUS
  <2>5. IsPlan(plan) /\ HoldsCall(plan, job)
    BY <2>1, <2>3, <2>4, SMTT(30) DEF PlanInv, FlightInv, MessageInv
  <2>6. IsServed(plan, job) /\ job.call.world = plan.world
    BY <2>3, <2>4, <2>5, JobIsServed DEF HoldsCall
  <2>7. Answers(ParseRmcPacket(job.response), job)
    BY <1>1, <2>3, <2>4, <2>5, <2>6, ServedAnswers DEF AnswersReadBack
  <2> QED
    BY <2>2, <2>3, <2>4, <2>7 DEF JobsOf
<1>2. AnsweredInv => (AnswersAreMessages /\ AnswersHaveFragmentIds /\ AnswersReadBack
                        => AnswersMatchCalls)
  BY <1>1
<1> QED
  BY <1>2, AnsweredIsInvariant, PTL

-----------------------------------------------------------------------------
(***************************************************************************)
(* What the secure service does for somebody who is no user.               *)
(***************************************************************************)
\* No handler of the secure service logs anybody in, one has probes sent.
IsShut(answer, call) ==
  /\ answer.userId = Undefined /\ answer.probes = << >>
  /\ call.userId = Undefined => answer.error # ""

LEMMA AnswerIs ==
  ASSUME NEW value
  PROVE  /\ Answer(value).userId = Undefined /\ Answer(value).probes = << >>
         /\ Answer(value).error = "" /\ Answer(value).value = value
BY DEF Answer

LEMMA RefuseIs ==
  ASSUME NEW error
  PROVE  /\ Refuse(error).userId = Undefined /\ Refuse(error).probes = << >>
         /\ Refuse(error).error = error
BY DEF Refuse, Answer

LEMMA RefusalIsShut ==
  ASSUME NEW error, error # "", NEW call
  PROVE  IsShut(Refuse(error), call)
<1>1. PICK refusal : refusal = Refuse(error)
  BY Zenon
<1>2. refusal.userId = Undefined /\ refusal.probes = << >> /\ refusal.error = error
  BY <1>1, RefuseIs, Zenon
<1> QED
  BY <1>1, <1>2, Zenon DEF IsShut

LEMMA LoginIsShut ==
  ASSUME NEW call, NEW answer, answer.userId = Undefined, answer.probes = << >>
  PROVE  IsShut(LoginRequired(call, answer), call)
<1>1. CASE call.userId = Undefined
  <2>1. LoginRequired(call, answer) = Refuse("AccessDenied")
    BY <1>1 DEF LoginRequired
  <2> QED
    BY <2>1, RefusalIsShut, Zenon
<1>2. CASE call.userId # Undefined
  <2>1. LoginRequired(call, answer) = answer
    BY <1>2 DEF LoginRequired
  <2> QED
    BY <1>2, <2>1, Zenon DEF IsShut
<1> QED
  BY <1>1, <1>2

LEMMA SecureConnectionIsShut ==
  ASSUME NEW key, NEW request, NEW call
  PROVE  IsShut(SecureConnection(key, request, call), call)
<1>1. ASSUME NEW sid, NEW type PROVE IsShut(Registered(call, sid, type), call)
  <2>1. PICK value : value = [returnValue |-> QRESULT_OK, pidConnectionId |-> call.connectionId,
                              urlPublic |-> Url(call.address, sid, type)]
    OBVIOUS
  <2>2. PICK answer :
          answer = IF call.connectionId = Undefined THEN Refuse("InternalError") ELSE Answer(value)
    OBVIOUS
  <2>3. answer.userId = Undefined /\ answer.probes = << >>
    BY <2>2, AnswerIs, RefuseIs, Zenon
  <2>4. Registered(call, sid, type) = LoginRequired(call, answer)
    BY <2>1, <2>2 DEF Registered
  <2> QED
    BY <2>3, <2>4, LoginIsShut
<1> QED
  BY <1>1, RefusalIsShut, Zenon DEF SecureConnection

\* Probes of what a user asked for.
IsProbing(answer, request, call) ==
  /\ answer.userId = Undefined
  /\ answer.probes = << >> \/ answer.probes = ProbesFor(request, call)
  /\ call.userId = Undefined => answer.error # "" /\ answer.probes = << >>

LEMMA ShutIsProbing ==
  ASSUME NEW answer, NEW request, NEW call, IsShut(answer, call)
  PROVE  IsProbing(answer, request, call)
BY Zenon DEF IsShut, IsProbing

LEMMA NATTraversalIsProbing ==
  ASSUME NEW key, NEW request, NEW call
  PROVE  IsProbing(NATTraversal(key, request, call), request, call)
<1>1. PICK answer : answer = NATTraversal(key, request, call)
  OBVIOUS
<1>2. CASE key = "requestProbeInitiationExt"
  <2>1. PICK probes : probes = ProbesFor(request, call)
    OBVIOUS
  <2>2. PICK done : done = [Done EXCEPT !.probes = probes]
    BY Zenon
  <2>3. answer = LoginRequired(call, done)
    BY <1>1, <1>2, <2>1, <2>2 DEF NATTraversal
  <2>4. done.userId = Undefined /\ done.probes = probes
    BY <2>2, Zenon DEF Done, Answer
  <2>5. CASE call.userId = Undefined
    <3>1. answer = Refuse("AccessDenied")
      BY <2>3, <2>5 DEF LoginRequired
    <3> QED
      BY <1>1, <3>1, RefusalIsShut, ShutIsProbing, Zenon
  <2>6. CASE call.userId # Undefined
    <3>1. answer = done
      BY <2>3, <2>6 DEF LoginRequired
    <3>2. IsProbing(answer, request, call)
      BY <2>1, <2>4, <2>6, <3>1, Zenon DEF IsProbing
    <3> QED
      BY <1>1, <3>2
  <2> QED
    BY <2>5, <2>6
<1>3. CASE key # "requestProbeInitiationExt"
  <2>1. answer = Refuse("UnimplementedMethod")
    BY <1>1, <1>3 DEF NATTraversal
  <2> QED
    BY <1>1, <2>1, RefusalIsShut, ShutIsProbing, Zenon
<1> QED
  BY <1>2, <1>3

LEMMA GameSessionIsShut ==
  ASSUME NEW key, NEW request, NEW call
  PROVE  IF key = "joinSession" THEN GameSession(key, request, call) = Done
         ELSE IsShut(GameSession(key, request, call), call)
BY AnswerIs, RefuseIs, RefusalIsShut, LoginIsShut, Zenon DEF GameSession, Done

LEMMA GameSessionExIsShut ==
  ASSUME NEW key, NEW request, NEW call
  PROVE  IsShut(GameSessionEx(key, request, call), call)
BY AnswerIs, RefuseIs, RefusalIsShut, LoginIsShut, Zenon DEF GameSessionEx

LEMMA UbiAccountManagementIsShut ==
  ASSUME NEW key, NEW request, NEW call
  PROVE  IsShut(UbiAccountManagement(key, request, call), call)
BY AnswerIs, RefuseIs, RefusalIsShut, LoginIsShut, Zenon DEF UbiAccountManagement

LEMMA PlayerStatsIsShut ==
  ASSUME NEW key, NEW request, NEW call
  PROVE  IsShut(PlayerStats(key, request, call), call)
<1>1. CASE key = "readStatsByPlayers"
  <2>1. PICK value : value = [results |-> <<StatsOf(request.playerPids[1])>>]
    OBVIOUS
  <2>2. PICK answer :
          answer = IF request.playerPids = << >> THEN Refuse("InternalError") ELSE Answer(value)
    OBVIOUS
  <2>3. answer.userId = Undefined /\ answer.probes = << >>
    BY <2>2, AnswerIs, RefuseIs, Zenon
  <2>4. PlayerStats(key, request, call) = LoginRequired(call, answer)
    BY <1>1, <2>1, <2>2 DEF PlayerStats
  <2> QED
    BY <2>3, <2>4, LoginIsShut
<1>2. CASE key # "readStatsByPlayers"
  BY <1>2, AnswerIs, RefusalIsShut, LoginIsShut, Zenon DEF PlayerStats, Done
<1> QED
  BY <1>1, <1>2

LEMMA UserStorageIsShut ==
  ASSUME NEW key, NEW request, NEW call
  PROVE  IsShut(UserStorage(key, request, call), call)
BY AnswerIs, RefuseIs, RefusalIsShut, LoginIsShut, ZenonT(40) DEF UserStorage

LEMMA ChallengeHelperIsShut ==
  ASSUME NEW key, NEW request, NEW call
  PROVE  IsShut(ChallengeHelper(key, request, call), call)
BY AnswerIs, RefuseIs, RefusalIsShut, LoginIsShut, Zenon DEF ChallengeHelper

LEMMA ClanHelperIsShut ==
  ASSUME NEW key, NEW request, NEW call
  PROVE  IsShut(ClanHelper(key, request, call), call)
<1>1. CASE key = "getClanInfoByPid"
  BY <1>1, AnswerIs, LoginIsShut, Zenon DEF ClanHelper
<1>2. CASE key = "generateClanChallenges"
  BY <1>2, AnswerIs, LoginIsShut, ZenonT(40) DEF ClanHelper
<1>3. CASE key = "getMemberListByClid"
  <2>1. PICK value : value = [members |-> <<1002>>]
    BY ZenonT(40)
  <2>2. ClanHelper(key, request, call) = LoginRequired(call, Answer(value))
    BY <1>3, <2>1 DEF ClanHelper
  <2> QED
    BY <2>2, AnswerIs, LoginIsShut, Zenon
<1>4. CASE key \notin {"getClanInfoByPid", "generateClanChallenges", "getMemberListByClid"}
  <2>1. ClanHelper(key, request, call) = Refuse("UnimplementedMethod")
    BY <1>4 DEF ClanHelper
  <2> QED
    BY <2>1, RefusalIsShut, Zenon
<1> QED
  BY <1>1, <1>2, <1>3, <1>4

LEMMA LadderHelperIsShut ==
  ASSUME NEW key, NEW request, NEW call
  PROVE  IsShut(LadderHelper(key, request, call), call)
BY AnswerIs, RefuseIs, RefusalIsShut, LoginIsShut, Zenon DEF LadderHelper

LEMMA LocalizationIsShut ==
  ASSUME NEW key, NEW request, NEW call
  PROVE  IsShut(Localization(key, request, call), call)
BY AnswerIs, RefuseIs, RefusalIsShut, LoginIsShut, Zenon DEF Localization, Done

LEMMA PrivilegesIsShut ==
  ASSUME NEW key, NEW request, NEW call
  PROVE  IsShut(Privileges(key, request, call), call)
BY AnswerIs, RefuseIs, RefusalIsShut, LoginIsShut, Zenon DEF Privileges

LEMMA UplayWinIsShut ==
  ASSUME NEW key, NEW request, NEW call
  PROVE  IsShut(UplayWin(key, request, call), call)
BY AnswerIs, RefuseIs, RefusalIsShut, LoginIsShut, Zenon DEF UplayWin

LEMMA TrackingIsShut ==
  ASSUME NEW key, NEW request, NEW call
  PROVE  IsShut(Tracking(key, request, call), call)
BY AnswerIs, RefuseIs, RefusalIsShut, LoginIsShut, Zenon DEF Tracking, Tags, Done

LEMMA TrackingExtensionIsShut ==
  ASSUME NEW key, NEW request, NEW call
  PROVE  IsShut(TrackingExtension(key, request, call), call)
BY AnswerIs, RefuseIs, RefusalIsShut, LoginIsShut, Zenon DEF TrackingExtension, Tags

\* The ids of the protocols of the secure service, and those of which more is needed.
IsSecure(protocol) ==
  /\ protocol.id \in {3, 11, 29, 35, 36, 39, 42, 49, 53, 55, 105, 106, 107, 123, 1001}
                       \union HandMade
  /\ protocol.id = 42 => protocol = Games!GameSessionProtocol
  /\ protocol.id = 5002 => protocol = OverlordNewsProtocol
  /\ protocol.id = 5003 => protocol = OverlordCoreProtocol
  /\ protocol.id = 5007 => protocol = OverlordChallengeProtocol

LEMMA SecureProtocolIs ==
  ASSUME NEW i \in DOMAIN SecureProtocols
  PROVE  IsSecure(SecureProtocols[i])
<1>1. SecureProtocols[i] \in
        {Accounts!ChallengeHelperProtocol, Accounts!ClanHelperProtocol,
         Games!GameSessionExProtocol, Games!GameSessionProtocol,
         Accounts!LadderHelperProtocol, Accounts!LocalizationProtocol,
         Auth!NATTraversalProtocol, OverlordChallengeProtocol, OverlordCoreProtocol,
         OverlordNewsProtocol, Content!PlayerStatsProtocol, Accounts!PrivilegesProtocol,
         Auth!SecureConnectionProtocol, Uplay!TrackingExtensionProtocol,
         Uplay!TrackingProtocol3, Accounts!UbiAccountManagementProtocol,
         Uplay!UplayWinProtocol, Content!UserStorageProtocol}
  BY DEF SecureProtocols
<1>2. /\ IsSecure(Accounts!ChallengeHelperProtocol)
      /\ IsSecure(Accounts!ClanHelperProtocol)
      /\ IsSecure(Accounts!LadderHelperProtocol)
      /\ IsSecure(Accounts!LocalizationProtocol)
      /\ IsSecure(Accounts!PrivilegesProtocol)
      /\ IsSecure(Accounts!UbiAccountManagementProtocol)
  BY DEF IsSecure, HandMade, Accounts!ChallengeHelperProtocol,
         Accounts!ClanHelperProtocol, Accounts!LadderHelperProtocol,
         Accounts!LocalizationProtocol, Accounts!PrivilegesProtocol,
         Accounts!UbiAccountManagementProtocol, Accounts!Protocol
<1>3. /\ IsSecure(Games!GameSessionExProtocol)
      /\ IsSecure(Games!GameSessionProtocol)
  BY DEF IsSecure, HandMade, Games!GameSessionExProtocol, Games!GameSessionProtocol,
         Games!Protocol
<1>4. /\ IsSecure(Auth!NATTraversalProtocol)
      /\ IsSecure(Auth!SecureConnectionProtocol)
  BY DEF IsSecure, HandMade, Auth!NATTraversalProtocol, Auth!SecureConnectionProtocol,
         Auth!Protocol
<1>5. /\ IsSecure(Content!PlayerStatsProtocol)
      /\ IsSecure(Content!UserStorageProtocol)
  BY DEF IsSecure, HandMade, Content!PlayerStatsProtocol, Content!UserStorageProtocol,
         Content!Protocol
<1>6. /\ IsSecure(Uplay!TrackingExtensionProtocol)
      /\ IsSecure(Uplay!TrackingProtocol3)
      /\ IsSecure(Uplay!UplayWinProtocol)
  BY DEF IsSecure, HandMade, Uplay!TrackingExtensionProtocol, Uplay!TrackingProtocol3,
         Uplay!UplayWinProtocol, Uplay!Protocol
<1>7. /\ IsSecure(OverlordChallengeProtocol)
      /\ IsSecure(OverlordCoreProtocol)
      /\ IsSecure(OverlordNewsProtocol)
  BY DEF IsSecure, HandMade, OverlordChallengeProtocol, OverlordCoreProtocol,
         OverlordNewsProtocol, Protocol
<1> QED
  BY <1>1, <1>2, <1>3, <1>4, <1>5, <1>6, <1>7

\* Nothing is returned by joinSession.
ReturnsNothing(method) == method.key = "joinSession" => method.response = Struct(<< >>)

LEMMA JoinReturnsNothing ==
  ASSUME NEW m \in DOMAIN Games!GameSessionProtocol.methods
  PROVE  ReturnsNothing(Games!GameSessionProtocol.methods[m])
<1>1. PICK methods : /\ methods = Games!GameSessionProtocol.methods
        /\ methods = <<Games!CreateSession, Games!UpdateSession, Games!DeleteSession,
                         Games!MigrateSession, Games!LeaveSession, Games!GetSession,
                         Games!SearchSessions, Games!AddParticipants,
                         Games!RemoveParticipants, Games!GetParticipantCount,
                         Games!GetParticipants, Games!SendInvitation,
                         Games!GetInvitationReceivedCount, Games!GetInvitationsReceived,
                         Games!GetInvitationSentCount, Games!GetInvitationsSent,
                         Games!AcceptInvitation, Games!DeclineInvitation,
                         Games!CancelInvitation, Games!SendTextMessage,
                         Games!RegisterUrls, Games!JoinSession, Games!AbandonSession,
                         Games!SearchSessionsWithParticipants, Games!GetSessions,
                         Games!GetParticipantsUrls, Games!MigrateSessionHost,
                         Games!SplitSession, Games!SearchSocialSessions,
                         Games!ReportUnsuccessfulJoinSessions>>
  BY DEF Games!GameSessionProtocol, Games!Protocol
<1>2. methods[m] \in
        {Games!CreateSession, Games!UpdateSession, Games!DeleteSession,
         Games!MigrateSession, Games!LeaveSession, Games!GetSession, Games!SearchSessions,
         Games!AddParticipants, Games!RemoveParticipants, Games!GetParticipantCount,
         Games!GetParticipants, Games!SendInvitation, Games!GetInvitationReceivedCount,
         Games!GetInvitationsReceived, Games!GetInvitationSentCount,
         Games!GetInvitationsSent, Games!AcceptInvitation, Games!DeclineInvitation,
         Games!CancelInvitation, Games!SendTextMessage, Games!RegisterUrls,
         Games!JoinSession, Games!AbandonSession, Games!SearchSessionsWithParticipants,
         Games!GetSessions, Games!GetParticipantsUrls, Games!MigrateSessionHost,
         Games!SplitSession, Games!SearchSocialSessions,
         Games!ReportUnsuccessfulJoinSessions}
  BY <1>1
<1>3. /\ ReturnsNothing(Games!CreateSession)
      /\ ReturnsNothing(Games!UpdateSession)
      /\ ReturnsNothing(Games!DeleteSession)
      /\ ReturnsNothing(Games!MigrateSession)
      /\ ReturnsNothing(Games!LeaveSession)
      /\ ReturnsNothing(Games!GetSession)
  BY DEF ReturnsNothing, Games!CreateSession, Games!UpdateSession, Games!DeleteSession,
         Games!MigrateSession, Games!LeaveSession, Games!GetSession, Games!Method
<1>4. /\ ReturnsNothing(Games!SearchSessions)
      /\ ReturnsNothing(Games!AddParticipants)
      /\ ReturnsNothing(Games!RemoveParticipants)
      /\ ReturnsNothing(Games!GetParticipantCount)
      /\ ReturnsNothing(Games!GetParticipants)
      /\ ReturnsNothing(Games!SendInvitation)
  BY DEF ReturnsNothing, Games!SearchSessions, Games!AddParticipants,
         Games!RemoveParticipants, Games!GetParticipantCount, Games!GetParticipants,
         Games!SendInvitation, Games!Method
<1>5. /\ ReturnsNothing(Games!GetInvitationReceivedCount)
      /\ ReturnsNothing(Games!GetInvitationsReceived)
      /\ ReturnsNothing(Games!GetInvitationSentCount)
      /\ ReturnsNothing(Games!GetInvitationsSent)
      /\ ReturnsNothing(Games!AcceptInvitation)
      /\ ReturnsNothing(Games!DeclineInvitation)
  BY DEF ReturnsNothing, Games!GetInvitationReceivedCount, Games!GetInvitationsReceived,
         Games!GetInvitationSentCount, Games!GetInvitationsSent, Games!AcceptInvitation,
         Games!DeclineInvitation, Games!Method
<1>6. /\ ReturnsNothing(Games!CancelInvitation)
      /\ ReturnsNothing(Games!SendTextMessage)
      /\ ReturnsNothing(Games!RegisterUrls)
      /\ ReturnsNothing(Games!JoinSession)
      /\ ReturnsNothing(Games!AbandonSession)
      /\ ReturnsNothing(Games!SearchSessionsWithParticipants)
  BY DEF ReturnsNothing, Games!CancelInvitation, Games!SendTextMessage,
         Games!RegisterUrls, Games!JoinSession, Games!AbandonSession,
         Games!SearchSessionsWithParticipants, Games!Method, Games!Struct, Struct
<1>7. /\ ReturnsNothing(Games!GetSessions)
      /\ ReturnsNothing(Games!GetParticipantsUrls)
      /\ ReturnsNothing(Games!MigrateSessionHost)
      /\ ReturnsNothing(Games!SplitSession)
      /\ ReturnsNothing(Games!SearchSocialSessions)
      /\ ReturnsNothing(Games!ReportUnsuccessfulJoinSessions)
  BY DEF ReturnsNothing, Games!GetSessions, Games!GetParticipantsUrls,
         Games!MigrateSessionHost, Games!SplitSession, Games!SearchSocialSessions,
         Games!ReportUnsuccessfulJoinSessions, Games!Method
<1> QED
  BY <1>1, <1>2, <1>3, <1>4, <1>5, <1>6, <1>7

\* Nothing is told to somebody who is no user: an error, or a value without fields.
IsDiscreet(outcome, found, call, at) ==
  /\ outcome.userId = Undefined
  /\ outcome.probes = << >> \/ outcome.probes = ProbesFor(call.value, at)
  /\ at.userId = Undefined =>
       /\ outcome.probes = << >>
       /\ outcome.error # "" \/
            (outcome.value = << >> /\ ResponseType(found, call) = Struct(<< >>))

LEMMA ShutIsDiscreet ==
  ASSUME NEW outcome, NEW found, NEW call, NEW at, IsShut(outcome, at)
  PROVE  IsDiscreet(outcome, found, call, at)
BY Zenon DEF IsShut, IsDiscreet

LEMMA ProbingIsDiscreet ==
  ASSUME NEW outcome, NEW found, NEW call, NEW at, IsProbing(outcome, call.value, at)
  PROVE  IsDiscreet(outcome, found, call, at)
BY Zenon DEF IsProbing, IsDiscreet

LEMMA OverlordIsShut ==
  ASSUME NEW protocol, IsSecure(protocol), protocol.id \in HandMade,
         NEW m \in DOMAIN protocol.methods, NEW at
  PROVE  /\ Overlord(protocol, protocol.methods[m].key, at).userId = Undefined
         /\ Overlord(protocol, protocol.methods[m].key, at).probes = << >>
<1>1. protocol.id \in {5002, 5003, 5007}
  BY DEF HandMade
<1>2. CASE protocol.id = 5002
  <2>1. PICK method, methods : method.key = "get_news" /\ methods = <<method>>
                                 /\ protocol.methods = methods
    BY <1>2 DEF IsSecure, OverlordNewsProtocol, Protocol, Method
  <2>2. protocol.methods[m].key = "get_news"
    BY <2>1
  <2> QED
    BY <2>2, AnswerIs, Zenon DEF Overlord
<1>3. CASE protocol.id = 5003
  <2>1. PICK method, methods : method.key = "fetch_config" /\ methods = <<method>>
                                 /\ protocol.methods = methods
    BY <1>3 DEF IsSecure, OverlordCoreProtocol, Protocol, Method
  <2>2. protocol.methods[m].key = "fetch_config"
    BY <2>1
  <2> QED
    BY <2>2, AnswerIs, Zenon DEF Overlord
<1>4. CASE protocol.id = 5007
  <2>1. PICK method, methods : method.key = "get_challenges" /\ methods = <<method>>
                                 /\ protocol.methods = methods
    BY <1>4 DEF IsSecure, OverlordChallengeProtocol, Protocol, Method
  <2>2. protocol.methods[m].key = "get_challenges"
    BY <2>1
  <2> QED
    BY <2>2, AnswerIs, Zenon DEF Overlord
<1> QED
  BY <1>1, <1>2, <1>3, <1>4

LEMMA HandlerIsShut ==
  ASSUME NEW id, id \in {11, 29, 35, 36, 39, 49, 53, 55, 105, 106, 107, 123, 1001},
         NEW key, NEW request, NEW at
  PROVE  IsShut(Handler(id, key, request, at), at)
<1>1. CASE id \in {11, 29, 35, 36}
  BY <1>1, SecureConnectionIsShut, UbiAccountManagementIsShut,
     PrivilegesIsShut, TrackingIsShut DEF Handler
<1>2. CASE id \in {39, 49, 53, 55}
  BY <1>2, LocalizationIsShut, UplayWinIsShut, UserStorageIsShut, PlayerStatsIsShut DEF Handler
<1>3. CASE id \in {105, 106, 107, 123, 1001}
  BY <1>3, ChallengeHelperIsShut, ClanHelperIsShut, LadderHelperIsShut, GameSessionExIsShut,
     TrackingExtensionIsShut DEF Handler
<1> QED
  BY <1>1, <1>2, <1>3

LEMMA JoinIsDiscreet ==
  ASSUME NEW found, found[1] = Games!GameSessionProtocol, NEW call,
         call.methodId \in DOMAIN found[1].methods, NEW at
  PROVE  IsDiscreet(Handler(42, found[1].methods[call.methodId].key, call.value, at),
                    found, call, at)
<1>1. PICK method : method = found[1].methods[call.methodId]
  OBVIOUS
<1>2. ReturnsNothing(method)
  BY <1>1, JoinReturnsNothing
<1>3. PICK outcome : outcome = GameSession(method.key, call.value, at)
  OBVIOUS
<1>4. outcome = Handler(42, method.key, call.value, at)
  BY <1>3 DEF Handler
<1>5. CASE method.key = "joinSession"
  <2>1. outcome = Done
    BY <1>3, <1>5, GameSessionIsShut
  <2>2. PICK value : value = << >> /\ outcome = Answer(value)
    BY <2>1 DEF Done
  <2>3. outcome.userId = Undefined /\ outcome.probes = << >> /\ outcome.value = << >>
    BY <2>2, AnswerIs, Zenon
  <2>4. ResponseType(found, call) = Struct(<< >>)
    BY <1>1, <1>2, <1>5 DEF ReturnsNothing, ResponseType
  <2>5. IsDiscreet(outcome, found, call, at)
    BY <2>3, <2>4 DEF IsDiscreet
  <2> QED
    BY <1>1, <1>4, <2>5
<1>6. CASE method.key # "joinSession"
  <2>1. IsShut(outcome, at)
    BY <1>3, <1>6, GameSessionIsShut
  <2> QED
    BY <1>1, <1>4, <2>1, ShutIsDiscreet
<1> QED
  BY <1>5, <1>6

LEMMA SecureOutcome ==
  ASSUME NEW p, NEW k, NEW at, p.world.service = "secure"
  PROVE  IsDiscreet(OutcomeOf(p, k, at), FoundFor(p, k), p.calls[k], at)
<1>1. PICK call : call = p.calls[k]
  OBVIOUS
<1>2. PICK found : found = FoundFor(p, k)
  OBVIOUS
<1>3. PICK outcome : outcome = Outcome(found, call, at)
  OBVIOUS
<1>4. outcome = OutcomeOf(p, k, at)
  BY <1>1, <1>2, <1>3 DEF OutcomeOf
<1>5. SUFFICES IsDiscreet(outcome, found, call, at)
  BY <1>1, <1>2, <1>4
<1>6. ASSUME NEW error, error # "", outcome = Refuse(error)
      PROVE  IsDiscreet(outcome, found, call, at)
  BY <1>6, RefusalIsShut, ShutIsDiscreet, Zenon
<1>7. CASE found = << >>
  BY <1>3, <1>6, <1>7, Zenon DEF Outcome
<1>8. CASE found # << >>
  <2>1. PICK protocol : protocol = found[1] /\ protocol.id = call.protocolId /\ IsSecure(protocol)
    <3>1. Registration("secure", call.protocolId) = found
      BY <1>1, <1>2 DEF FoundFor
    <3>2. PICK i \in DOMAIN Protocols("secure") :
            found[1] = Protocols("secure")[i] /\ Protocols("secure")[i].id = call.protocolId
      BY <1>8, <3>1, RegisteredId
    <3>3. Protocols("secure") = SecureProtocols
      BY DEF Protocols
    <3>4. IsSecure(SecureProtocols[i])
      BY <3>2, <3>3, SecureProtocolIs
    <3> QED
      BY <3>2, <3>3, <3>4
  <2>2. PICK known : known = (call.methodId \in DOMAIN protocol.methods)
    OBVIOUS
  <2>3. PICK key : key = protocol.methods[call.methodId].key
    OBVIOUS
  <2>4. outcome = IF protocol.id \in HandMade /\ at.userId = Undefined THEN Refuse("AccessDenied")
                  ELSE IF ~known THEN Refuse("UnknownMethod")
                  ELSE IF call.incomplete THEN Refuse("ParsingError")
                  ELSE IF protocol.id \in HandMade THEN Overlord(protocol, key, at)
                  ELSE Handler(protocol.id, key, call.value, at)
    BY <1>3, <1>8, <2>1, <2>2, <2>3 DEF Outcome
  <2>5. CASE protocol.id \in HandMade /\ at.userId = Undefined
    BY <1>6, <2>4, <2>5, Zenon
  <2>6. CASE ~(protocol.id \in HandMade /\ at.userId = Undefined) /\ ~known
    BY <1>6, <2>4, <2>6, Zenon
  <2>7. CASE ~(protocol.id \in HandMade /\ at.userId = Undefined) /\ known /\ call.incomplete
    BY <1>6, <2>4, <2>7, Zenon
  <2>8. CASE protocol.id \in HandMade /\ at.userId # Undefined /\ known /\ ~call.incomplete
    <3>1. outcome = Overlord(protocol, key, at)
      BY <2>4, <2>8
    <3>2. PICK m \in DOMAIN protocol.methods : m = call.methodId
      BY <2>2, <2>8
    <3>3. outcome = Overlord(protocol, protocol.methods[m].key, at)
      BY <2>3, <3>1, <3>2
    <3>4. /\ Overlord(protocol, protocol.methods[m].key, at).userId = Undefined
          /\ Overlord(protocol, protocol.methods[m].key, at).probes = << >>
      BY <2>1, <2>8, OverlordIsShut
    <3> QED
      BY <2>8, <3>3, <3>4, Zenon DEF IsDiscreet
  <2>9. CASE protocol.id \notin HandMade /\ known /\ ~call.incomplete
    <3>1. outcome = Handler(protocol.id, key, call.value, at)
      BY <2>4, <2>9
    <3>2. CASE protocol.id = 42
      <4>1. found[1] = Games!GameSessionProtocol
        BY <2>1, <3>2 DEF IsSecure
      <4>2. IsDiscreet(Handler(42, found[1].methods[call.methodId].key, call.value, at),
                       found, call, at)
        BY <2>1, <2>2, <2>9, <4>1, JoinIsDiscreet
      <4> QED
        BY <2>1, <2>3, <3>1, <3>2, <4>2
    <3>3. CASE protocol.id = 3
      <4>1. outcome = NATTraversal(key, call.value, at)
        BY <3>1, <3>3 DEF Handler
      <4>2. IsProbing(outcome, call.value, at)
        BY <4>1, NATTraversalIsProbing
      <4> QED
        BY <4>2, ProbingIsDiscreet
    <3>4. CASE protocol.id \notin {3, 42}
      <4>1. protocol.id \in {11, 29, 35, 36, 39, 49, 53, 55, 105, 106, 107, 123, 1001}
        BY <2>1, <2>9, <3>4 DEF IsSecure
      <4>2. IsShut(outcome, at)
        BY <3>1, <4>1, HandlerIsShut
      <4> QED
        BY <4>2, ShutIsDiscreet
    <3> QED
      BY <3>2, <3>3, <3>4
  <2> QED
    BY <2>5, <2>6, <2>7, <2>8, <2>9
<1> QED
  BY <1>7, <1>8

-----------------------------------------------------------------------------
(***************************************************************************)
(* Nobody becomes a user on the secure service, and strangers have no      *)
(* probes sent.                                                            *)
(***************************************************************************)
\* What a job of the secure service can do.
LEMMA JobIsDiscreet ==
  ASSUME IsDispatched, NEW p, IsPlan(p), p.world.service = "secure",
         NEW job, HoldsCall(p, job)
  PROVE  /\ job.becomes = Nobody
         /\ job.call.userId = Undefined => job.probes = << >>
<1>1. CASE ~job.answered
  <2>1. PICK result : ComesOf(job, result) /\ ~result.answered
    BY <1>1 DEF HoldsCall, ComesOf
  <2> QED
    BY <2>1 DEF ComesOf
<1>2. CASE job.answered
  <2>1. IsServed(p, job)
    BY <1>2, JobIsServed
  <2>2. PICK k : k = p.pieces[job.piece].call
    OBVIOUS
  <2>3. PICK outcome : outcome = OutcomeOf(p, k, job.call)
    BY SMTT(30)
  <2>4. job.becomes = outcome.userId /\ job.probes = outcome.probes
    BY <2>1, <2>2, <2>3 DEF IsServed
  <2>5. IsDiscreet(outcome, FoundFor(p, k), p.calls[k], job.call)
    BY <2>3, SecureOutcome
  <2> QED
    BY <2>4, <2>5, Zenon DEF IsDiscreet, Undefined, Nobody
<1> QED
  BY <1>1, <1>2

LEMMA NoneToSend ==
  ASSUME NEW c \in Signatures
  PROVE  ProbePackets(<< >>)[c] = << >>
<1>1. PICK probes : probes = << >>
  OBVIOUS
<1>2. IsSeq(probes) /\ Len(probes) = 0
  BY <1>1, SeqEmpty
<1>3. PICK g : /\ ProbeTable(probes, SUBSET (1 .. Len(probes)), g)
               /\ ProbePackets(probes) = g[1 .. Len(probes)]
  BY <1>2, ProbeTableOfFold
<1>4. PICK T : T = 1 .. Len(probes) /\ T = {} /\ T \in SUBSET (1 .. Len(probes))
  BY <1>2
<1>5. g[T] = NoProbes
  BY <1>3, <1>4, Zenon DEF ProbeTable
<1> QED
  BY <1>1, <1>3, <1>4, <1>5 DEF NoProbes

IsSecureService == plan.world.service = "secure"
OnlyStrangers == \A j \in DOMAIN jobs : jobs[j].call.userId = Undefined

StrangerInv ==
  /\ IsSeq(probed) /\ Len(probed) = Len(infos)
  /\ \A j \in DOMAIN jobs : jobs[j].call.userId = infos[jobs[j].client].userId
  /\ OnlyStrangers => \A s \in Signatures : probed[s] = << >>

\* A step that leaves the users and the probes alone.
LEMMA StrangersStay ==
  ASSUME Inv, JobsInv, StrangerInv, [Next]_vars, UNCHANGED probed, DOMAIN jobs' = DOMAIN jobs,
         Len(infos') = Len(infos), \A s \in Signatures : infos'[s].userId = infos[s].userId
  PROVE  StrangerInv'
<1>1. Signatures' = Signatures
  BY DEF Signatures
<1>2. ASSUME NEW j \in DOMAIN jobs
      PROVE  /\ jobs'[j].call = jobs[j].call /\ jobs'[j].client = jobs[j].client
             /\ jobs[j].client \in Signatures
  BY JobsGrow DEF KeepsJob, Inv, IsJob, Signatures
<1>3. ASSUME NEW j \in DOMAIN jobs
      PROVE  jobs'[j].call.userId = infos'[jobs'[j].client].userId
  BY <1>2 DEF StrangerInv
<1>4. OnlyStrangers' => OnlyStrangers
  BY <1>2 DEF OnlyStrangers
<1>5. OnlyStrangers' => \A s \in Signatures' : probed'[s] = << >>
  BY <1>1, <1>4 DEF StrangerInv
<1> QED
  BY <1>3, <1>5 DEF StrangerInv

LEMMA ConnectStrangers ==
  ASSUME Inv, StrangerInv, Connect
  PROVE  StrangerInv'
<1>1. PICK info : infos' = Append(infos, info)
  BY DEF Connect
<1>2. probed' = Append(probed, << >>) /\ UNCHANGED jobs
  BY DEF Connect
<1>3. IsSeq(infos) /\ Len(infos) \in Nat /\ IsSeq(probed) /\ Len(probed) = Len(infos)
  BY SeqDomain DEF Inv, StrangerInv
<1>4. /\ Len(infos') = Len(infos) + 1
      /\ \A s \in Signatures : infos'[s] = infos[s]
  BY <1>1, <1>3, SeqAppend DEF Signatures
<1>5. /\ IsSeq(probed') /\ Len(probed') = Len(infos) + 1
      /\ \A s \in Signatures : probed'[s] = probed[s]
      /\ probed'[Len(infos) + 1] = << >>
  BY <1>2, <1>3, SeqAppend DEF Signatures
<1>6. Signatures' = Signatures \union {Len(infos) + 1}
  BY <1>3, <1>4 DEF Signatures
<1>7. \A j \in DOMAIN jobs : jobs'[j].call.userId = infos'[jobs'[j].client].userId
  BY <1>2, <1>4 DEF StrangerInv, Inv, IsJob, Signatures
<1>8. OnlyStrangers' => \A s \in Signatures' : probed'[s] = << >>
  BY <1>2, <1>5, <1>6 DEF StrangerInv, OnlyStrangers
<1> QED
  BY <1>2, <1>4, <1>5, <1>7, <1>8 DEF StrangerInv

LEMMA HandleStrangers ==
  ASSUME IsDispatched, IsSecureService, Inv, PlanInv', StrangerInv, HandleMessage
  PROVE  StrangerInv'
<1>1. PICK s \in Signatures : s = Sender
  BY Zenon DEF HandleMessage, Inv
<1>2. PICK data : data = Reassembled(infos[s].packetFragments, Head1.packet.payload)
  OBVIOUS
<1>3. PICK job : job = JobOf(s, data, Handle(Call(s), data))
  OBVIOUS
<1>4. PICK sent : sent = ProbePackets(job.probes)
  BY SMTT(30)
<1>5. /\ jobs' = Append(jobs, job) /\ UNCHANGED plan
      /\ probed' = [c \in Signatures |-> probed[c] \o sent[c]]
  BY <1>1, <1>2, <1>3, <1>4, Zenon DEF HandleMessage
<1>6. Len(infos') = Len(infos)
  BY HandleStep DEF TookMessage
<1>7. Signatures' = Signatures
  BY <1>6 DEF Signatures
<1>8. /\ Len(jobs) \in Nat /\ DOMAIN jobs = 1 .. Len(jobs)
      /\ DOMAIN jobs' = 1 .. Len(jobs) + 1
      /\ \A j \in 1 .. Len(jobs) : jobs'[j] = jobs[j]
      /\ jobs'[Len(jobs) + 1] = job
  <2>1. IsSeq(jobs)
    BY DEF Inv
  <2>2. /\ IsSeq(jobs') /\ Len(jobs') = Len(jobs) + 1
        /\ \A j \in 1 .. Len(jobs) : jobs'[j] = jobs[j]
        /\ jobs'[Len(jobs) + 1] = job
    BY <1>5, <2>1, SeqAppend
  <2> QED
    BY <2>1, <2>2, SeqDomain
<1>9. /\ job.becomes = Nobody
      /\ job.call.userId = Undefined => job.probes = << >>
  <2>1. IsPlan(plan) /\ HoldsCall(plan, job)
    BY <1>5, <1>8 DEF PlanInv, FlightInv, MessageInv
  <2> QED
    BY <2>1, JobIsDiscreet DEF IsSecureService
<1>10. job.client = s /\ job.call.userId = infos[s].userId
  BY <1>3 DEF JobOf, Call
<1>11. \A c \in Signatures : infos'[c].userId = infos[c].userId
  <2> TAKE c \in Signatures
  <2>1. infos'[c].userId = IF Answering(job, s, c) THEN LoginOf(s, job) ELSE infos[c].userId
    BY <1>1, <1>2, <1>3, HandleFields
  <2>2. LoginOf(s, job) = infos[s].userId
    BY <1>9 DEF LoginOf
  <2> QED
    BY <2>1, <2>2 DEF Answering
<1>12. ASSUME NEW j \in DOMAIN jobs'
       PROVE  jobs'[j].call.userId = infos'[jobs'[j].client].userId
  <2>1. CASE j = Len(jobs) + 1
    BY <1>8, <1>10, <1>11, <2>1
  <2>2. CASE j \in 1 .. Len(jobs)
    <3>1. jobs[j].client \in Signatures /\ jobs[j].call.userId = infos[jobs[j].client].userId
      BY <1>8, <2>2 DEF Inv, IsJob, Signatures, StrangerInv
    <3> QED
      BY <1>8, <1>11, <2>2, <3>1
  <2> QED
    BY <1>8, <1>12, <2>1, <2>2
<1>13. ASSUME OnlyStrangers', NEW c \in Signatures
       PROVE  probed'[c] = << >>
  <2>1. OnlyStrangers
    BY <1>8, <1>13 DEF OnlyStrangers
  <2>2. probed[c] = << >>
    BY <2>1 DEF StrangerInv
  <2>3. job.call.userId = Undefined
    BY <1>8, <1>13 DEF OnlyStrangers
  <2>4. sent[c] = << >>
    BY <1>4, <1>9, <2>3, NoneToSend
  <2>5. PICK q : q = << >> /\ IsSeq(q)
    BY SeqEmpty
  <2>6. q \o << >> = q
    BY <2>5, EmptyConcat
  <2>7. probed'[c] = probed[c] \o sent[c]
    BY <1>5
  <2> QED
    BY <2>2, <2>4, <2>5, <2>6, <2>7
<1>14. IsSeq(probed') /\ Len(probed') = Len(infos)
  <2>1. PICK n \in Nat : n = Len(infos)
    BY SeqDomain DEF Inv
  <2>2. PICK f : f = probed'
    OBVIOUS
  <2>3. DOMAIN f = 1 .. n /\ f = [i \in 1 .. n |-> f[i]]
    BY <1>5, <2>1, <2>2 DEF Signatures
  <2>4. IsSeq(f) /\ Len(f) = n
    BY <2>3, SeqFunction
  <2> QED
    BY <2>1, <2>2, <2>4
<1> QED
  BY <1>6, <1>7, <1>12, <1>13, <1>14 DEF StrangerInv

LEMMA FinishStrangers ==
  ASSUME IsDispatched, IsSecureService, Inv, JobsInv, PlanInv, StrangerInv,
         NEW j \in DOMAIN jobs, Finish(j)
  PROVE  StrangerInv'
<1>1. PICK s \in Signatures : \E job : Ended(s, job, j)
  BY FinishStep
<1>2. PICK job : Ended(s, job, j)
  BY <1>1
<1>3. job.becomes = Nobody
  <2>1. IsPlan(plan) /\ HoldsCall(plan, job)
    BY <1>2 DEF PlanInv, FlightInv, MessageInv, Ended
  <2> QED
    BY <2>1, JobIsDiscreet DEF IsSecureService
<1>4. LoginOf(s, job) = infos[s].userId
  BY <1>3 DEF LoginOf
<1>5. PICK info : info = infos[s] /\ DOMAIN info = InfoFields
  BY DEF Inv, IsLogOf
<1>6. PICK n, user : /\ infos'[s] = [info EXCEPT !.serverSequenceId = n, !.userId = user]
                     /\ user = info.userId
  <2>1. PICK n : n = NextSequenceId(s, job)
    OBVIOUS
  <2>2. PICK user : user = LoginOf(s, job)
    OBVIOUS
  <2>3. infos'[s] = [infos[s] EXCEPT !.serverSequenceId = NextSequenceId(s, job),
                                     !.userId = LoginOf(s, job)]
    BY <1>2 DEF Ended
  <2>4. infos'[s] = [info EXCEPT !.serverSequenceId = n, !.userId = user]
    BY <1>5, <2>1, <2>2, <2>3
  <2> QED
    BY <1>4, <1>5, <2>2, <2>4, Zenon
<1>7. infos'[s].userId = infos[s].userId
  BY <1>5, <1>6 DEF InfoFields
<1>8. \A c \in Signatures : infos'[c].userId = infos[c].userId
  BY <1>2, <1>7 DEF Ended
<1>9. DOMAIN jobs' = DOMAIN jobs
  BY <1>2 DEF Ended
<1>10. [Next]_vars
  BY DEF Next, Work
<1> QED
  BY <1>2, <1>8, <1>9, <1>10, StrangersStay DEF Ended

LEMMA FragmentStrangers ==
  ASSUME Inv, JobsInv, StrangerInv, HandleFragment
  PROVE  StrangerInv'
<1>1. PICK s \in Signatures : s = Sender
  BY DEF HandleFragment, Inv
<1>2. PICK e : infos' = [infos EXCEPT ![s] = [infos[s] EXCEPT !.packetFragments = e]]
  BY <1>1 DEF HandleFragment
<1>3. PICK other : other = [infos[s] EXCEPT !.packetFragments = e]
  OBVIOUS
<1>4. DOMAIN infos[s] = InfoFields
  BY DEF Inv, IsLogOf
<1>5. other.userId = infos[s].userId
  BY <1>3, <1>4 DEF InfoFields
<1>6. PICK q : q = infos
  OBVIOUS
<1>7. /\ Len([q EXCEPT ![s] = other]) = Len(q)
      /\ [q EXCEPT ![s] = other][s] = other
      /\ \A i \in 1 .. Len(q) : i # s => [q EXCEPT ![s] = other][i] = q[i]
  <2>1. IsSeq(q) /\ s \in 1 .. Len(q)
    BY <1>6 DEF Inv, Signatures
  <2> QED
    BY <2>1, SeqExcept
<1>8. /\ Len(infos') = Len(infos)
      /\ \A c \in Signatures : infos'[c].userId = infos[c].userId
  BY <1>2, <1>3, <1>5, <1>6, <1>7 DEF Signatures
<1>9. [Next]_vars /\ UNCHANGED <<jobs, probed>>
  BY DEF Next, Work, HandleFragment
<1> QED
  BY <1>8, <1>9, StrangersStay

LEMMA StrangersStep ==
  ASSUME IsDispatched, IsSecureService, Inv, JobsInv, PlanInv, PlanInv', StrangerInv, [Next]_vars
  PROVE  StrangerInv'
<1>1. CASE UNCHANGED <<infos, jobs, probed>>
  BY <1>1, StrangersStay, SMTT(30)
<1>2. CASE Ignore \/ Send \/ UNCHANGED vars
  BY <1>1, <1>2, Zenon DEF Ignore, Send, vars, server, logs
<1>3. CASE \E s \in Signatures : Leave(s)
  BY <1>1, <1>3 DEF Leave, logs
<1>4. CASE \E copy \in flight.copies : Repeat(copy) \/ Lose(copy) \/ Arrive(copy)
  BY <1>1, <1>4 DEF Repeat, Lose, Arrive, server, logs
<1>5. CASE Connect
  BY <1>5, ConnectStrangers
<1>6. CASE HandleFragment
  BY <1>6, FragmentStrangers
<1>7. CASE HandleMessage
  BY <1>7, HandleStrangers
<1>8. CASE \E j \in DOMAIN jobs : Finish(j)
  BY <1>8, FinishStrangers
<1> QED
  BY <1>2, <1>3, <1>4, <1>5, <1>6, <1>7, <1>8 DEF Next, Work

LEMMA StrangerHoldsNothing ==
  ASSUME NEW p, p.world.service = "secure", NEW job, IsServed(p, job),
         job.call.userId = Undefined
  PROVE  HoldsNothing(ParseRmcPacket(job.response))
<1>1. PICK k : k = p.pieces[job.piece].call
  OBVIOUS
<1>2. PICK call : call = p.calls[k]
  OBVIOUS
<1>3. PICK at : at = job.call
  OBVIOUS
<1>4. PICK found : found = FoundFor(p, k)
  OBVIOUS
<1>5. PICK outcome : outcome = OutcomeOf(p, k, at)
  OBVIOUS
<1>6. PICK result : result = ResultOf(p, k, outcome)
  OBVIOUS
<1>7. PICK type : type = ResponseType(found, call)
  BY SMTT(30)
<1>8. /\ IsRequest(p.world.service, call)
      /\ job.response = EncodeRmcResponse(call.protocolId, k, result)
  BY <1>1, <1>2, <1>3, <1>5, <1>6 DEF IsServed
<1>9. call.methodId \in Nat /\ call.methodId < 32768
  <2>1. call.methodId \in Nat
    BY <1>8 DEF IsRequest
  <2>2. call.methodId < 32768
    BY <1>8 DEF IsRequest
  <2> QED
    BY <2>1, <2>2
<1>10. PICK id \in Nat : id = call.protocolId
  <2>1. IsProtocolId(call.protocolId)
    BY <1>8 DEF IsRequest
  <2> QED
    BY <2>1 DEF IsProtocolId
<1>11. IsDiscreet(outcome, found, call, at)
  BY <1>2, <1>4, <1>5, SecureOutcome
<1>12. outcome.error # "" \/ (outcome.value = << >> /\ type = Struct(<< >>))
  BY <1>3, <1>7, <1>11, Zenon DEF IsDiscreet
<1>13. PICK response : response = Replied(id, k, result)
  OBVIOUS
<1>14. ASSUME NEW error, result = Denied(error)
       PROVE  ~result.ok /\ ~response.ok
  <2>1. IsDenied(result, response, error, id, k)
    BY <1>13, <1>14, DeniedIs
  <2> QED
    BY <2>1 DEF IsDenied
<1>15. ASSUME outcome.error = "", result = Granted(call.methodId, Write(type, outcome.value))
       PROVE  /\ IsSeq(result.data) /\ result.methodId = call.methodId
              /\ response.data = << >>
  <2>1. Write(type, outcome.value) = << >>
    BY <1>12, <1>15, CodecAssumption, Zenon
  <2>2. PICK data : data = << >> /\ IsSeq(data)
    BY SeqEmpty
  <2>3. IsGranted(result, response, call.methodId, data, id, k)
    BY <1>13, <1>15, <2>1, <2>2, GrantedIs, Zenon
  <2> QED
    BY <2>2, <2>3 DEF IsGranted
<1>16. \/ result = Denied(outcome.error) \/ result = Denied("InternalError")
       \/ outcome.error = "" /\ result = Granted(call.methodId, Write(type, outcome.value))
  <2>1. found = << >> => outcome.error # ""
    <3> SUFFICES ASSUME found = << >> PROVE outcome.error # ""
      BY Zenon
    <3>1. outcome = Refuse("UnknownProtocol")
      BY <1>4, <1>5 DEF OutcomeOf, Outcome
    <3> QED
      BY <3>1, Zenon DEF Refuse, Answer
  <2>2. FoundFor(p, k) = << >> => outcome.error # ""
    BY <1>4, <2>1, Zenon
  <2>3. FoundFor(p, k) # << >> => type = FoundFor(p, k)[1].methods[p.calls[k].methodId].response
    BY <1>2, <1>4, <1>7 DEF ResponseType
  <2>4. \/ outcome.error # "" /\ ResultOf(p, k, outcome) = Denied(outcome.error)
        \/ /\ FoundFor(p, k) # << >> /\ outcome.error = "" /\ IsWritten(Write(type, outcome.value))
           /\ ResultOf(p, k, outcome) = Granted(p.calls[k].methodId, Write(type, outcome.value))
        \/ /\ FoundFor(p, k) # << >> /\ outcome.error = "" /\ ~IsWritten(Write(type, outcome.value))
           /\ ResultOf(p, k, outcome) = Denied("InternalError")
    BY <2>2, <2>3, ResultKinds, Zenon
  <2> QED
    BY <1>2, <1>6, <2>4, Zenon
<1>17. result.ok => /\ result.methodId \in Nat /\ result.methodId < 32768
                    /\ IsSeq(result.data)
  <2> SUFFICES ASSUME result.ok
               PROVE  /\ result.methodId \in Nat /\ result.methodId < 32768
                      /\ IsSeq(result.data)
    OBVIOUS
  <2>1. ~(result = Denied(outcome.error) \/ result = Denied("InternalError"))
    BY <1>14
  <2>2. outcome.error = "" /\ result = Granted(call.methodId, Write(type, outcome.value))
    BY <1>16, <2>1, Zenon
  <2>3. IsSeq(result.data) /\ result.methodId = call.methodId
    BY <1>15, <2>2, Zenon
  <2>4. result.methodId \in Nat /\ result.methodId < 32768
    BY <1>9, <2>3
  <2> QED
    BY <2>3, <2>4
<1>18. ParseRmcPacket(job.response) = Got(response, << >>)
  BY <1>8, <1>10, <1>13, <1>17, ResultIsRead
<1>19. PICK answer : answer = ParseRmcPacket(job.response) /\ answer.value = response
  BY <1>18, GotIs
<1>20. response.ok => response.data = << >>
  BY <1>14, <1>15, <1>16, Zenon
<1> QED
  BY <1>19, <1>20 DEF HoldsNothing

StrangersInv == AnsweredInv /\ (IsSecureService /\ AnswersAreMessages => StrangerInv)

LEMMA InitStrangers == Init => StrangerInv
<1> SUFFICES ASSUME Init PROVE StrangerInv
  OBVIOUS
<1>1. infos = << >> /\ jobs = << >> /\ probed = << >>
  BY DEF Init
<1>2. DOMAIN jobs = {} /\ Signatures = {} /\ IsSeq(probed) /\ Len(probed) = Len(infos)
  BY <1>1, SeqEmpty, SeqDomain DEF Signatures
<1> QED
  BY <1>2 DEF StrangerInv

LEMMA NextStrangers ==
  ASSUME IsDispatched, StrangersInv, [Next]_vars
  PROVE  StrangersInv'
<1>1. AnsweredInv /\ AnsweredInv'
  BY NextAnswered DEF StrangersInv
<1>2. ASSUME IsSecureService', AnswersAreMessages' PROVE StrangerInv'
  <2>1. UNCHANGED plan
    BY Zenon DEF Next, Work, Connect, HandleFragment, HandleMessage, Ignore, Finish, Leave, Send,
           Repeat, Lose, Arrive, vars
  <2>2. IsSecureService
    BY <1>2, <2>1 DEF IsSecureService
  <2>3. JobsInv
    BY <1>1 DEF AnsweredInv, SentInv, ExchangeInv
  <2>4. AnswersAreMessages
    BY <1>2, <2>3, SupposedBefore
  <2>5. Inv /\ PlanInv /\ PlanInv'
    BY <1>1, <1>2, <2>4 DEF AnsweredInv, SentInv, ExchangeInv
  <2>6. StrangerInv
    BY <2>2, <2>4 DEF StrangersInv
  <2> QED
    BY <2>2, <2>3, <2>5, <2>6, StrangersStep, SMTT(30)
<1> QED
  BY <1>1, <1>2 DEF StrangersInv

\* Somebody who is no user gets no data from the secure service, whatever he calls, and
\* no probes leave as long as only such clients call: every one of its handlers asks for
\* a login first, but for the one that returns nothing.
THEOREM StrangersAreShutOut ==
  ASSUME IsDispatched
  PROVE  Spec => [](AnswersAreMessages /\ AnswersHaveFragmentIds => StrangersGetNothing)
<1>1. ASSUME StrangersInv, AnswersAreMessages, AnswersHaveFragmentIds
      PROVE  StrangersGetNothing
  <2> SUFFICES ASSUME IsSecureService
               PROVE  /\ \A s \in Signatures :
                           infos[s].userId = Undefined => HoldNothing(Messages(answered[s]))
                      /\ OnlyStrangers => \A s \in Signatures : probed[s] = << >>
    BY DEF StrangersGetNothing, IsSecureService, OnlyStrangers
  <2>1. PlanInv /\ HeldInv /\ StrangerInv
    BY <1>1 DEF StrangersInv, AnsweredInv, SentInv
  <2>2. ASSUME NEW s \in Signatures, infos[s].userId = Undefined,
               NEW m \in DOMAIN Messages(answered[s])
        PROVE  HoldsNothing(ParseRmcPacket(Messages(answered[s])[m]))
    <3>1. PICK j \in Settled(jobs, s) : Messages(answered[s])[m] = jobs[j].response
      BY <2>1, <2>2, MessagesAreGiven
    <3>2. j \in DOMAIN jobs /\ jobs[j].client = s /\ jobs[j].answered
      BY DEF Settled
    <3>3. PICK job : job = jobs[j]
      OBVIOUS
    <3>4. IsPlan(plan) /\ HoldsCall(plan, job)
      BY <2>1, <3>2, <3>3 DEF PlanInv, FlightInv, MessageInv
    <3>5. IsServed(plan, job)
      BY <3>2, <3>3, <3>4, JobIsServed
    <3>6. job.call.userId = Undefined
      BY <2>1, <2>2, <3>2, <3>3 DEF StrangerInv
    <3>7. HoldsNothing(ParseRmcPacket(job.response))
      BY <3>5, <3>6, StrangerHoldsNothing DEF IsSecureService
    <3> QED
      BY <3>1, <3>3, <3>7
  <2> QED
    BY <2>1, <2>2 DEF HoldNothing, StrangerInv
<1>2. StrangersInv => (AnswersAreMessages /\ AnswersHaveFragmentIds => StrangersGetNothing)
  BY <1>1
<1>3. Init => StrangersInv
  BY InitExchange, InitPlan, InitHeld, InitStrangers DEF StrangersInv, AnsweredInv, SentInv
<1>4. StrangersInv /\ [Next]_vars => StrangersInv'
  BY NextStrangers
<1> QED
  BY <1>2, <1>3, <1>4, PTL DEF Spec

-----------------------------------------------------------------------------
(***************************************************************************)
(* What the authentication service makes of a call.                        *)
(***************************************************************************)
\* An error without consequences.
IsRefusal(outcome) ==
  outcome.error # "" /\ outcome.userId = Undefined /\ outcome.probes = << >>

\* The outcome is that of one of the logins.
IsGranting(outcome, found, call, at) ==
  /\ found[1] = Auth!TicketGrantingProtocol
  /\ call.methodId \in DOMAIN Auth!TicketGrantingProtocol.methods
  /\ outcome = TicketGranting(Auth!TicketGrantingProtocol.methods[call.methodId].key,
                              call.value, at)

LEMMA RefuseIsRefusal ==
  ASSUME NEW error, error # ""
  PROVE  IsRefusal(Refuse(error))
<1>1. PICK refusal : refusal = Refuse(error)
  BY Zenon
<1>2. refusal.userId = Undefined /\ refusal.probes = << >> /\ refusal.error = error
  BY <1>1, RefuseIs, Zenon
<1> QED
  BY <1>1, <1>2, Zenon DEF IsRefusal

LEMMA AuthenticationOutcome ==
  ASSUME NEW p, NEW k, NEW at, p.world.service # "secure"
  PROVE  \/ IsRefusal(OutcomeOf(p, k, at))
         \/ FoundFor(p, k) # << >> /\ IsGranting(OutcomeOf(p, k, at), FoundFor(p, k), p.calls[k], at)
<1>1. PICK call : call = p.calls[k]
  OBVIOUS
<1>2. PICK found : found = FoundFor(p, k)
  OBVIOUS
<1>3. PICK outcome : outcome = Outcome(found, call, at)
  OBVIOUS
<1>4. outcome = OutcomeOf(p, k, at)
  BY <1>1, <1>2, <1>3 DEF OutcomeOf
<1>5. SUFFICES IsRefusal(outcome) \/ (found # << >> /\ IsGranting(outcome, found, call, at))
  BY <1>1, <1>2, <1>4
<1>6. ASSUME NEW error, error # "", outcome = Refuse(error)
      PROVE  IsRefusal(outcome)
  BY <1>6, RefuseIsRefusal, Zenon
<1>7. CASE found = << >>
  BY <1>3, <1>6, <1>7, Zenon DEF Outcome
<1>8. CASE found # << >>
  <2>1. PICK service : service = p.world.service /\ service # "secure"
    OBVIOUS
  <2>2. PICK protocol : protocol = Auth!TicketGrantingProtocol
    OBVIOUS
  <2>3. Protocols(service) = <<protocol>>
    BY <2>1, <2>2 DEF Protocols, AuthenticationProtocols
  <2>4. found[1] = protocol /\ protocol.id = call.protocolId
    <3>1. Registration(service, call.protocolId) = found
      BY <1>1, <1>2, <2>1 DEF FoundFor
    <3>2. PICK i \in DOMAIN Protocols(service) :
            found[1] = Protocols(service)[i] /\ Protocols(service)[i].id = call.protocolId
      BY <1>8, <3>1, RegisteredId
    <3> QED
      BY <2>3, <3>2
  <2>5. protocol.id = 10
    BY <2>2 DEF Auth!TicketGrantingProtocol, Auth!Protocol
  <2>6. call.protocolId = 10 /\ call.protocolId \notin HandMade
    BY <2>4, <2>5 DEF HandMade
  <2>7. PICK known : known = (call.methodId \in DOMAIN protocol.methods)
    OBVIOUS
  <2>8. PICK key : key = protocol.methods[call.methodId].key
    OBVIOUS
  <2>9. outcome = IF ~known THEN Refuse("UnknownMethod")
                  ELSE IF call.incomplete THEN Refuse("ParsingError")
                  ELSE Handler(10, key, call.value, at)
    BY <1>3, <1>8, <2>4, <2>6, <2>7, <2>8 DEF Outcome
  <2>10. CASE ~known \/ call.incomplete
    BY <1>6, <2>9, <2>10, Zenon
  <2>11. CASE known /\ ~call.incomplete
    <3>1. outcome = TicketGranting(key, call.value, at)
      BY <2>9, <2>11 DEF Handler
    <3> QED
      BY <1>8, <2>2, <2>4, <2>7, <2>8, <2>11, <3>1 DEF IsGranting
  <2> QED
    BY <2>10, <2>11
<1> QED
  BY <1>7, <1>8

\* An answer to a login, whoever it logs in and however late.
LEMMA LoggedInSendsNone ==
  ASSUME NEW call, NEW userId, NEW password, NEW pid
  PROVE  LoggedIn(call, userId, password, pid).probes = << >>
<1>1. PICK value : LoggedIn(call, userId, password, pid) = [Answer(value) EXCEPT !.userId = userId]
  BY DEF LoggedIn
<1>2. [Answer(value) EXCEPT !.userId = userId].probes = << >>
  BY DEF Answer
<1> QED
  BY <1>1, <1>2

LEMMA LoginWithSendsNone ==
  ASSUME NEW login, NEW call
  PROVE  LoginWith(login, call).probes = << >>
BY RefuseIs, LoggedInSendsNone DEF LoginWith

LEMMA TicketsSendNone ==
  ASSUME NEW key, NEW request, NEW call
  PROVE  TicketGranting(key, request, call).probes = << >>
<1>1. Login(request, call).probes = << >>
  BY RefuseIs, LoggedInSendsNone DEF Login
<1>2. LoginEx(request, call).probes = << >>
  <2>1. PICK login : login = Read(Auth!UbiAuthenticationLoginCustomData, request.oExtraData.data)
    OBVIOUS
  <2>2. LoginIfRead(login, call).probes = << >>
    BY RefuseIs, LoginWithSendsNone DEF LoginIfRead
  <2>3. PICK done : /\ done = Refuse("ParsingError") \/ done = LoginIfRead(login, call)
                    /\ LoginEx(request, call) = [done EXCEPT !.async = TRUE]
    BY <2>1 DEF LoginEx
  <2>4. done.probes = << >>
    BY <2>2, <2>3, RefuseIs
  <2>5. [done EXCEPT !.async = TRUE].probes = done.probes
    OBVIOUS
  <2> QED
    BY <2>3, <2>4, <2>5
<1>3. RequestTicket(request, call).probes = << >>
  BY AnswerIs, RefuseIs, Zenon DEF RequestTicket
<1> QED
  BY <1>1, <1>2, <1>3, RefuseIs, SMTT(30) DEF TicketGranting

-----------------------------------------------------------------------------
(***************************************************************************)
(* The probes of a call, and what their receiver reads.                    *)
(***************************************************************************)
LEMMA ProbesOfOutcome ==
  ASSUME NEW p, NEW k, NEW at, NEW outcome, outcome = OutcomeOf(p, k, at)
  PROVE  outcome.probes = << >> \/ outcome.probes = ProbesFor(p.calls[k].value, at)
<1>1. CASE p.world.service = "secure"
  <2>1. IsDiscreet(outcome, FoundFor(p, k), p.calls[k], at)
    BY <1>1, SecureOutcome
  <2> QED
    BY <2>1, Zenon DEF IsDiscreet
<1>2. CASE p.world.service # "secure"
  <2>1. CASE IsRefusal(outcome)
    BY <2>1, ZenonT(40) DEF IsRefusal
  <2>2. CASE IsGranting(outcome, FoundFor(p, k), p.calls[k], at)
    BY <2>2, TicketsSendNone, Zenon DEF IsGranting
  <2> QED
    BY <1>2, <2>1, <2>2, AuthenticationOutcome
<1> QED
  BY <1>1, <1>2

LEMMA TargetsAreAskedFor ==
  ASSUME NEW request, IsSeq(request.urlTargetList), NEW call,
         NEW i \in DOMAIN Targets(request, call)
  PROVE  \E t \in DOMAIN request.urlTargetList :
           /\ Targets(request, call)[i] = request.urlTargetList[t]
           /\ request.urlTargetList[t].rvcid \in call.connected
<1>1. PICK urls : urls = request.urlTargetList /\ IsSeq(urls)
  OBVIOUS
<1>2. PICK n \in Nat : n = Len(urls) /\ DOMAIN urls = 1 .. n
  BY <1>1, SeqDomain
<1>3. PICK qs : qs = [t \in 1 .. n |-> IF urls[t].rvcid \in call.connected THEN <<urls[t]>> ELSE << >>]
  OBVIOUS
<1>4. PICK w : w = Targets(request, call) /\ w = FlattenSeq(qs)
  BY <1>1, <1>2, <1>3 DEF Targets
<1>5. IsSeq(qs) /\ Len(qs) = n
  <2>1. DOMAIN qs = 1 .. n /\ qs = [t \in 1 .. n |-> qs[t]]
    BY <1>3
  <2> QED
    BY <2>1, SeqFunction
<1>6. \A t \in 1 .. n : qs[t] = IF urls[t].rvcid \in call.connected THEN <<urls[t]>> ELSE << >>
  BY <1>3
<1>7. \A t \in 1 .. n : IsSeq(qs[t])
  <2> TAKE t \in 1 .. n
  <2>1. PICK url : url = urls[t]
    OBVIOUS
  <2>2. IsSeq(<<url>>) /\ IsSeq(<< >>)
    BY SeqSingle, SeqEmpty
  <2> QED
    BY <1>6, <2>1, <2>2
<1>8. AreBlocks(w, qs, n)
  BY <1>4, <1>5, <1>7, FlattenBlocks
<1>9. i \in 1 .. Len(w)
  <2>1. IsSeq(w)
    BY <1>8 DEF AreBlocks
  <2> QED
    BY <1>4, <2>1, SeqDomain
<1>10. PICK t \in 1 .. n, o \in Nat : IsBlock(w, qs, t, o) /\ o < i /\ i <= o + Len(qs[t])
  BY <1>8, <1>9 DEF AreBlocks
<1>11. urls[t].rvcid \in call.connected
  <2> SUFFICES ASSUME urls[t].rvcid \notin call.connected PROVE FALSE
    OBVIOUS
  <2>1. PICK q : q = qs[t] /\ q = << >>
    BY <1>6
  <2>2. Len(q) = 0
    BY <2>1, SeqEmpty
  <2> QED
    BY <1>9, <1>10, <2>1, <2>2
<1>12. PICK url : url = urls[t]
  OBVIOUS
<1>13. PICK q : q = qs[t] /\ q = <<url>>
  BY <1>6, <1>11, <1>12
<1>14. Len(q) = 1 /\ q[1] = url
  BY <1>13, SeqSingle
<1>15. i = o + 1
  <2>1. i \in Nat
    BY <1>9
  <2> QED
    BY <1>10, <1>13, <1>14, <2>1
<1>16. w[o + 1] = q[1]
  BY <1>10, <1>13, <1>14 DEF IsBlock
<1> QED
  BY <1>1, <1>2, <1>4, <1>11, <1>12, <1>14, <1>15, <1>16

IsTargetOf(id, request) ==
  \E t \in DOMAIN request.urlTargetList : request.urlTargetList[t].rvcid = id

AreProbesFor(probes, request, call) ==
  IsSeq(request.urlTargetList) /\ probes = ProbesFor(request, call)

IsAskedFor(probe, request, call) ==
  /\ probe.data = Probe(request.urlStationToProbe)
  /\ probe.connectionId \in call.connected
  /\ IsTargetOf(probe.connectionId, request)

LEMMA ProbesAreForTargets ==
  ASSUME NEW request, NEW call, NEW probes, AreProbesFor(probes, request, call),
         NEW n \in DOMAIN probes
  PROVE  IsAskedFor(probes[n], request, call)
<1>1. PICK targets : targets = Targets(request, call)
  OBVIOUS
<1>2. probes = [i \in DOMAIN targets |-> [connectionId |-> targets[i].rvcid,
                                          data |-> Probe(request.urlStationToProbe)]]
  BY <1>1 DEF AreProbesFor, ProbesFor
<1>3. n \in DOMAIN targets
  BY <1>2
<1>4. probes[n].connectionId = targets[n].rvcid /\ probes[n].data = Probe(request.urlStationToProbe)
  BY <1>2, <1>3
<1>5. PICK t \in DOMAIN request.urlTargetList :
        /\ targets[n] = request.urlTargetList[t]
        /\ request.urlTargetList[t].rvcid \in call.connected
  BY <1>1, <1>3, TargetsAreAskedFor DEF AreProbesFor
<1>6. IsTargetOf(targets[n].rvcid, request)
  BY <1>5 DEF IsTargetOf
<1> QED
  BY <1>4, <1>5, <1>6 DEF IsAskedFor

\* What a probe is encoded from; the codec keeps its URL.
Asking(url) == Write(Auth!InitiateProbe.request, [urlStationToProbe |-> url])

IsKept(asked) ==
  /\ IsSeq(asked.urlTargetList)
  /\ IsSeq(Asking(asked.urlStationToProbe))
  /\ Read(Auth!InitiateProbe.request, Asking(asked.urlStationToProbe)).value
       = [urlStationToProbe |-> asked.urlStationToProbe]

IsProbeFor(answer, asked) ==
  /\ answer.ok /\ answer.value.type = "request"
  /\ Read(Auth!InitiateProbe.request, answer.value.parameters).value
       = [urlStationToProbe |-> asked.urlStationToProbe]

LEMMA ProbeIsRead ==
  ASSUME NEW asked, IsKept(asked)
  PROVE  IsProbeFor(ParseRmcPacket(Probe(asked.urlStationToProbe)), asked)
<1>1. PICK q : q = Asking(asked.urlStationToProbe) /\ IsSeq(q)
  BY DEF IsKept
<1>2. PICK id : id = Auth!NATTraversalProtocol.id /\ id = 3
  BY DEF Auth!NATTraversalProtocol, Auth!Protocol
<1>3. IsProtocolId(id)
  BY <1>2 DEF IsProtocolId
<1>4. PICK r : r = [type |-> "request", protocolId |-> id, callId |-> ProbeCallId, methodId |-> 2,
                    parameters |-> q]
  OBVIOUS
<1>5. /\ r.type = "request" /\ r.protocolId = id /\ r.callId = ProbeCallId /\ r.methodId = 2
      /\ r.parameters = q
  BY <1>4
<1>6. PICK s : /\ s = [protocolId |-> id, callId |-> ProbeCallId, methodId |-> 2, parameters |-> q]
               /\ Probe(asked.urlStationToProbe) = EncodeRmcRequest(s)
  BY <1>1, <1>2 DEF Probe, Asking
<1>7. s.protocolId = id /\ s.callId = ProbeCallId /\ s.methodId = 2 /\ s.parameters = q
  BY <1>6
<1>8. EncodeRmcRequest(s) = EncodeRmcRequest(r)
  BY <1>5, <1>7 DEF EncodeRmcRequest
<1>9. ParseRmcPacket(EncodeRmcRequest(r)) = Got(r, << >>)
  <2>1. r = [type |-> "request", protocolId |-> r.protocolId, callId |-> r.callId,
             methodId |-> r.methodId, parameters |-> r.parameters]
    BY <1>4, <1>5
  <2> QED
    BY <1>1, <1>3, <1>5, <2>1, RequestIsRead
<1>10. PICK answer : /\ answer = ParseRmcPacket(Probe(asked.urlStationToProbe))
                     /\ answer.ok /\ answer.value = r
  BY <1>6, <1>8, <1>9, GotIs
<1> QED
  BY <1>1, <1>5, <1>10 DEF IsProbeFor, IsKept

-----------------------------------------------------------------------------
(***************************************************************************)
(* A connection id leads to the connection that has it.                    *)
(***************************************************************************)
Indexed ==
  \A id \in DOMAIN connectionIds :
    connectionIds[id] \in Signatures /\ infos[connectionIds[id]].connectionId = id

\* A step that leaves the connection ids alone.
LEMMA IndexedStays ==
  ASSUME Indexed, UNCHANGED connectionIds, Len(infos') = Len(infos),
         \A s \in Signatures : infos'[s].connectionId = infos[s].connectionId
  PROVE  Indexed'
BY DEF Indexed, Signatures

LEMMA ConnectIndexed ==
  ASSUME Inv, Indexed, Connect
  PROVE  Indexed'
<1>1. PICK info, id :
        /\ infos' = Append(infos, info) /\ info.connectionId = id
        /\ connectionIds' = IF id = Nobody THEN connectionIds
                            ELSE Put(connectionIds, id, Len(infos) + 1)
  <2>1. PICK guest, id :
          /\ infos' = Append(infos, ClientInfo(guest, id))
          /\ connectionIds' = IF id = Nobody THEN connectionIds
                              ELSE Put(connectionIds, id, Len(infos) + 1)
    BY DEF Connect
  <2>2. ClientInfo(guest, id).connectionId = id
    BY DEF ClientInfo
  <2> QED
    BY <2>1, <2>2
<1>2. IsSeq(infos) /\ Len(infos) \in Nat
  BY SeqDomain DEF Inv
<1>3. /\ Len(infos') = Len(infos) + 1
      /\ \A s \in Signatures : infos'[s] = infos[s]
      /\ infos'[Len(infos) + 1] = info
  BY <1>1, <1>2, SeqAppend DEF Signatures
<1>4. Signatures' = Signatures \union {Len(infos) + 1}
  BY <1>2, <1>3 DEF Signatures
<1>5. CASE id = Nobody
  <2>1. UNCHANGED connectionIds
    BY <1>1, <1>5
  <2> QED
    BY <1>3, <1>4, <2>1 DEF Indexed
<1>6. CASE id # Nobody
  <2>1. PICK n : n = Len(infos) + 1
    OBVIOUS
  <2>2. connectionIds' = Put(connectionIds, id, n)
    BY <1>1, <1>6, <2>1
  <2>3. /\ DOMAIN connectionIds' = DOMAIN connectionIds \union {id}
        /\ connectionIds'[id] = n
        /\ \A k \in DOMAIN connectionIds : k # id => connectionIds'[k] = connectionIds[k]
    BY <2>2 DEF Put
  <2>4. n \in Signatures' /\ infos'[n].connectionId = id
    BY <1>1, <1>3, <1>4, <2>1
  <2>5. ASSUME NEW k \in DOMAIN connectionIds, k # id
        PROVE  connectionIds'[k] \in Signatures' /\ infos'[connectionIds'[k]].connectionId = k
    <3>1. PICK c : c = connectionIds[k] /\ c \in Signatures /\ infos[c].connectionId = k
      BY DEF Indexed
    <3> QED
      BY <1>3, <1>4, <2>3, <2>5, <3>1
  <2> QED
    BY <2>3, <2>4, <2>5 DEF Indexed
<1> QED
  BY <1>5, <1>6

LEMMA LeaveIndexed ==
  ASSUME Indexed, NEW s, Leave(s)
  PROVE  Indexed'
<1>1. PICK ids : connectionIds' = Delete(connectionIds, ids)
  BY DEF Leave
<1>2. /\ DOMAIN connectionIds' \subseteq DOMAIN connectionIds
      /\ \A k \in DOMAIN connectionIds' : connectionIds'[k] = connectionIds[k]
  BY <1>1 DEF Delete, Restrict
<1>3. UNCHANGED infos
  BY DEF Leave
<1> QED
  BY <1>2, <1>3 DEF Indexed, Signatures

LEMMA HandleIndexed ==
  ASSUME Inv, Indexed, HandleMessage
  PROVE  Indexed'
<1>1. Len(infos') = Len(infos) /\ UNCHANGED connectionIds
  BY HandleStep, Zenon DEF TookMessage, HandleMessage
<1>2. ASSUME NEW c \in Signatures
      PROVE  infos'[c].connectionId = infos[c].connectionId
  <2>1. PICK s : s = Sender
    OBVIOUS
  <2>2. PICK data : data = Reassembled(infos[s].packetFragments, Head1.packet.payload)
    OBVIOUS
  <2>3. PICK job : job = JobOf(s, data, Handle(Call(s), data))
    OBVIOUS
  <2> QED
    BY <2>1, <2>2, <2>3, HandleFields
<1> QED
  BY <1>1, <1>2, IndexedStays, SMTT(30)

LEMMA FragmentIndexed ==
  ASSUME Inv, Indexed, HandleFragment
  PROVE  Indexed'
<1>1. PICK s \in Signatures : s = Sender
  BY DEF HandleFragment, Inv
<1>2. PICK e : infos' = [infos EXCEPT ![s] = [infos[s] EXCEPT !.packetFragments = e]]
  BY <1>1 DEF HandleFragment
<1>3. PICK other : other = [infos[s] EXCEPT !.packetFragments = e]
  OBVIOUS
<1>4. DOMAIN infos[s] = InfoFields
  BY DEF Inv, IsLogOf
<1>5. other.connectionId = infos[s].connectionId
  BY <1>3, <1>4 DEF InfoFields
<1>6. PICK q : q = infos
  OBVIOUS
<1>7. /\ Len([q EXCEPT ![s] = other]) = Len(q)
      /\ [q EXCEPT ![s] = other][s] = other
      /\ \A i \in 1 .. Len(q) : i # s => [q EXCEPT ![s] = other][i] = q[i]
  <2>1. IsSeq(q) /\ s \in 1 .. Len(q)
    BY <1>6 DEF Inv, Signatures
  <2> QED
    BY <2>1, SeqExcept
<1>8. /\ Len(infos') = Len(infos)
      /\ \A c \in Signatures : infos'[c].connectionId = infos[c].connectionId
  BY <1>2, <1>3, <1>5, <1>6, <1>7 DEF Signatures
<1> QED
  BY <1>8, IndexedStays DEF HandleFragment

LEMMA FinishIndexed ==
  ASSUME Inv, Indexed, NEW j \in DOMAIN jobs, Finish(j)
  PROVE  Indexed'
<1>1. PICK s \in Signatures : \E job : Ended(s, job, j)
  BY FinishStep
<1>2. PICK job : Ended(s, job, j)
  BY <1>1
<1>3. PICK info : info = infos[s] /\ DOMAIN info = InfoFields
  BY DEF Inv, IsLogOf
<1>4. PICK n, user : infos'[s] = [info EXCEPT !.serverSequenceId = n, !.userId = user]
  <2>1. PICK n : n = NextSequenceId(s, job)
    OBVIOUS
  <2>2. PICK user : user = LoginOf(s, job)
    OBVIOUS
  <2>3. infos'[s] = [infos[s] EXCEPT !.serverSequenceId = NextSequenceId(s, job),
                                     !.userId = LoginOf(s, job)]
    BY <1>2 DEF Ended
  <2>4. infos'[s] = [info EXCEPT !.serverSequenceId = n, !.userId = user]
    BY <1>3, <2>1, <2>2, <2>3
  <2> QED
    BY <2>4, Zenon
<1>5. infos'[s].connectionId = infos[s].connectionId
  BY <1>3, <1>4 DEF InfoFields
<1>6. \A c \in Signatures : infos'[c].connectionId = infos[c].connectionId
  BY <1>2, <1>5 DEF Ended
<1>7. Len(infos') = Len(infos) /\ UNCHANGED connectionIds
  BY <1>2 DEF Ended, Finish
<1> QED
  BY <1>6, <1>7, IndexedStays

LEMMA IndexedStep ==
  ASSUME Inv, Indexed, [Next]_vars
  PROVE  Indexed'
<1>1. CASE UNCHANGED <<infos, connectionIds>>
  BY <1>1 DEF Indexed, Signatures
<1>2. CASE Ignore \/ Send \/ UNCHANGED vars
  BY <1>1, <1>2, Zenon DEF Ignore, Send, vars, server
<1>3. CASE \E copy \in flight.copies : Repeat(copy) \/ Lose(copy) \/ Arrive(copy)
  BY <1>1, <1>3 DEF Repeat, Lose, Arrive, server
<1> QED
  BY <1>2, <1>3, ConnectIndexed, LeaveIndexed, HandleIndexed, FragmentIndexed, FinishIndexed
     DEF Next, Work

\* The calls of jobs with probes are asked in a way the codec keeps.
ProbesReadBack ==
  \A j \in DOMAIN jobs : jobs[j].probes # << >> => IsKept(CallOf(jobs[j]).value)

\* Where no probes are new.
LEMMA NoNewProbes ==
  ASSUME NEW s, IsSeq(probed[s]), probed'[s] = probed[s]
  PROVE  DOMAIN NewProbes(s) = {}
<1>1. PICK q : q = probed[s] /\ IsSeq(q)
  OBVIOUS
<1>2. PICK r : r = << >> /\ IsSeq(r)
  BY SeqEmpty
<1>3. q \o r = q
  BY <1>1, <1>2, EmptyConcat
<1>4. Rest(q, Len(q)) = r
  BY <1>1, <1>2, <1>3, SuffixIs
<1>5. NewProbes(s) = r
  BY <1>1, <1>4, Zenon DEF NewProbes, Rest
<1> QED
  BY <1>2, <1>5, EmptyDomain

\* The probes of a job: what their receivers read.
LEMMA ProbesAreRead ==
  ASSUME IsDispatched, NEW p, IsPlan(p), NEW job, HoldsCall(p, job), NEW asked,
         asked = p.calls[p.pieces[job.piece].call].value,
         job.probes # << >> => IsKept(asked), NEW n \in DOMAIN job.probes
  PROVE  /\ job.probes[n].connectionId \in job.call.connected
         /\ IsTargetOf(job.probes[n].connectionId, asked)
         /\ IsProbeFor(ParseRmcPacket(job.probes[n].data), asked)
<1>1. PICK probes : probes = job.probes
  OBVIOUS
<1>2. probes # << >>
  BY <1>1, EmptyDomain
<1>3. IsKept(asked)
  BY <1>1, <1>2
<1>4. job.answered
  BY <1>1, <1>2 DEF HoldsCall, ComesOf
<1>5. PICK k : k = p.pieces[job.piece].call
  OBVIOUS
<1>6. PICK outcome : outcome = OutcomeOf(p, k, job.call)
  OBVIOUS
<1>7. probes = outcome.probes
  BY <1>1, <1>4, <1>5, <1>6, JobIsServed DEF IsServed
<1>8. PICK at : at = job.call
  OBVIOUS
<1>9. probes = ProbesFor(asked, at)
  BY <1>2, <1>5, <1>6, <1>7, <1>8, ProbesOfOutcome, SMTT(30)
<1>10. IsSeq(asked.urlTargetList)
  BY <1>3, ZenonT(40) DEF IsKept
<1>11. n \in DOMAIN probes /\ AreProbesFor(probes, asked, at)
  BY <1>1, <1>9, <1>10, ZenonT(40) DEF AreProbesFor
<1>12. IsAskedFor(probes[n], asked, at)
  BY <1>11, ProbesAreForTargets, SMTT(30)
<1>13. IsProbeFor(ParseRmcPacket(probes[n].data), asked)
  BY <1>3, <1>12, ProbeIsRead, Zenon DEF IsAskedFor
<1> QED
  BY <1>1, <1>8, <1>12, <1>13, Zenon DEF IsAskedFor

LEMMA HandledProbesReach ==
  ASSUME IsDispatched, Inv, ProbesInv, Indexed, PlanInv', ProbesFit', ProbesReadBack',
         HandleMessage
  PROVE  ProbesReach
<1>1. PICK s \in Signatures : s = Sender
  BY Zenon DEF HandleMessage, Inv
<1>2. PICK data : data = Reassembled(infos[s].packetFragments, Head1.packet.payload)
  OBVIOUS
<1>3. PICK job : job = JobOf(s, data, Handle(Call(s), data))
  OBVIOUS
<1>4. PICK sent : sent = ProbePackets(job.probes)
  BY SMTT(30)
<1>5. /\ jobs' = Append(jobs, job) /\ UNCHANGED plan
      /\ probed' = [c \in Signatures |-> probed[c] \o sent[c]]
  BY <1>1, <1>2, <1>3, <1>4, Zenon DEF HandleMessage
<1>6. Len(jobs') \in DOMAIN jobs' /\ jobs'[Len(jobs')] = job
  <2>1. IsSeq(jobs) /\ Len(jobs) \in Nat
    BY SeqDomain DEF Inv
  <2>2. IsSeq(jobs') /\ Len(jobs') = Len(jobs) + 1 /\ jobs'[Len(jobs) + 1] = job
    BY <1>5, <2>1, SeqAppend
  <2> QED
    BY <2>1, <2>2, SeqDomain
<1>7. PICK asked : asked = CallOf(job).value
  OBVIOUS
<1>8. asked = plan.calls[plan.pieces[job.piece].call].value
  BY <1>7 DEF CallOf
<1>9. IsPlan(plan) /\ HoldsCall(plan, job)
  BY <1>5, <1>6, SMTT(30) DEF PlanInv, FlightInv, MessageInv
<1>10. job.probes # << >> => IsKept(asked)
  BY <1>5, <1>6, <1>8 DEF ProbesReadBack, CallOf
<1>11. IsSeq(job.probes) /\ \A n \in DOMAIN job.probes : FitsPacket(job.probes[n].data)
  BY <1>6 DEF ProbesFit
<1>12. AreSent(job.probes, sent)
  BY <1>4, <1>11, ProbesAreSent
<1>13. job.call.connected = Connected
  BY <1>3 DEF JobOf, Call
<1>14. ASSUME NEW c \in Signatures, NEW i \in DOMAIN NewProbes(c)
       PROVE  Reaches(NewProbes(c)[i], c)
  <2>1. PICK log : log = sent[c] /\ ArePacketsFor(job.probes, c, log)
    BY <1>12 DEF AreSent
  <2>2. IsSeq(log)
    BY <2>1 DEF ArePacketsFor
  <2>3. PICK old : old = probed[c] /\ IsSeq(old)
    BY DEF ProbesInv, AreProbesOf
  <2>4. NewProbes(c) = log
    <3>1. probed'[c] = old \o log
      BY <1>5, <2>1, <2>3
    <3>2. Rest(old \o log, Len(old)) = log
      BY <2>2, <2>3, SuffixIs
    <3> QED
      BY <2>3, <3>1, <3>2 DEF NewProbes, Rest
  <2>5. i \in 1 .. Len(log)
    BY <2>2, <2>4, SeqDomain
  <2>6. PICK n \in DOMAIN job.probes :
          /\ connectionIds[job.probes[n].connectionId] = c
          /\ log[i] = ProbePacket(c, job.probes[n].data, i)
    BY <2>1, <2>5 DEF ArePacketsFor
  <2>7. PICK id : id = job.probes[n].connectionId
    OBVIOUS
  <2>8. PICK content : content = job.probes[n].data /\ FitsPacket(content)
    BY <1>11
  <2>9. /\ id \in Connected
        /\ IsTargetOf(id, asked)
        /\ IsProbeFor(ParseRmcPacket(content), asked)
    BY <1>8, <1>9, <1>10, <1>13, <2>7, <2>8, ProbesAreRead
  <2>10. c \in clients /\ infos[c].connectionId = id
    BY <2>6, <2>7, <2>9 DEF Connected, Indexed
  <2>11. PICK probe : probe = log[i] /\ probe = ProbePacket(c, content, i)
    BY <2>6, <2>8
  <2>12. probe.to = infos[c].address /\ probe.payload = content
    BY <2>11 DEF ProbePacket
  <2>13. Received(probe).payload = content
    <3>1. IsServerPacket(probe)
      BY <2>8, <2>11, ProbeIsServerPacket
    <3> QED
      BY <2>12, <3>1, ReceivedPacket
  <2>14. IsProbe(ParseRmcPacket(content), id, asked)
    BY <2>9 DEF IsProbe, IsProbeFor, IsTargetOf
  <2>15. Reaches(probe, c)
    BY <1>6, <1>7, <2>10, <2>12, <2>13, <2>14 DEF Reaches
  <2> QED
    BY <2>4, <2>11, <2>15
<1> QED
  BY <1>14, SMTT(30) DEF ProbesReach

\* Other steps send no probes.
LEMMA NothingReaches ==
  ASSUME ProbesInv, \A s \in Signatures : probed'[s] = probed[s]
  PROVE  ProbesReach
<1>1. ASSUME NEW s \in Signatures
      PROVE  DOMAIN NewProbes(s) = {}
  BY NoNewProbes DEF ProbesInv, AreProbesOf
<1> QED
  BY <1>1 DEF ProbesReach

LEMMA ConnectReaches ==
  ASSUME Inv, ProbesInv, Connect
  PROVE  ProbesReach
<1>1. probed' = Append(probed, << >>)
  BY DEF Connect
<1>2. IsSeq(infos) /\ Len(infos) \in Nat /\ IsSeq(probed) /\ Len(probed) = Len(infos)
  BY SeqDomain DEF Inv, ProbesInv
<1>3. \A s \in Signatures : probed'[s] = probed[s]
  BY <1>1, <1>2, SeqAppend DEF Signatures
<1> QED
  BY <1>3, NothingReaches

ReachInv == SentInv /\ (AnswersAreMessages => Indexed)

LEMMA InitReach == Init => ReachInv
<1>1. Init => connectionIds = EmptyMap
  BY DEF Init
<1>2. connectionIds = EmptyMap => Indexed
  BY DEF Indexed, EmptyMap
<1>3. Init => SentInv
  BY InitExchange, InitPlan DEF SentInv
<1> QED
  BY <1>1, <1>2, <1>3 DEF ReachInv

LEMMA NextReach ==
  ASSUME ReachInv, [Next]_vars
  PROVE  ReachInv'
<1>1. SentInv'
  BY NextSent DEF ReachInv
<1>2. ASSUME AnswersAreMessages' PROVE Indexed'
  <2>1. JobsInv
    BY DEF ReachInv, SentInv, ExchangeInv
  <2>2. AnswersAreMessages
    BY <1>2, <2>1, SupposedBefore
  <2>3. Inv /\ Indexed
    BY <2>2 DEF ReachInv, SentInv, ExchangeInv
  <2> QED
    BY <2>3, IndexedStep
<1> QED
  BY <1>1, <1>2 DEF ReachInv

ProbesSupposed == AnswersAreMessages /\ ProbesFit /\ ProbesReadBack

LEMMA StepReaches ==
  ASSUME IsDispatched, ReachInv, ProbesSupposed', [Next]_vars
  PROVE  [ProbesReach]_vars
<1>1. SentInv /\ SentInv'
  BY NextSent DEF ReachInv
<1>2. AnswersAreMessages /\ ProbesFit
  <2>1. JobsInv
    BY <1>1 DEF SentInv, ExchangeInv
  <2> QED
    BY <2>1, SupposedBefore DEF ProbesSupposed
<1>3. Inv /\ ProbesInv /\ Indexed /\ PlanInv'
  BY <1>1, <1>2 DEF ReachInv, SentInv, ExchangeInv, ProbesSupposed
<1>4. CASE UNCHANGED vars
  BY <1>4
<1>5. CASE HandleMessage
  BY <1>3, <1>5, HandledProbesReach DEF ProbesSupposed
<1>6. CASE Connect
  BY <1>3, <1>6, ConnectReaches
<1>7. CASE UNCHANGED probed
  BY <1>3, <1>7, NothingReaches
<1>8. CASE Ignore \/ HandleFragment \/ Send
  BY <1>7, <1>8, Zenon DEF Ignore, HandleFragment, Send, logs
<1>9. CASE \E j \in DOMAIN jobs : Finish(j)
  BY <1>7, <1>9 DEF Finish
<1>10. CASE \E s \in Signatures : Leave(s)
  BY <1>7, <1>10 DEF Leave, logs
<1>11. CASE \E copy \in flight.copies : Repeat(copy) \/ Lose(copy) \/ Arrive(copy)
  BY <1>7, <1>11 DEF Repeat, Lose, Arrive, logs
<1> QED
  BY <1>4, <1>5, <1>6, <1>8, <1>9, <1>10, <1>11 DEF Next, Work

\* A probe that leaves goes to a client that is connected at that moment, and was named
\* as a target by the call that had it sent; it asks to probe the station of that call.
THEOREM ProbesGoToTargets ==
  ASSUME IsDispatched
  PROVE  Spec => ([](AnswersAreMessages /\ ProbesFit /\ ProbesReadBack)
                    => ProbesReachTheConnected)
<1>1. ReachInv /\ [Next]_vars => ReachInv'
  BY NextReach
<1>2. ReachInv /\ [Next]_vars /\ ProbesSupposed' => [ProbesReach]_vars
  BY StepReaches
<1>3. AnswersAreMessages /\ ProbesFit /\ ProbesReadBack <=> ProbesSupposed
  BY DEF ProbesSupposed
<1> QED
  BY <1>1, <1>2, <1>3, InitReach, PTL DEF Spec, ProbesReachTheConnected

-----------------------------------------------------------------------------
(***************************************************************************)
(* Tickets: what is encrypted with a key is decrypted with it, and what is *)
(* written is read.                                                        *)
(***************************************************************************)
Lacks(q, field) == \A i \in 1 .. Len(q) : field \notin DOMAIN q[i]

IsClear(cell) == "rc4" \notin DOMAIN cell
AreClear(q) == \A i \in 1 .. Len(q) : IsClear(q[i])

LEMMA ConcatLacks ==
  ASSUME NEW field, NEW q, IsSeq(q), Lacks(q, field), NEW r, IsSeq(r), Lacks(r, field)
  PROVE  IsSeq(q \o r) /\ Lacks(q \o r, field)
<1>1. PICK l \in Nat : l = Len(q)
  BY SeqDomain
<1>2. PICK m \in Nat : m = Len(r)
  BY SeqDomain
<1>3. PICK w : w = q \o r
  OBVIOUS
<1>4. /\ IsSeq(w) /\ Len(w) = l + m
      /\ \A i \in 1 .. l + m : w[i] = IF i <= l THEN q[i] ELSE r[i - l]
  BY <1>1, <1>2, <1>3, SeqConcat
<1>5. ASSUME NEW i \in 1 .. l + m PROVE field \notin DOMAIN w[i]
  <2>1. CASE i <= l
    <3>1. i \in 1 .. l /\ w[i] = q[i]
      BY <1>4, <2>1
    <3> QED
      BY <1>1, <3>1 DEF Lacks
  <2>2. CASE ~(i <= l)
    <3>1. i - l \in 1 .. m /\ w[i] = r[i - l]
      BY <1>4, <2>2
    <3> QED
      BY <1>2, <3>1 DEF Lacks
  <2> QED
    BY <2>1, <2>2
<1> QED
  BY <1>3, <1>4, <1>5 DEF Lacks

\* Only numbers are written besides the data.
LEMMA BufferLacks ==
  ASSUME NEW field, field # "w", field # "n", NEW data, IsSeq(data), Lacks(data, field)
  PROVE  IsSeq(WriteBuffer(4, data)) /\ Lacks(WriteBuffer(4, data), field)
<1>1. PICK size : size = Number(4, Len(data))
  OBVIOUS
<1>2. field \notin DOMAIN size
  BY <1>1 DEF Number
<1>3. PICK one : one = <<size>> /\ IsSeq(one) /\ Len(one) = 1 /\ one[1] = size
  BY SeqSingle
<1>4. Lacks(one, field)
  BY <1>2, <1>3 DEF Lacks
<1>5. WriteBuffer(4, data) = one \o data
  BY <1>1, <1>3 DEF WriteBuffer
<1> QED
  BY <1>3, <1>4, <1>5, ConcatLacks

LEMMA ClearLacks ==
  ASSUME NEW q
  PROVE  AreClear(q) <=> Lacks(q, "rc4")
BY DEF AreClear, IsClear, Lacks

LEMMA CellIsDecrypted ==
  ASSUME NEW key, NEW cell, IsClear(cell)
  PROVE  CryptCellWith(key, CryptCellWith(key, cell)) = cell
<1>1. PICK x : x = [rc4 |-> <<key, cell>>]
  OBVIOUS
<1>2. "rc4" \in DOMAIN x /\ x.rc4[1] = key /\ x.rc4[2] = cell
  BY <1>1
<1>3. CryptCellWith(key, cell) = x
  BY <1>1 DEF CryptCellWith, IsClear
<1>4. CryptCellWith(key, x) = cell
  BY <1>2 DEF CryptCellWith
<1> QED
  BY <1>3, <1>4

LEMMA CryptIs ==
  ASSUME NEW key, NEW q, IsSeq(q)
  PROVE  /\ IsSeq(CryptWith(key, q)) /\ Len(CryptWith(key, q)) = Len(q)
         /\ \A i \in 1 .. Len(q) : CryptWith(key, q)[i] = CryptCellWith(key, q[i])
<1>1. PICK n \in Nat : n = Len(q) /\ DOMAIN q = 1 .. n
  BY SeqDomain
<1>2. PICK f : f = CryptWith(key, q)
  OBVIOUS
<1>3. DOMAIN f = 1 .. n /\ f = [i \in 1 .. n |-> f[i]]
  BY <1>1, <1>2 DEF CryptWith
<1>4. IsSeq(f) /\ Len(f) = n
  BY <1>3, SeqFunction
<1>5. \A i \in 1 .. n : f[i] = CryptCellWith(key, q[i])
  BY <1>1, <1>2 DEF CryptWith
<1> QED
  BY <1>1, <1>2, <1>4, <1>5

LEMMA DataIsDecrypted ==
  ASSUME NEW key, NEW q, IsSeq(q), AreClear(q)
  PROVE  CryptWith(key, CryptWith(key, q)) = q
<1>1. PICK c : c = CryptWith(key, q) /\ IsSeq(c) /\ Len(c) = Len(q)
        /\ \A i \in 1 .. Len(q) : c[i] = CryptCellWith(key, q[i])
  BY CryptIs
<1>2. PICK d : d = CryptWith(key, c) /\ IsSeq(d) /\ Len(d) = Len(q)
        /\ \A i \in 1 .. Len(q) : d[i] = CryptCellWith(key, c[i])
  BY <1>1, CryptIs
<1>3. ASSUME NEW i \in 1 .. Len(q)
      PROVE  d[i] = q[i]
  <2>1. PICK cell : cell = q[i] /\ IsClear(cell)
    BY DEF AreClear
  <2>2. d[i] = CryptCellWith(key, CryptCellWith(key, cell))
    BY <1>1, <1>2, <2>1
  <2> QED
    BY <2>1, <2>2, CellIsDecrypted
<1>4. d = q
  BY <1>2, <1>3, SeqExtensional
<1> QED
  BY <1>1, <1>2, <1>4

\* Data of a few cells.
Two(a, b) == <<a, b>>

IsTwo(q, a, b) == IsSeq(q) /\ Len(q) = 2 /\ q[1] = a /\ q[2] = b

LEMMA TwoIs ==
  ASSUME NEW a, NEW b
  PROVE  IsTwo(Two(a, b), a, b)
<1>1. Two(a, b) \in Seq({a, b})
  BY DEF Two
<1>2. Len(Two(a, b)) = 2 /\ Two(a, b)[1] = a /\ Two(a, b)[2] = b
  BY DEF Two
<1> QED
  BY <1>1, <1>2 DEF IsSeq, IsTwo

\* Data with its length before it, and what follows.
Boxed(data, q) == WriteBuffer(4, data) \o q

LEMMA BufferIsRead ==
  ASSUME NEW data, IsSeq(data), NEW q, IsSeq(q)
  PROVE  /\ IsSeq(Boxed(data, q)) /\ Len(Boxed(data, q)) = Len(data) + 1 + Len(q)
         /\ ReadBuffer(4, Boxed(data, q)) = Got(data, q)
<1>1. PICK l \in Nat : l = Len(data)
  BY SeqDomain
<1>2. PICK m \in Nat : m = Len(q)
  BY SeqDomain
<1>3. PICK whole : whole = data \o q
  OBVIOUS
<1>4. /\ IsSeq(whole) /\ Len(whole) = l + m
      /\ \A i \in 1 .. l + m : whole[i] = IF i <= l THEN data[i] ELSE q[i - l]
  BY <1>1, <1>2, <1>3, SeqConcat
<1>5. PICK n : n = Number(4, l)
  OBVIOUS
<1>6. Boxed(data, q) = <<n>> \o whole
  <2>1. PICK one : one = <<n>> /\ IsSeq(one)
    BY SeqSingle
  <2>2. (one \o data) \o q = one \o (data \o q)
    BY <2>1, ConcatIsAssociative
  <2> QED
    BY <1>1, <1>3, <1>5, <2>1, <2>2 DEF Boxed, WriteBuffer
<1>7. /\ IsSeq(<<n>> \o whole) /\ Len(<<n>> \o whole) = l + m + 1
      /\ ReadNumber(4, <<n>> \o whole) = Got(l, whole)
  BY <1>4, <1>5, NumberIsRead
<1>8. SubSeq(whole, 1, l) = data
  <2>1. l \in 0 .. Len(whole)
    BY <1>2, <1>4
  <2>2. \A i \in 1 .. l : data[i] = whole[i]
    BY <1>2, <1>4
  <2> QED
    BY <1>1, <1>4, <2>1, <2>2, PrefixIs
<1>9. SubSeq(whole, l + 1, Len(whole)) = q
  BY <1>1, <1>3, SuffixIs DEF Rest
<1>10. Take(l, whole) = Got(data, q)
  <2>1. ~(l > Len(whole))
    BY <1>1, <1>2, <1>4
  <2> QED
    BY <1>8, <1>9, <2>1 DEF Take
<1>11. PICK box : box = Boxed(data, q) /\ ReadNumber(4, box) = Got(l, whole)
  BY <1>6, <1>7
<1>12. ReadBuffer(4, box) = Got(data, q)
  BY <1>10, <1>11, GotIs DEF ReadBuffer, Then
<1> QED
  BY <1>1, <1>2, <1>6, <1>7, <1>11, <1>12

LEMMA LastBufferIsRead ==
  ASSUME NEW data, IsSeq(data)
  PROVE  /\ IsSeq(WriteBuffer(4, data)) /\ Len(WriteBuffer(4, data)) = Len(data) + 1
         /\ ReadBuffer(4, WriteBuffer(4, data)) = Got(data, << >>)
<1>1. PICK q : q = << >> /\ IsSeq(q) /\ Len(q) = 0
  BY SeqEmpty
<1>2. PICK w : w = WriteBuffer(4, data)
  OBVIOUS
<1>3. IsSeq(w)
  <2>1. PICK n : n = Number(4, Len(data))
    OBVIOUS
  <2>2. IsSeq(<<n>>)
    BY SeqSingle
  <2> QED
    BY <1>2, <2>1, <2>2, SeqConcat DEF WriteBuffer
<1>4. Boxed(data, q) = w
  <2>1. w \o << >> = w
    BY <1>3, EmptyConcat
  <2> QED
    BY <1>1, <1>2, <2>1 DEF Boxed
<1>5. /\ IsSeq(Boxed(data, q)) /\ Len(Boxed(data, q)) = Len(data) + 1 + Len(q)
      /\ ReadBuffer(4, Boxed(data, q)) = Got(data, q)
  BY <1>1, BufferIsRead
<1>6. Len(data) \in Nat
  BY SeqDomain
<1> QED
  BY <1>1, <1>2, <1>4, <1>5, <1>6

\* The parts of a ticket, as the authentication service makes them.
Internal(user) ==
  [principleId |-> user, validUntil |-> VALID_FOREVER, sessionKey |-> RandomKey(user)]

Sealed(user, ticketKey) == SealTicketInternal(Internal(user), ticketKey)

PlainTicket(user, service, ticketKey) ==
  Two(RandomKey(user), Number(4, service)) \o WriteBuffer(4, Sealed(user, ticketKey))

Encrypted(user, service, password, ticketKey) ==
  CryptWith(DeriveKey(user, password), PlainTicket(user, service, ticketKey))

\* What its client finds in it.
Opened(user, service, ticketKey) ==
  [sessionKey |-> RandomKey(user), pid |-> service, sealedInternal |-> Sealed(user, ticketKey)]

LEMMA OpenedIs ==
  ASSUME NEW user, NEW service, NEW ticketKey
  PROVE  /\ Opened(user, service, ticketKey).sessionKey = RandomKey(user)
         /\ Opened(user, service, ticketKey).sealedInternal = Sealed(user, ticketKey)
BY DEF Opened

LEMMA SealedIs ==
  ASSUME NEW user, NEW ticketKey
  PROVE  /\ IsSeq(Sealed(user, ticketKey)) /\ Len(Sealed(user, ticketKey)) = 2
         /\ AreClear(Sealed(user, ticketKey)) /\ Lacks(Sealed(user, ticketKey), "crypt")
         /\ "boxed" \in DOMAIN Sealed(user, ticketKey)[2]
         /\ Sealed(user, ticketKey)[2].boxed = InternalCells(Internal(user))
         /\ Sealed(user, ticketKey)[2].key = ticketKey
<1>1. PICK a : a = [nonce |-> RandomKey(user)]
  OBVIOUS
<1>2. PICK cells : cells = InternalCells(Internal(user))
  OBVIOUS
<1>3. PICK b : b = [boxed |-> cells, key |-> ticketKey]
  OBVIOUS
<1>4. "boxed" \in DOMAIN b /\ b.boxed = cells /\ b.key = ticketKey
  BY <1>3
<1>5. Internal(user).sessionKey = RandomKey(user)
  BY DEF Internal
<1>6. PICK q : q = Sealed(user, ticketKey) /\ q = Two(a, b)
  BY <1>1, <1>2, <1>3, <1>5 DEF Sealed, SealTicketInternal, Two
<1>7. IsClear(a) /\ IsClear(b) /\ "crypt" \notin DOMAIN a /\ "crypt" \notin DOMAIN b
  BY <1>1, <1>3 DEF IsClear
<1>8. IsSeq(q) /\ Len(q) = 2 /\ q[1] = a /\ q[2] = b
  <2>1. IsTwo(q, a, b)
    BY <1>6, TwoIs
  <2> QED
    BY <2>1 DEF IsTwo
<1>9. AreClear(q) /\ Lacks(q, "crypt")
  BY <1>7, <1>8 DEF AreClear, Lacks
<1> QED
  BY <1>2, <1>4, <1>6, <1>8, <1>9

LEMMA ConcatIsClear ==
  ASSUME NEW q, IsSeq(q), AreClear(q), NEW r, IsSeq(r), AreClear(r)
  PROVE  IsSeq(q \o r) /\ AreClear(q \o r)
BY ConcatLacks, ClearLacks

LEMMA NumberIsClear ==
  ASSUME NEW w, NEW n
  PROVE  IsClear(Number(w, n))
BY DEF IsClear, Number

LEMMA PlainTicketIs ==
  ASSUME NEW user, NEW service, NEW ticketKey
  PROVE  /\ IsSeq(PlainTicket(user, service, ticketKey))
         /\ AreClear(PlainTicket(user, service, ticketKey))
         /\ ReadTicket(PlainTicket(user, service, ticketKey))
              = Got(Opened(user, service, ticketKey), << >>)
<1>1. PICK sealed : /\ sealed = Sealed(user, ticketKey)
                    /\ IsSeq(sealed) /\ AreClear(sealed)
  BY SealedIs
<1>2. PICK k : k = RandomKey(user)
  OBVIOUS
<1>3. PICK n : n = Number(4, service)
  OBVIOUS
<1>4. PICK box : box = WriteBuffer(4, sealed)
  OBVIOUS
<1>5. IsSeq(box) /\ ReadBuffer(4, box) = Got(sealed, << >>)
  BY <1>1, <1>4, LastBufferIsRead
<1>6. IsClear(k) /\ "sessionKey" \in DOMAIN k
  BY <1>2 DEF IsClear, RandomKey
<1>7. IsClear(n)
  BY <1>3, NumberIsClear
<1>8. PICK two : two = Two(k, n)
  OBVIOUS
<1>9. IsSeq(two) /\ AreClear(two) /\ two = <<k>> \o <<n>>
  <2>1. IsTwo(two, k, n)
    BY <1>8, TwoIs
  <2>2. two = <<k>> \o <<n>>
    BY <1>8, PairIsConcat DEF Two
  <2> QED
    BY <1>6, <1>7, <2>1, <2>2 DEF IsTwo, AreClear
<1>10. AreClear(box)
  <2>1. Lacks(sealed, "rc4")
    BY <1>1, ClearLacks
  <2>2. PICK field : field = "rc4" /\ field # "w" /\ field # "n"
    OBVIOUS
  <2>3. Lacks(box, field)
    BY <1>1, <1>4, <2>1, <2>2, BufferLacks
  <2> QED
    BY <2>2, <2>3, ClearLacks
<1>11. PICK plain : plain = PlainTicket(user, service, ticketKey) /\ plain = two \o box
  BY <1>1, <1>2, <1>3, <1>4, <1>8 DEF PlainTicket
<1>12. IsSeq(plain) /\ AreClear(plain)
  BY <1>5, <1>9, <1>10, <1>11, ConcatIsClear
<1>13. PICK after : after = <<n>> \o box
  OBVIOUS
<1>14. IsSeq(after) /\ ReadNumber(4, after) = Got(service, box)
  BY <1>3, <1>5, <1>13, NumberIsRead
<1>15. plain = <<k>> \o after
  <2>1. PICK a : a = <<k>> /\ IsSeq(a)
    BY SeqSingle
  <2>2. PICK b : b = <<n>> /\ IsSeq(b)
    BY SeqSingle
  <2>3. (a \o b) \o box = a \o (b \o box)
    BY <1>5, <2>1, <2>2, ConcatIsAssociative
  <2> QED
    BY <1>9, <1>11, <1>13, <2>1, <2>2, <2>3
<1>16. plain # << >> /\ plain[1] = k /\ Tail(plain) = after
  BY <1>14, <1>15, SeqCons
<1>17. PICK opened : opened = Opened(user, service, ticketKey)
  OBVIOUS
<1>18. opened = [sessionKey |-> k, pid |-> service, sealedInternal |-> sealed]
  BY <1>1, <1>2, <1>17 DEF Opened
<1>19. PICK number : number = ReadNumber(4, Tail(plain))
  OBVIOUS
<1>20. number.ok /\ number.value = service /\ number.rest = box
  <2>1. Tail(plain) = after
    BY <1>14, <1>15, SeqCons
  <2>2. number = Got(service, box)
    BY <1>14, <1>19, <2>1
  <2> QED
    BY <2>2, GotIs
<1>21. PICK buffer : buffer = ReadBuffer(4, number.rest)
  OBVIOUS
<1>22. buffer.ok /\ buffer.value = sealed /\ buffer.rest = << >>
  BY <1>5, <1>20, <1>21, GotIs
<1>23. PICK first : first = plain[1]
  OBVIOUS
<1>24. ReadTicket(plain) = Got([sessionKey |-> first, pid |-> number.value,
                                sealedInternal |-> buffer.value], buffer.rest)
  BY <1>6, <1>16, <1>19, <1>20, <1>21, <1>22, <1>23 DEF ReadTicket, Then
<1>25. first = k
  BY <1>16, <1>23
<1>26. ReadTicket(plain) = Got(opened, << >>)
  BY <1>18, <1>20, <1>22, <1>24, <1>25
<1> QED
  BY <1>11, <1>12, <1>17, <1>26

LEMMA MacIs ==
  ASSUME NEW key, NEW other, NEW cells, Mac(key, cells) = Mac(other, cells)
  PROVE  key = other
<1>1. Mac(key, cells).mac[1] = key /\ Mac(other, cells).mac[1] = other
  BY DEF Mac
<1> QED
  BY <1>1

\* With the key it was encrypted with, and with no other, a ticket can be opened.
LEMMA TicketIsOpened ==
  ASSUME NEW call, NEW user, NEW service, NEW password, NEW other,
         NEW data, data = Ticket(call, user, service, password)
  PROVE  IF DeriveKey(user, other) = DeriveKey(user, password)
         THEN DecodeKerberosTicket(data, user, other)
                = Got(Opened(user, service, call.world.ticketKey), << >>)
         ELSE DecodeKerberosTicket(data, user, other) = Missing
<1>1. PICK ticketKey : ticketKey = call.world.ticketKey
  OBVIOUS
<1>2. PICK key : key = DeriveKey(user, password)
  OBVIOUS
<1>3. PICK plain : plain = PlainTicket(user, service, ticketKey)
  OBVIOUS
<1>4. /\ IsSeq(plain) /\ AreClear(plain)
      /\ ReadTicket(plain) = Got(Opened(user, service, ticketKey), << >>)
  BY <1>3, PlainTicketIs
<1>5. PICK c : c = CryptWith(key, plain) /\ IsSeq(c)
  BY <1>4, CryptIs
<1>6. data = Append(c, Mac(key, c))
  <2>1. PICK ticket : ticket = [sessionKey |-> RandomKey(user), pid |-> service,
                                internal |-> Internal(user)]
    OBVIOUS
  <2>2. /\ ticket.sessionKey = RandomKey(user) /\ ticket.pid = service
        /\ ticket.internal = Internal(user)
    BY <2>1
  <2>3. data = EncodeKerberosTicket(ticket, user, password, ticketKey)
    BY <1>1, <2>1 DEF Ticket, Internal
  <2>4. plain = <<ticket.sessionKey, Number(4, ticket.pid)>>
                  \o WriteBuffer(4, SealTicketInternal(ticket.internal, ticketKey))
    BY <1>3, <2>2 DEF PlainTicket, Sealed, Two
  <2> QED
    BY <1>2, <1>5, <2>3, <2>4 DEF EncodeKerberosTicket, Peer
<1>7. PICK mac : mac = Mac(key, c)
  OBVIOUS
<1>8. Last(data) = mac /\ Front(data) = c /\ data # << >>
  <2>1. /\ IsSeq(data) /\ Len(data) = Len(c) + 1 /\ data[Len(c) + 1] = mac
        /\ \A i \in 1 .. Len(c) : data[i] = c[i]
    BY <1>5, <1>6, <1>7, SeqAppend
  <2>2. PICK n \in Nat : n = Len(c)
    BY <1>5, SeqDomain
  <2>3. data # << >>
    BY <2>1, <2>2, SeqEmpty
  <2>4. Last(data) = mac
    BY <2>1 DEF Last
  <2>5. Front(data) = SubSeq(data, 1, n)
    BY <2>1, <2>2 DEF Front
  <2>6. SubSeq(data, 1, n) = c
    <3>1. n \in 0 .. Len(data)
      BY <2>1, <2>2
    <3>2. \A i \in 1 .. n : c[i] = data[i]
      BY <2>1, <2>2
    <3> QED
      BY <1>5, <2>1, <2>2, <3>1, <3>2, PrefixIs
  <2> QED
    BY <2>3, <2>4, <2>5, <2>6
<1>9. CryptWith(key, c) = plain
  BY <1>4, <1>5, DataIsDecrypted
<1>10. PICK wrong : wrong = DeriveKey(user, other)
  OBVIOUS
<1>11. CASE wrong = key
  <2>1. DecodeKerberosTicket(data, user, other) = ReadTicket(plain)
    BY <1>7, <1>8, <1>9, <1>10, <1>11 DEF DecodeKerberosTicket
  <2> QED
    BY <1>1, <1>2, <1>4, <1>10, <1>11, <2>1
<1>12. CASE wrong # key
  <2>1. Mac(wrong, c) # mac
    BY <1>7, <1>12, MacIs
  <2>2. DecodeKerberosTicket(data, user, other) = Missing
    BY <1>8, <1>10, <2>1 DEF DecodeKerberosTicket
  <2> QED
    BY <1>2, <1>10, <1>12, <2>2
<1> QED
  BY <1>11, <1>12

\* What a client connects with: who it is and a challenge, encrypted.
LEMMA ConnectDataIs ==
  ASSUME NEW user, NEW challenge
  PROVE  /\ IsSeq(ConnectData(user, challenge)) /\ AreClear(ConnectData(user, challenge))
         /\ ReadConnectData(ConnectData(user, challenge)).ok
         /\ ReadConnectData(ConnectData(user, challenge)).value.challenge = challenge
<1>1. PICK a : a = Number(4, user) /\ IsClear(a)
  BY NumberIsClear
<1>2. PICK b : b = Number(4, 1) /\ IsClear(b)
  BY NumberIsClear
<1>3. PICK c : c = Number(4, challenge) /\ IsClear(c)
  BY NumberIsClear
<1>4. PICK data : data = ConnectData(user, challenge) /\ data = <<a, b, c>>
  BY <1>1, <1>2, <1>3 DEF ConnectData
<1>5. IsSeq(data) /\ AreClear(data)
  <2>1. DOMAIN data = 1 .. 3 /\ data = [i \in 1 .. 3 |-> data[i]]
    BY <1>4
  <2>2. IsSeq(data) /\ Len(data) = 3
    BY <2>1, SeqFunction
  <2>3. data[1] = a /\ data[2] = b /\ data[3] = c
    BY <1>4
  <2>4. \A i \in 1 .. 3 : i = 1 \/ i = 2 \/ i = 3
    OBVIOUS
  <2> QED
    BY <1>1, <1>2, <1>3, <2>2, <2>3, <2>4 DEF AreClear
<1>6. PICK e : e = << >> /\ IsSeq(e)
  BY SeqEmpty
<1>7. PICK third : third = <<c>> \o e /\ IsSeq(third) /\ ReadNumber(4, third) = Got(challenge, e)
  <2>1. PICK third : third = <<c>> \o e
    OBVIOUS
  <2>2. IsSeq(third) /\ ReadNumber(4, third) = Got(challenge, e)
    BY <1>3, <1>6, <2>1, NumberIsRead
  <2> QED
    BY <2>1, <2>2
<1>8. PICK second : second = <<b>> \o third /\ IsSeq(second) /\ ReadNumber(4, second) = Got(1, third)
  <2>1. PICK second : second = <<b>> \o third
    OBVIOUS
  <2>2. IsSeq(second) /\ ReadNumber(4, second) = Got(1, third)
    BY <1>2, <1>7, <2>1, NumberIsRead
  <2> QED
    BY <2>1, <2>2
<1>9. ReadNumber(4, <<a>> \o second) = Got(user, second)
  BY <1>1, <1>8, NumberIsRead
<1>10. data = <<a>> \o second
  <2>1. TripleThen(a, b, c, e)
    BY <1>6, TripleIsRead
  <2>2. Triple(a, b, c) = data
    BY <1>4 DEF Triple
  <2>3. data \o e = <<a>> \o (<<b>> \o (<<c>> \o e))
    BY <2>1, <2>2 DEF TripleThen
  <2>4. data \o e = data
    BY <1>5, <1>6, EmptyConcat
  <2> QED
    BY <1>7, <1>8, <2>3, <2>4
<1>11. PICK x : x = ReadNumber(4, data)
  OBVIOUS
<1>12. x.ok /\ x.value = user /\ x.rest = second
  BY <1>9, <1>10, <1>11, GotIs
<1>13. PICK y : y = ReadNumber(4, x.rest)
  OBVIOUS
<1>14. y.ok /\ y.value = 1 /\ y.rest = third
  BY <1>8, <1>12, <1>13, GotIs
<1>15. PICK z : z = ReadNumber(4, y.rest)
  OBVIOUS
<1>16. z.ok /\ z.value = challenge /\ z.rest = e
  BY <1>7, <1>14, <1>15, GotIs
<1>17. PICK read : read = [userPid |-> x.value, connectionId |-> y.value, challenge |-> z.value]
  OBVIOUS
<1>18. ReadConnectData(data) = Got(read, z.rest)
  BY <1>11, <1>12, <1>13, <1>14, <1>15, <1>16, <1>17 DEF ReadConnectData, Then
<1>19. read.challenge = challenge
  BY <1>16, <1>17
<1>20. PICK got : got = ReadConnectData(data) /\ got.ok /\ got.value = read
  BY <1>18, GotIs
<1> QED
  BY <1>4, <1>5, <1>19, <1>20

\* A client's own part, and the whole, which reaches the service as it is.
Claim(user, challenge) ==
  CryptWith(RandomKey(user), ConnectData(user, challenge))

Knock(user, ticketKey, challenge) ==
  Boxed(Sealed(user, ticketKey), WriteBuffer(4, Claim(user, challenge)))

LEMMA ClaimIs ==
  ASSUME NEW user, NEW challenge
  PROVE  /\ IsSeq(Claim(user, challenge)) /\ Lacks(Claim(user, challenge), "crypt")
         /\ Claim(user, challenge) # << >>
         /\ CryptWith(RandomKey(user), Claim(user, challenge)) = ConnectData(user, challenge)
<1>1. PICK key : key = RandomKey(user)
  OBVIOUS
<1>2. PICK data : /\ data = ConnectData(user, challenge) /\ IsSeq(data) /\ AreClear(data)
                  /\ ReadConnectData(data).ok
  BY ConnectDataIs
<1>3. PICK c : /\ c = Claim(user, challenge)
               /\ c = CryptWith(key, data) /\ IsSeq(c) /\ Len(c) = Len(data)
               /\ \A i \in 1 .. Len(data) : c[i] = CryptCellWith(key, data[i])
  BY <1>1, <1>2, CryptIs DEF Claim
<1>4. CryptWith(key, c) = data
  BY <1>2, <1>3, DataIsDecrypted
<1>5. ASSUME NEW i \in 1 .. Len(data) PROVE "crypt" \notin DOMAIN c[i]
  <2>1. PICK cell : cell = data[i] /\ IsClear(cell)
    BY <1>2 DEF AreClear
  <2>2. PICK x : x = [rc4 |-> <<key, cell>>]
    OBVIOUS
  <2>3. CryptCellWith(key, cell) = x
    BY <2>1, <2>2 DEF CryptCellWith, IsClear
  <2>4. "crypt" \notin DOMAIN x
    BY <2>2
  <2> QED
    BY <1>3, <2>1, <2>3, <2>4
<1>6. Lacks(c, "crypt")
  BY <1>3, <1>5 DEF Lacks
<1>7. c # << >>
  <2>1. PICK n : n = Number(4, user)
    OBVIOUS
  <2>2. PICK m, l : data = <<n, m, l>>
    BY <1>2, <2>1 DEF ConnectData
  <2>3. Len(data) = 3
    BY <2>2
  <2> QED
    BY <1>3, <2>3, SeqEmpty
<1> QED
  BY <1>1, <1>2, <1>3, <1>4, <1>6, <1>7

LEMMA KnockIs ==
  ASSUME NEW user, NEW service, NEW ticketKey, NEW challenge
  PROVE  /\ ConnectPayload(Opened(user, service, ticketKey), user, challenge)
              = Knock(user, ticketKey, challenge)
         /\ IsSeq(Knock(user, ticketKey, challenge))
         /\ Lacks(Knock(user, ticketKey, challenge), "crypt")
<1>1. PICK opened : /\ opened = Opened(user, service, ticketKey)
                    /\ opened.sessionKey = RandomKey(user)
                    /\ opened.sealedInternal = Sealed(user, ticketKey)
  BY OpenedIs
<1>2. ConnectPayload(opened, user, challenge) = Knock(user, ticketKey, challenge)
  BY <1>1 DEF ConnectPayload, Knock, Boxed, Claim
<1>3. PICK field : field = "crypt" /\ field # "w" /\ field # "n"
  OBVIOUS
<1>4. PICK sealed : sealed = Sealed(user, ticketKey) /\ IsSeq(sealed) /\ Lacks(sealed, field)
  BY <1>3, SealedIs
<1>5. PICK claim : claim = Claim(user, challenge) /\ IsSeq(claim) /\ Lacks(claim, field)
  BY <1>3, ClaimIs
<1>6. PICK a : a = WriteBuffer(4, sealed) /\ IsSeq(a) /\ Lacks(a, field)
  BY <1>3, <1>4, BufferLacks
<1>7. PICK b : b = WriteBuffer(4, claim) /\ IsSeq(b) /\ Lacks(b, field)
  BY <1>3, <1>5, BufferLacks
<1>8. IsSeq(a \o b) /\ Lacks(a \o b, field)
  BY <1>6, <1>7, ConcatLacks
<1>9. Knock(user, ticketKey, challenge) = a \o b
  BY <1>4, <1>5, <1>6, <1>7 DEF Knock, Boxed
<1> QED
  BY <1>1, <1>2, <1>3, <1>8, <1>9

\* The packet of a CONNECT is read as it was sent.
LEMMA ConnectIsRead ==
  ASSUME NEW payload, IsSeq(payload), Lacks(payload, "crypt")
  PROVE  Connecting(payload) = payload
<1>1. PICK compressed : compressed = FALSE
  OBVIOUS
<1>2. PICK p : p = [source |-> CLIENT_PORT, destination |-> SERVER_PORT, packetType |-> "connect",
                    flags |-> {"Reliable", "NeedAck", "HasSize"}, sessionId |-> 0, signature |-> 1,
                    sequence |-> 1, connSignature |-> 2, payload |-> payload,
                    useCompression |-> compressed]
  OBVIOUS
<1>3. /\ p.source = CLIENT_PORT /\ p.packetType = "connect" /\ p.payload = payload
      /\ ~p.useCompression
  BY <1>1, <1>2
<1>4. p.source.streamType = RVSec
  BY <1>3 DEF CLIENT_PORT, VPort
<1>5. IsPacket(p)
  BY <1>3, <1>4 DEF IsPacket, Lacks
<1>6. PICK q : IsRead(q, p) /\ PacketsOf(ToBytes(p)) = <<q>>
  BY <1>5, AloneInDatagram DEF OnlyPacket
<1>7. q.payload = payload
  BY <1>3, <1>6, ReadIsOk
<1>8. PacketsOf(ToBytes(p))[1] = q
  BY <1>6, SeqSingle
<1>9. Connecting(payload) = PacketsOf(ToBytes(p))[1].payload
  BY <1>1, <1>2 DEF Connecting
<1> QED
  BY <1>7, <1>8, <1>9

\* What was cut short is not read.
LEMMA FrontOfConcat ==
  ASSUME NEW a, IsSeq(a), NEW b, IsSeq(b), b # << >>
  PROVE  Front(a \o b) = a \o Front(b)
<1>1. PICK l \in Nat : l = Len(a)
  BY SeqDomain
<1>2. PICK f : /\ f = Front(b) /\ IsSeq(f) /\ Len(f) = Len(b) - 1 /\ Len(b) \in Nat \ {0}
               /\ \A i \in 1 .. Len(b) - 1 : f[i] = b[i]
  BY FrontOfSeq
<1>3. PICK w : w = a \o b
  OBVIOUS
<1>4. /\ IsSeq(w) /\ Len(w) = l + Len(b)
      /\ \A i \in 1 .. l + Len(b) : w[i] = IF i <= l THEN a[i] ELSE b[i - l]
  BY <1>1, <1>3, SeqConcat
<1>5. PICK v : v = a \o f
  OBVIOUS
<1>6. /\ IsSeq(v) /\ Len(v) = l + Len(f)
      /\ \A i \in 1 .. l + Len(f) : v[i] = IF i <= l THEN a[i] ELSE f[i - l]
  BY <1>1, <1>2, <1>5, SeqConcat, ZenonT(40)
<1>7. w # << >>
  BY <1>2, <1>4, SeqEmpty
<1>8. PICK g : /\ g = Front(w) /\ IsSeq(g) /\ Len(g) = Len(w) - 1
               /\ \A i \in 1 .. Len(w) - 1 : g[i] = w[i]
  BY <1>4, <1>7, FrontOfSeq
<1>9. Len(g) = Len(v)
  BY <1>2, <1>4, <1>6, <1>8
<1>10. ASSUME NEW i \in 1 .. Len(g) PROVE g[i] = v[i]
  <2>1. i \in 1 .. l + Len(b) /\ i \in 1 .. l + Len(f) /\ i \in 1 .. Len(w) - 1
    BY <1>2, <1>4, <1>8
  <2>2. g[i] = w[i]
    BY <1>8, <2>1
  <2>3. ~(i <= l) => i - l \in 1 .. Len(b) - 1
    BY <1>2, <2>1
  <2> QED
    BY <1>2, <1>4, <1>6, <2>1, <2>2, <2>3
<1> QED
  BY <1>2, <1>3, <1>5, <1>6, <1>8, <1>9, <1>10, SeqExtensional

LEMMA CutBuffer ==
  ASSUME NEW data, IsSeq(data), data # << >>
  PROVE  /\ IsSeq(WriteBuffer(4, data)) /\ WriteBuffer(4, data) # << >>
         /\ IsSeq(Front(WriteBuffer(4, data)))
         /\ ReadBuffer(4, Front(WriteBuffer(4, data))) = Missing
<1>1. PICK n : n = Number(4, Len(data))
  OBVIOUS
<1>2. PICK one : one = <<n>> /\ IsSeq(one)
  BY SeqSingle
<1>3. PICK w : w = WriteBuffer(4, data) /\ w = one \o data
  BY <1>1, <1>2 DEF WriteBuffer
<1>4. IsSeq(w) /\ w # << >>
  BY <1>2, <1>3, SeqCons
<1>5. PICK f : f = Front(data) /\ IsSeq(f) /\ Len(f) = Len(data) - 1 /\ Len(data) \in Nat \ {0}
  BY FrontOfSeq
<1>6. Front(w) = one \o f
  BY <1>2, <1>3, <1>5, FrontOfConcat
<1>7. PICK g : g = <<n>> \o f
  OBVIOUS
<1>8. IsSeq(g) /\ ReadNumber(4, g) = Got(Len(data), f)
  BY <1>1, <1>5, <1>7, NumberIsRead
<1>9. Take(Len(data), f) = Missing
  <2>1. Len(data) > Len(f)
    BY <1>5
  <2> QED
    BY <2>1 DEF Take
<1>10. PICK got : got = ReadNumber(4, g) /\ got.ok /\ got.value = Len(data) /\ got.rest = f
  BY <1>8, GotIs
<1>11. ReadBuffer(4, g) = Missing
  BY <1>9, <1>10 DEF ReadBuffer, Then
<1> QED
  BY <1>2, <1>3, <1>4, <1>6, <1>7, <1>8, <1>11

LEMMA CutKnock ==
  ASSUME NEW user, NEW ticketKey, NEW challenge
  PROVE  \E rest : /\ IsSeq(rest) /\ ReadBuffer(4, rest) = Missing
                   /\ Front(Knock(user, ticketKey, challenge)) = Boxed(Sealed(user, ticketKey), rest)
<1>1. PICK claim : claim = Claim(user, challenge) /\ IsSeq(claim) /\ claim # << >>
  BY ClaimIs
<1>2. PICK b : /\ b = WriteBuffer(4, claim) /\ IsSeq(b) /\ b # << >>
               /\ IsSeq(Front(b)) /\ ReadBuffer(4, Front(b)) = Missing
  BY <1>1, CutBuffer
<1>3. PICK sealed : sealed = Sealed(user, ticketKey) /\ IsSeq(sealed)
  BY SealedIs
<1>4. PICK a : a = WriteBuffer(4, sealed) /\ IsSeq(a)
  BY <1>3, LastBufferIsRead
<1>5. PICK rest : rest = Front(b)
  OBVIOUS
<1>6. Front(a \o b) = a \o rest
  BY <1>2, <1>4, <1>5, FrontOfConcat
<1>7. Knock(user, ticketKey, challenge) = a \o b
  BY <1>1, <1>2, <1>3, <1>4 DEF Knock, Boxed
<1>8. Boxed(sealed, rest) = a \o rest
  BY <1>4 DEF Boxed
<1> QED
  BY <1>2, <1>3, <1>5, <1>6, <1>7, <1>8

\* What the secure service finds in the ticket, with its own key only.
LEMMA InternalIsRead ==
  ASSUME NEW user
  PROVE  ReadInternal(InternalCells(Internal(user))) = Got(Internal(user), << >>)
<1>1. PICK internal : /\ internal = Internal(user)
                      /\ internal = [principleId |-> user, validUntil |-> VALID_FOREVER,
                                     sessionKey |-> RandomKey(user)]
  BY DEF Internal
<1>2. PICK k : k = RandomKey(user) /\ "sessionKey" \in DOMAIN k
  <2>1. PICK k : k = RandomKey(user)
    OBVIOUS
  <2>2. "sessionKey" \in DOMAIN k
    BY <2>1 DEF RandomKey
  <2> QED
    BY <2>1, <2>2
<1>3. internal.principleId = user /\ internal.validUntil = VALID_FOREVER /\ internal.sessionKey = k
  BY <1>1, <1>2
<1>4. PICK a : a = Number(4, user)
  OBVIOUS
<1>5. PICK b : b = Number(8, VALID_FOREVER)
  OBVIOUS
<1>6. PICK data : data = InternalCells(internal) /\ data = <<a, b, k>>
  BY <1>3, <1>4, <1>5 DEF InternalCells
<1>7. PICK e : e = << >> /\ IsSeq(e)
  BY SeqEmpty
<1>8. PICK third : third = <<k>> \o e
  OBVIOUS
<1>9. IsSeq(third) /\ third # << >> /\ third[1] = k /\ Tail(third) = e
  BY <1>7, <1>8, SeqCons
<1>10. PICK second : second = <<b>> \o third
  OBVIOUS
<1>11. IsSeq(second) /\ ReadNumber(8, second) = Got(VALID_FOREVER, third)
  BY <1>5, <1>9, <1>10, NumberIsRead
<1>12. PICK first : first = <<a>> \o second
  OBVIOUS
<1>13. ReadNumber(4, first) = Got(user, second)
  BY <1>4, <1>11, <1>12, NumberIsRead
<1>14. data = first
  <2>1. TripleThen(a, b, k, e)
    BY <1>7, TripleIsRead
  <2>2. Triple(a, b, k) = data
    BY <1>6 DEF Triple
  <2>3. IsSeq(data) /\ data \o e = <<a>> \o (<<b>> \o (<<k>> \o e))
    BY <2>1, <2>2 DEF TripleThen
  <2>4. data \o e = data
    BY <1>7, <2>3, EmptyConcat
  <2> QED
    BY <1>8, <1>10, <1>12, <2>3, <2>4
<1>15. PICK x : x = ReadNumber(4, data)
  OBVIOUS
<1>16. x.ok /\ x.value = user /\ x.rest = second
  BY <1>13, <1>14, <1>15, GotIs
<1>17. PICK y : y = ReadNumber(8, x.rest)
  OBVIOUS
<1>18. y.ok /\ y.value = VALID_FOREVER /\ y.rest = third
  BY <1>11, <1>16, <1>17, GotIs
<1>19. PICK q : q = y.rest /\ q # << >> /\ q[1] = k /\ Tail(q) = e
  BY <1>9, <1>18
<1>20. PICK read : read = [principleId |-> x.value, validUntil |-> y.value, sessionKey |-> q[1]]
  OBVIOUS
<1>21. ReadInternal(data) = Got(read, Tail(q))
  BY <1>2, <1>15, <1>16, <1>17, <1>18, <1>19, <1>20 DEF ReadInternal, Then
<1>22. read = internal
  BY <1>1, <1>2, <1>16, <1>18, <1>19, <1>20
<1> QED
  BY <1>1, <1>6, <1>7, <1>19, <1>21, <1>22

LEMMA SealIsOpened ==
  ASSUME NEW user, NEW ticketKey, NEW key
  PROVE  OpenTicketInternal(Sealed(user, ticketKey), key)
           = IF key = ticketKey THEN Got(Internal(user), << >>) ELSE Missing
<1>1. PICK q : /\ q = Sealed(user, ticketKey) /\ Len(q) = 2 /\ "boxed" \in DOMAIN q[2]
               /\ q[2].boxed = InternalCells(Internal(user)) /\ q[2].key = ticketKey
  BY SealedIs
<1> QED
  BY <1>1, InternalIsRead DEF OpenTicketInternal

\* The secure service lets in who presents a ticket of its own key in time, and answers
\* the challenge.
LEMMA UserIsLetIn ==
  ASSUME NEW user, NEW challenge
  PROVE  LetIn(Internal(user), Claim(user, challenge))
           = [userId |-> user, payload |-> ChallengeAnswer(challenge)]
<1>1. PICK internal : internal = Internal(user)
  OBVIOUS
<1>2. internal.principleId = user /\ internal.sessionKey = RandomKey(user)
  BY <1>1 DEF Internal
<1>3. PICK claim : /\ claim = Claim(user, challenge)
                   /\ CryptWith(RandomKey(user), claim) = ConnectData(user, challenge)
  BY ClaimIs
<1>4. PICK data : data = ReadConnectData(CryptWith(internal.sessionKey, claim))
  OBVIOUS
<1>5. data.ok /\ data.value.challenge = challenge
  BY <1>2, <1>3, <1>4, ConnectDataIs
<1>6. LetIn(internal, claim) = [userId |-> internal.principleId,
                                payload |-> ChallengeAnswer(data.value.challenge)]
  BY <1>4, <1>5 DEF LetIn
<1> QED
  BY <1>1, <1>2, <1>3, <1>5, <1>6

LEMMA KnockIsHeard ==
  ASSUME NEW user, NEW ticketKey, NEW challenge, NEW key, NEW now
  PROVE  AcceptTicket(Knock(user, ticketKey, challenge), key, now)
           = IF key = ticketKey /\ ~(VALID_FOREVER < now)
             THEN [userId |-> user, payload |-> ChallengeAnswer(challenge)] ELSE Refused
<1>1. PICK claim : claim = Claim(user, challenge) /\ IsSeq(claim)
  BY ClaimIs
<1>2. PICK box : box = WriteBuffer(4, claim) /\ IsSeq(box)
                 /\ ReadBuffer(4, box) = Got(claim, << >>)
  BY <1>1, LastBufferIsRead
<1>3. PICK sealed : sealed = Sealed(user, ticketKey) /\ IsSeq(sealed)
  BY SealedIs
<1>4. PICK payload : payload = Knock(user, ticketKey, challenge) /\ payload = Boxed(sealed, box)
  BY <1>1, <1>2, <1>3 DEF Knock
<1>5. ReadBuffer(4, payload) = Got(sealed, box)
  BY <1>2, <1>3, <1>4, BufferIsRead
<1>6. PICK ticket : ticket = ReadBuffer(4, payload)
  OBVIOUS
<1>7. ticket.ok /\ ticket.value = sealed /\ ticket.rest = box
  BY <1>5, <1>6, GotIs
<1>8. PICK requestData : requestData = ReadBuffer(4, ticket.rest)
  OBVIOUS
<1>9. requestData.ok /\ requestData.value = claim
  BY <1>2, <1>7, <1>8, GotIs
<1>10. PICK opened : opened = OpenTicketInternal(sealed, key)
  OBVIOUS
<1>11. AcceptTicket(payload, key, now) = AcceptOpened(opened, claim, now)
  BY <1>6, <1>7, <1>8, <1>9, <1>10 DEF AcceptTicket
<1>12. CASE key = ticketKey
  <2>1. PICK internal : internal = Internal(user)
    OBVIOUS
  <2>2. opened = Got(internal, << >>)
    BY <1>3, <1>10, <1>12, <2>1, SealIsOpened
  <2>3. opened.ok /\ opened.value = internal
    BY <2>2, GotIs
  <2>4. internal.validUntil = VALID_FOREVER
    BY <2>1 DEF Internal
  <2>5. AcceptOpened(opened, claim, now)
          = IF VALID_FOREVER < now THEN Refused ELSE LetIn(internal, claim)
    BY <2>3, <2>4 DEF AcceptOpened
  <2>6. LetIn(internal, claim) = [userId |-> user, payload |-> ChallengeAnswer(challenge)]
    BY <1>1, <2>1, UserIsLetIn
  <2> QED
    BY <1>4, <1>11, <1>12, <2>5, <2>6
<1>13. CASE key # ticketKey
  <2>1. opened = Missing
    BY <1>3, <1>10, <1>13, SealIsOpened
  <2>2. ~opened.ok
    BY <2>1 DEF Missing
  <2>3. AcceptOpened(opened, claim, now) = Refused
    BY <2>2 DEF AcceptOpened
  <2> QED
    BY <1>4, <1>11, <1>13, <2>3
<1> QED
  BY <1>12, <1>13

LEMMA CutKnockIsNot ==
  ASSUME NEW user, NEW ticketKey, NEW challenge, NEW key, NEW now
  PROVE  AcceptTicket(Front(Knock(user, ticketKey, challenge)), key, now) = Refused
<1>1. PICK sealed : sealed = Sealed(user, ticketKey) /\ IsSeq(sealed)
  BY SealedIs
<1>2. PICK rest : /\ IsSeq(rest) /\ ReadBuffer(4, rest) = Missing
                  /\ Front(Knock(user, ticketKey, challenge)) = Boxed(sealed, rest)
  BY <1>1, CutKnock
<1>3. PICK payload : payload = Boxed(sealed, rest)
  OBVIOUS
<1>4. ReadBuffer(4, payload) = Got(sealed, rest)
  BY <1>1, <1>2, <1>3, BufferIsRead
<1>5. PICK ticket : ticket = ReadBuffer(4, payload)
  OBVIOUS
<1>6. ticket.ok /\ ticket.rest = rest
  BY <1>4, <1>5, GotIs
<1>7. PICK requestData : requestData = ReadBuffer(4, ticket.rest)
  OBVIOUS
<1>8. ~requestData.ok
  BY <1>2, <1>6, <1>7 DEF Missing
<1>9. AcceptTicket(payload, key, now) = Refused
  BY <1>5, <1>6, <1>7, <1>8 DEF AcceptTicket
<1> QED
  BY <1>2, <1>3, <1>9

LEMMA TicketLetsIn ==
  ASSUME NEW user, NEW service, NEW ticket, ticket.pid = user, NEW opened,
         opened.value = Opened(user, service, plan.world.ticketKey), IsTimely(plan.world),
         NEW challenge
  PROVE  LetsIn(ticket, opened, challenge)
<1>1. PICK key : key = plan.world.ticketKey /\ key # "another key"
  BY DEF IsTimely
<1>2. PICK knock : knock = Knock(user, key, challenge) /\ IsSeq(knock) /\ Lacks(knock, "crypt")
  BY KnockIs
<1>3. Connecting(ConnectPayload(opened.value, ticket.pid, challenge)) = knock
  <2>1. PICK o : o = opened.value /\ o = Opened(user, service, key)
    BY <1>1
  <2>2. ConnectPayload(o, user, challenge) = knock
    BY <1>2, <2>1, KnockIs
  <2> QED
    BY <1>2, <2>1, <2>2, ConnectIsRead
<1>4. PICK now : now = plan.world.now /\ now \in Int /\ ~(VALID_FOREVER < now)
  <2>1. PICK v \in Int : v = VALID_FOREVER
    BY SMT DEF VALID_FOREVER
  <2>2. plan.world.now \in 0 .. VALID_FOREVER
    BY Zenon DEF IsTimely
  <2>3. PICK now : now = plan.world.now /\ now \in 0 .. v
    BY <2>1, <2>2, ZenonT(40)
  <2>4. now \in Int /\ ~(v < now)
    BY <2>1, <2>3, SMT
  <2> QED
    BY <2>1, <2>3, <2>4, Zenon
<1>5. PICK answer : answer = ChallengeAnswer(challenge)
  OBVIOUS
<1>6. PICK result : /\ result = AcceptTicket(knock, key, now)
                    /\ result = [userId |-> user, payload |-> answer]
  BY <1>2, <1>4, <1>5, KnockIsHeard
<1>7. result.userId = user /\ result.payload = answer
  BY <1>6
<1>8. ReadBuffer(4, answer) = Got(Successor(challenge), << >>)
  <2>1. PICK n : n = Number(4, (challenge + 1) % ChallengeSpace)
    OBVIOUS
  <2>2. PICK next : next = <<n>> /\ IsSeq(next)
    BY SeqSingle
  <2>3. Successor(challenge) = next
    BY <2>1, <2>2 DEF Successor
  <2> QED
    BY <1>5, <2>2, <2>3, LastBufferIsRead DEF ChallengeAnswer
<1>9. AcceptTicket(knock, "another key", now) = Refused
  <2>1. PICK other : other = "another key"
    OBVIOUS
  <2>2. AcceptTicket(knock, other, now) = Refused
    BY <1>1, <1>2, <2>1, KnockIsHeard
  <2> QED
    BY <2>1, <2>2
<1>10. AcceptTicket(knock, key, VALID_FOREVER + 1) = Refused
  <2>1. PICK late : late = VALID_FOREVER + 1
    OBVIOUS
  <2>2. VALID_FOREVER < late
    BY <2>1, SMT DEF VALID_FOREVER
  <2>3. AcceptTicket(knock, key, late) = Refused
    BY <1>2, <2>2, KnockIsHeard
  <2> QED
    BY <2>1, <2>3
<1>11. AcceptTicket(Front(knock), key, now) = Refused
  BY <1>2, CutKnockIsNot
<1> QED
  BY <1>1, <1>3, <1>4, <1>6, <1>7, <1>8, <1>9, <1>10, <1>11 DEF LetsIn

-----------------------------------------------------------------------------
(***************************************************************************)
(* The tickets that the answers of the authentication service hold.        *)
(***************************************************************************)
\* A ticket of the service for this user, encrypted with this password.
IsTicket(ticket, at) ==
  \E service : ticket.data = Ticket(at, ticket.pid, service, ticket.password)

Holding(data, pid, password) == [data |-> data, pid |-> pid, password |-> password]

LEMMA HoldingIsTicket ==
  ASSUME NEW at, NEW pid, NEW service, NEW password
  PROVE  IsTicket(Holding(Ticket(at, pid, service, password), pid, password), at)
<1>1. PICK data : data = Ticket(at, pid, service, password)
  OBVIOUS
<1>2. PICK ticket : ticket = Holding(data, pid, password)
  OBVIOUS
<1>3. ticket.data = data /\ ticket.pid = pid /\ ticket.password = password
  BY <1>2 DEF Holding
<1>4. IsTicket(ticket, at)
  BY <1>1, <1>3 DEF IsTicket
<1> QED
  BY <1>1, <1>2, <1>4

\* A login that succeeds answers with a ticket for the user it logs in.
IsLogin(outcome, call, userId, password) ==
  /\ outcome.error = ""
  /\ outcome.value.pidPrincipal = userId
  /\ outcome.value.pbufResponse = Ticket(call, userId, SERVER_PID, password)

LEMMA LoggedInIs ==
  ASSUME NEW call, NEW userId, NEW password, NEW pid
  PROVE  IsLogin(LoggedIn(call, userId, password, pid), call, userId, password)
<1>1. PICK ticket : ticket = Ticket(call, userId, SERVER_PID, password)
  OBVIOUS
<1>2. PICK value : /\ value.pidPrincipal = userId /\ value.pbufResponse = ticket
                   /\ LoggedIn(call, userId, password, pid)
                        = [Answer(value) EXCEPT !.userId = userId]
  <2>1. PICK connection : connection = ConnectionData(call, pid)
    OBVIOUS
  <2>2. PICK none : none = << >>
    OBVIOUS
  <2>3. PICK value : value = [returnValue |-> QRESULT_OK, pidPrincipal |-> userId,
                              pbufResponse |-> ticket, pConnectionData |-> connection,
                              strReturnMsg |-> none]
    OBVIOUS
  <2>4. value.pidPrincipal = userId /\ value.pbufResponse = ticket
    BY <2>3
  <2>5. LoggedIn(call, userId, password, pid) = [Answer(value) EXCEPT !.userId = userId]
    BY <1>1, <2>1, <2>2, <2>3 DEF LoggedIn
  <2> QED
    BY <2>4, <2>5
<1>3. PICK answer : answer = Answer(value) /\ answer.error = "" /\ answer.value = value
  BY AnswerIs
<1>4. /\ [answer EXCEPT !.userId = userId].error = answer.error
      /\ [answer EXCEPT !.userId = userId].value = answer.value
  OBVIOUS
<1> QED
  BY <1>1, <1>2, <1>3, <1>4 DEF IsLogin

LEMMA LoginIs ==
  ASSUME NEW request, NEW call, Login(request, call).error = ""
  PROVE  \E userId : IsLogin(Login(request, call), call, userId, PlaintextPassword(call, userId))
<1>1. PICK accounts : accounts = call.world.accounts
  OBVIOUS
<1>2. PICK users : users = {u \in DOMAIN accounts :
                              accounts[u].name = request.strUserName /\ accounts[u].plaintext}
  OBVIOUS
<1>3. Login(request, call) = IF users = {} THEN Refuse("AccessDenied")
        ELSE LoggedIn(call, Only(users), accounts[Only(users)].password, 2)
  BY <1>1, <1>2 DEF Login
<1>4. users # {}
  <2>1. PICK error : error = "AccessDenied"
    OBVIOUS
  <2>2. Refuse(error).error = error
    BY RefuseIs
  <2>3. Refuse(error).error # ""
    BY <2>1, <2>2
  <2> QED
    BY <1>3, <2>1, <2>3
<1>5. PICK user \in users : user = Only(users)
  BY <1>4 DEF Only
<1>6. PICK password : password = accounts[user].password
  OBVIOUS
<1>7. PlaintextPassword(call, user) = password
  BY <1>1, <1>2, <1>5, <1>6 DEF PlaintextPassword
<1>8. Login(request, call) = LoggedIn(call, user, password, 2)
  BY <1>3, <1>4, <1>5, <1>6
<1> QED
  BY <1>7, <1>8, LoggedInIs

LEMMA LoginExIs ==
  ASSUME NEW request, NEW call, LoginEx(request, call).error = ""
  PROVE  \E userId : IsLogin(LoginEx(request, call), call, userId, << >>)
<1>1. PICK login : login = Read(Auth!UbiAuthenticationLoginCustomData, request.oExtraData.data)
  OBVIOUS
<1>2. PICK done : /\ done = Refuse("ParsingError") \/ done = LoginIfRead(login, call)
                  /\ LoginEx(request, call) = [done EXCEPT !.async = TRUE]
  BY <1>1 DEF LoginEx
<1>3. "error" \in DOMAIN done /\ "value" \in DOMAIN done
  <2>1. \A error : "error" \in DOMAIN Refuse(error) /\ "value" \in DOMAIN Refuse(error)
    BY DEF Refuse, Answer
  <2>2. \A user, password, pid :
          /\ "error" \in DOMAIN LoggedIn(call, user, password, pid)
          /\ "value" \in DOMAIN LoggedIn(call, user, password, pid)
    BY DEF LoggedIn, Answer
  <2> QED
    BY <1>2, <2>1, <2>2 DEF LoginIfRead, LoginWith
<1>4. PICK result : /\ result = LoginEx(request, call)
                    /\ result.error = done.error /\ result.value = done.value
  <2>1. [done EXCEPT !.async = TRUE].error = done.error
    BY <1>3
  <2>2. [done EXCEPT !.async = TRUE].value = done.value
    BY <1>3
  <2> QED
    BY <1>2, <2>1, <2>2
<1>5. \A error : error # "" => done # Refuse(error)
  BY <1>4, RefuseIs
<1>6. done = LoginWith(login.value, call)
  BY <1>2, <1>5 DEF LoginIfRead
<1>7. PICK none : none = << >>
  OBVIOUS
<1>8. PICK user : done = LoggedIn(call, user, none, SERVER_PID)
  BY <1>5, <1>6, <1>7 DEF LoginWith
<1>9. IsLogin(done, call, user, none)
  BY <1>8, LoggedInIs
<1>10. IsLogin(result, call, user, none)
  BY <1>4, <1>9 DEF IsLogin
<1> QED
  BY <1>4, <1>7, <1>10

LEMMA RequestTicketIs ==
  ASSUME NEW request, NEW call, RequestTicket(request, call).error = ""
  PROVE  RequestTicket(request, call).value.bufResponse
           = Ticket(call, request.idSource, request.idTarget,
                    PlaintextPassword(call, request.idSource))
<1>1. PICK user : user = call.userId
  OBVIOUS
<1>2. PICK ticket : ticket = Ticket(call, user, request.idTarget, PlaintextPassword(call, user))
  OBVIOUS
<1>3. PICK value : value = [returnValue |-> QRESULT_OK, bufResponse |-> ticket]
  OBVIOUS
<1>4. RequestTicket(request, call)
        = IF user \notin {request.idSource} \ {Undefined} THEN Refuse("AccessDenied")
          ELSE Answer(value)
  BY <1>1, <1>2, <1>3 DEF RequestTicket
<1>5. user = request.idSource /\ RequestTicket(request, call) = Answer(value)
  <2>1. PICK error : error = "AccessDenied"
    OBVIOUS
  <2>2. Refuse(error).error = error
    BY RefuseIs
  <2>3. Refuse(error).error # ""
    BY <2>1, <2>2
  <2> QED
    BY <1>4, <2>1, <2>3
<1>6. RequestTicket(request, call).value = value
  BY <1>5, AnswerIs
<1>7. value.bufResponse = ticket
  BY <1>3
<1> QED
  BY <1>2, <1>5, <1>6, <1>7

\* The tickets in what one of the logins came to.
AreTickets(tickets, at) == \A i \in DOMAIN tickets : IsTicket(tickets[i], at)

LEMMA NoTickets ==
  ASSUME NEW at, NEW tickets, tickets = << >>
  PROVE  AreTickets(tickets, at)
BY EmptyDomain DEF AreTickets

LEMMA OneTicket ==
  ASSUME NEW at, NEW ticket, IsTicket(ticket, at), NEW tickets, tickets = <<ticket>>
  PROVE  AreTickets(tickets, at)
<1>1. IsSeq(tickets) /\ Len(tickets) = 1 /\ tickets[1] = ticket
  BY SeqSingle
<1>2. DOMAIN tickets = 1 .. 1
  BY <1>1, SeqDomain
<1>3. \A i \in 1 .. 1 : i = 1
  OBVIOUS
<1> QED
  BY <1>1, <1>2, <1>3 DEF AreTickets

LEMMA GrantedTickets ==
  ASSUME NEW job, NEW outcome, outcome.error = "",
         IsGranting(outcome, FoundFor(plan, CallIdOf(job)), CallOf(job), job.call)
  PROVE  AreTickets(TicketIn(job, outcome.value), job.call)
<1>1. PICK at : at = job.call
  OBVIOUS
<1>2. PICK request : request = CallOf(job).value
  OBVIOUS
<1>3. PICK found : found = FoundFor(plan, CallIdOf(job))
  OBVIOUS
<1>4. found = Registration(plan.world.service, CallOf(job).protocolId)
  BY <1>3 DEF FoundFor, CallOf, CallIdOf
<1>5. PICK key : key = found[1].methods[CallOf(job).methodId].key
  OBVIOUS
<1>6. outcome = TicketGranting(key, request, at)
  BY <1>1, <1>2, <1>3, <1>5 DEF IsGranting
<1>7. PICK value : value = outcome.value
  OBVIOUS
<1>8. PICK tickets : tickets = TicketIn(job, value)
  OBVIOUS
<1>9. CASE key = "login"
  <2>1. outcome = Login(request, at)
    BY <1>6, <1>9 DEF TicketGranting
  <2>2. PICK user : IsLogin(outcome, at, user, PlaintextPassword(at, user))
    BY <2>1, LoginIs
  <2>3. PICK password : password = PlaintextPassword(at, user)
    OBVIOUS
  <2>4. PICK data : data = Ticket(at, user, SERVER_PID, password)
    OBVIOUS
  <2>5. value.pidPrincipal = user /\ value.pbufResponse = data
    BY <1>7, <2>2, <2>3, <2>4 DEF IsLogin
  <2>6. PICK ticket : ticket = Holding(data, user, password)
    OBVIOUS
  <2>7. tickets = <<ticket>>
    BY <1>1, <1>4, <1>5, <1>8, <1>9, <2>3, <2>5, <2>6 DEF TicketIn, Holding
  <2>8. IsTicket(ticket, at)
    BY <2>4, <2>6, HoldingIsTicket
  <2> QED
    BY <1>1, <1>7, <1>8, <2>7, <2>8, OneTicket
<1>10. CASE key = "loginEx"
  <2>1. outcome = LoginEx(request, at)
    BY <1>6, <1>10 DEF TicketGranting
  <2>2. PICK user : IsLogin(outcome, at, user, << >>)
    BY <2>1, LoginExIs
  <2>3. PICK password : password = << >>
    OBVIOUS
  <2>4. PICK data : data = Ticket(at, user, SERVER_PID, password)
    OBVIOUS
  <2>5. value.pidPrincipal = user /\ value.pbufResponse = data
    BY <1>7, <2>2, <2>3, <2>4 DEF IsLogin
  <2>6. PICK ticket : ticket = Holding(data, user, password)
    OBVIOUS
  <2>7. tickets = <<ticket>>
    BY <1>1, <1>4, <1>5, <1>8, <1>10, <2>3, <2>5, <2>6 DEF TicketIn, Holding
  <2>8. IsTicket(ticket, at)
    BY <2>4, <2>6, HoldingIsTicket
  <2> QED
    BY <1>1, <1>7, <1>8, <2>7, <2>8, OneTicket
<1>11. CASE key = "requestTicket"
  <2>1. outcome = RequestTicket(request, at)
    BY <1>6, <1>11 DEF TicketGranting
  <2>2. PICK user : user = request.idSource
    OBVIOUS
  <2>3. PICK password : password = PlaintextPassword(at, user)
    OBVIOUS
  <2>4. PICK data : data = Ticket(at, user, request.idTarget, password)
    OBVIOUS
  <2>5. value.bufResponse = data
    BY <1>7, <2>1, <2>2, <2>3, <2>4, RequestTicketIs
  <2>6. PICK ticket : ticket = Holding(data, user, password)
    OBVIOUS
  <2>7. tickets = <<ticket>>
    BY <1>1, <1>2, <1>4, <1>5, <1>8, <1>11, <2>2, <2>3, <2>5, <2>6 DEF TicketIn, Holding
  <2>8. IsTicket(ticket, at)
    BY <2>4, <2>6, HoldingIsTicket
  <2> QED
    BY <1>1, <1>7, <1>8, <2>7, <2>8, OneTicket
<1>12. CASE key \notin {"login", "loginEx", "requestTicket"}
  <2>1. tickets = << >>
    BY <1>4, <1>5, <1>8, <1>12 DEF TicketIn
  <2> QED
    BY <1>1, <1>7, <1>8, <2>1, NoTickets
<1> QED
  BY <1>9, <1>10, <1>11, <1>12

\* What a client finds in an answer is what the handler put there.
LEMMA AnsweredTickets ==
  ASSUME NEW job, Answers(ParseRmcPacket(job.response), job)
  PROVE  AreTickets(TicketsOf(job), job.call)
<1>1. PICK answer : answer = ParseRmcPacket(job.response)
  OBVIOUS
<1>2. PICK response : response = answer.value
  OBVIOUS
<1>3. PICK k : k = CallIdOf(job)
  OBVIOUS
<1>4. PICK call : call = CallOf(job) /\ call = plan.calls[k]
  BY <1>3 DEF CallOf, CallIdOf
<1>5. PICK at : at = job.call
  OBVIOUS
<1>6. PICK found : found = FoundFor(plan, k) /\ found = Registration(plan.world.service, call.protocolId)
  BY <1>4 DEF FoundFor
<1>7. PICK outcome : outcome = OutcomeOf(plan, k, at) /\ outcome = Outcome(found, call, at)
  BY <1>4, <1>6 DEF OutcomeOf
<1>8. PICK type : type = found[1].methods[call.methodId].response
  OBVIOUS
<1>9. CASE plan.world.service # "auth" \/ ~job.answered \/ ~answer.ok \/ ~response.ok
  <2>1. PICK tickets : tickets = TicketsOf(job)
    OBVIOUS
  <2>2. tickets = << >>
    BY <1>1, <1>2, <1>9, <2>1 DEF TicketsOf
  <2> QED
    BY <2>1, <2>2, NoTickets
<1>10. CASE ~(plan.world.service # "auth" \/ ~job.answered \/ ~answer.ok \/ ~response.ok)
  <2>1. Says(response, found, outcome, call, at)
    BY <1>1, <1>2, <1>4, <1>5, <1>6, <1>7 DEF Answers, SaysOutcome
  <2>2. response.ok
    BY <1>10
  <2>3. \A error : ~SaysError(response, error)
    BY <2>2 DEF SaysError
  <2>4. outcome.error = ""
    BY <2>1, <2>3 DEF Says
  <2>5. PICK readable : readable = IsReadable(call, at)
    OBVIOUS
  <2>6. SaysValue(response, type, outcome.value, readable)
    BY <1>8, <2>1, <2>4, <2>5 DEF Says
  <2>7. readable => Read(type, response.data) = Got(outcome.value, << >>)
    BY <2>3, <2>6 DEF SaysValue
  <2>8. plan.world.service # "secure"
    BY <1>10
  <2>9. found # << >> /\ IsGranting(outcome, found, call, at)
    <3>1. ~IsRefusal(outcome)
      BY <2>4 DEF IsRefusal
    <3> QED
      BY <1>4, <1>6, <1>7, <2>8, <3>1, AuthenticationOutcome
  <2>10. call.protocolId = 10
    <3>1. found[1].id = call.protocolId
      BY <1>6, <2>9, RegisteredId
    <3>2. found[1] = Auth!TicketGrantingProtocol
      BY <2>9 DEF IsGranting
    <3>3. Auth!TicketGrantingProtocol.id = 10
      BY DEF Auth!TicketGrantingProtocol, Auth!Protocol
    <3> QED
      BY <3>1, <3>2, <3>3
  <2>11. readable
    <3>1. call.protocolId # 1001
      BY <2>10
    <3>2. IsReadable(call, at)
      BY <3>1 DEF IsReadable
    <3> QED
      BY <2>5, <3>2
  <2>12. PICK read : read = Read(type, response.data) /\ read.value = outcome.value
    BY <2>7, <2>11, GotIs
  <2>13. TicketsOf(job) = TicketIn(job, read.value)
    BY <1>1, <1>2, <1>4, <1>6, <1>8, <1>10, <2>12 DEF TicketsOf
  <2>14. AreTickets(TicketIn(job, outcome.value), at)
    BY <1>3, <1>4, <1>5, <1>6, <2>4, <2>9, GrantedTickets
  <2> QED
    BY <1>5, <2>12, <2>13, <2>14
<1> QED
  BY <1>9, <1>10

\* A ticket takes its client to the secure service, and nobody else.
LEMMA TicketIsGood ==
  ASSUME NEW ticket, NEW at, IsTicket(ticket, at), at.world = plan.world, IsTimely(plan.world)
  PROVE  LetsClientIn(ticket)
<1>1. PICK pid : pid = ticket.pid
  OBVIOUS
<1>2. PICK secret : secret = ticket.password
  OBVIOUS
<1>3. PICK service, data : data = ticket.data /\ data = Ticket(at, pid, service, secret)
  BY <1>1, <1>2 DEF IsTicket
<1>4. PICK opened : opened = DecodeKerberosTicket(data, pid, secret)
  OBVIOUS
<1>5. opened = Got(Opened(pid, service, plan.world.ticketKey), << >>)
  <2>1. opened = Got(Opened(pid, service, at.world.ticketKey), << >>)
    BY <1>3, <1>4, TicketIsOpened
  <2> QED
    BY <2>1
<1>6. opened.ok /\ opened.value = Opened(pid, service, plan.world.ticketKey)
  BY <1>5, GotIs
<1>7. \A challenge : LetsIn(ticket, opened, challenge)
  BY <1>1, <1>6, TicketLetsIn
<1>8. ASSUME NEW password
      PROVE  DecodeKerberosTicket(data, pid, password).ok
               <=> DeriveKey(pid, password) = DeriveKey(pid, secret)
  <2>1. CASE DeriveKey(pid, password) = DeriveKey(pid, secret)
    <3>1. DecodeKerberosTicket(data, pid, password) = opened
      BY <1>3, <1>4, <2>1, TicketIsOpened
    <3> QED
      BY <1>6, <2>1, <3>1
  <2>2. CASE DeriveKey(pid, password) # DeriveKey(pid, secret)
    <3>1. PICK got : got = DecodeKerberosTicket(data, pid, password)
      OBVIOUS
    <3>2. got = Missing
      BY <1>3, <2>2, <3>1, TicketIsOpened
    <3>3. ~got.ok
      BY <3>2 DEF Missing
    <3> QED
      BY <2>2, <3>1, <3>3
  <2> QED
    BY <2>1, <2>2
<1> QED
  BY <1>1, <1>2, <1>3, <1>4, <1>6, <1>7, <1>8 DEF LetsClientIn

\* Who logs in gets a ticket that the secure service accepts for that user, and nobody
\* else can use it: with the dispatcher as the handler, if the codec keeps the values of
\* the answers.
THEOREM TicketsAreGood ==
  ASSUME IsDispatched
  PROVE  Spec => [](AnswersAreMessages /\ AnswersReadBack => TicketsLetIn)
<1>1. ASSUME PlanInv, AnswersReadBack
      PROVE  TicketsLetIn
  <2> SUFFICES ASSUME NEW j \in DOMAIN jobs, NEW i \in DOMAIN TicketsOf(jobs[j])
               PROVE  LetsClientIn(TicketsOf(jobs[j])[i])
    BY DEF TicketsLetIn
  <2>1. PICK job : job = jobs[j]
    OBVIOUS
  <2>2. IsPlan(plan) /\ HoldsCall(plan, job)
    BY <1>1, <2>1 DEF PlanInv, FlightInv, MessageInv
  <2>3. job.call.world = plan.world /\ IsTimely(plan.world)
    BY <2>2 DEF HoldsCall, IsPlan
  <2>4. AreTickets(TicketsOf(job), job.call)
    <3>1. CASE job.answered
      <4>1. IsServed(plan, job)
        BY <2>2, <3>1, JobIsServed
      <4>2. Answers(ParseRmcPacket(job.response), job)
        BY <1>1, <2>1, <2>2, <2>3, <3>1, <4>1, ServedAnswers DEF AnswersReadBack
      <4> QED
        BY <4>2, AnsweredTickets
    <3>2. CASE ~job.answered
      <4>1. PICK tickets : tickets = TicketsOf(job)
        OBVIOUS
      <4>2. tickets = << >>
        BY <3>2, <4>1 DEF TicketsOf
      <4> QED
        BY <4>1, <4>2, NoTickets
    <3> QED
      BY <3>1, <3>2
  <2>5. PICK ticket : ticket = TicketsOf(job)[i] /\ IsTicket(ticket, job.call)
    BY <2>1, <2>4 DEF AreTickets
  <2> QED
    BY <2>1, <2>3, <2>5, TicketIsGood
<1>2. SentInv => (AnswersAreMessages /\ AnswersReadBack => TicketsLetIn)
  BY <1>1 DEF SentInv
<1> QED
  BY <1>2, SentIsInvariant, PTL
==============================================================================
