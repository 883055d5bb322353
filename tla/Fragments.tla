------------------------------ MODULE Fragments ------------------------------
(***************************************************************************)
(* Fragmentation of DATA packets: how a message is cut into fragments by   *)
(* the game and by PrudpServer.sendMessage, and how handleData puts the    *)
(* fragments of a client together again.                                   *)
(*                                                                         *)
(* A payload is a sequence of opaque units, its length stands for its size *)
(* in bytes.  The buffer of a client (ClientInfo.packetFragments) is a     *)
(* function from the fragment ids received so far to their payloads.  All  *)
(* operators are pure; PrudpServer and FragmentedChannel build on them.    *)
(***************************************************************************)
EXTENDS Naturals, FiniteSets, Sequences, SequencesExt

CONSTANT MaxReassembledSize     \* MAX_REASSEMBLED_SIZE, in units

ASSUME MaxSizeAssumption == MaxReassembledSize \in Nat

NoFragments == << >>

(***************************************************************************)
(* The server side: handleData.                                            *)
(***************************************************************************)

\* Mutants: a repeated fragment counts twice; only the new fragment counts.
BufferedSizeWithRepeats(buffer, fid, payload) ==
  Len(payload) + SumFunctionOnSet([f \in DOMAIN buffer |-> Len(buffer[f])], DOMAIN buffer)

BufferedSizeOfFragment(buffer, fid, payload) == Len(payload)

\* What the buffer would hold with this fragment: a fragment that arrives a
\* second time replaces the first one.
BufferedSize(buffer, fid, payload) ==
  LET others == DOMAIN buffer \ {fid}
      size   == [f \in DOMAIN buffer |-> Len(buffer[f])]
  IN  Len(payload) + SumFunctionOnSet(size, others)

\* The buffer after a fragment other than 0: too much is dropped as a whole.
Store(buffer, fid, payload) ==
  IF BufferedSize(buffer, fid, payload) > MaxReassembledSize
  THEN NoFragments
  ELSE [f \in DOMAIN buffer \union {fid} |-> IF f = fid THEN payload ELSE buffer[f]]

\* Fragment 0 completes a message, unless one of 1..size is missing.
IsComplete(buffer) == DOMAIN buffer = 1 .. Cardinality(DOMAIN buffer)

Reassembled(buffer, payload) ==
  FlattenSeq([f \in 1 .. Cardinality(DOMAIN buffer) |-> buffer[f]]) \o payload

\* Mutant: fragment 0 is stored like the others.
NextBufferAlwaysStored(buffer, fid, payload) == Store(buffer, fid, payload)

\* The buffer after any fragment. Fragment 0 always leaves it empty.
NextBuffer(buffer, fid, payload) ==
  IF fid = 0 THEN NoFragments ELSE Store(buffer, fid, payload)

(***************************************************************************)
(* The sending sides.  The game numbers the chunks of a message 1, 2, ...  *)
(* and marks the last one with 0.                                          *)
(***************************************************************************)
GameFragments(chunks) ==
  [i \in DOMAIN chunks |-> [fid |-> IF i = Len(chunks) THEN 0 ELSE i,
                            payload |-> chunks[i]]]
=============================================================================
