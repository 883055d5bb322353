-------------------------------- MODULE Cells --------------------------------
(***************************************************************************)
(* Data on the wire as cells: ReadStream, WriteStream and the codecs of    *)
(* strings and bytes.                                                      *)
(*                                                                         *)
(* Data is a sequence of cells.  A cell is a number with its width in      *)
(* bytes or a piece of text; lengths count cells.  A cell read with        *)
(* another width than it was written with is not part of the model, it     *)
(* counts as data that cannot be read.                                     *)
(***************************************************************************)
EXTENDS Integers, Sequences, SequencesExt

Number(width, n) == [w |-> width, n |-> n]
Text(t) == <<[text |-> t]>>
Nul == Number(1, 0)

\* Stands for a number that does not fit: WriteStream throws a RangeError.
Huge == 2147483647
IsWritten(cells) == \A i \in DOMAIN cells : cells[i] # Number(8, Huge)

\* What a read yields: a value and the rest, or a StreamError.
Missing == [ok |-> FALSE]
Got(value, rest) == [ok |-> TRUE, value |-> value, rest |-> rest]
Then(got, Continue(_, _)) == IF got.ok THEN Continue(got.value, got.rest) ELSE Missing

Take(n, cells) ==
  IF n > Len(cells) THEN Missing
  ELSE Got(SubSeq(cells, 1, n), SubSeq(cells, n + 1, Len(cells)))

ReadNumber(width, cells) ==
  IF Len(cells) > 0 /\ "w" \in DOMAIN cells[1] /\ cells[1].w = width
  THEN Got(cells[1].n, Tail(cells))
  ELSE Missing

WriteString(text) ==
  IF text = << >> THEN <<Number(2, 0)>>
  ELSE <<Number(2, Len(text) + 1)>> \o text \o <<Nul>>

\* The first NUL is the last cell.
ReadString(cells) ==
  Then(ReadNumber(2, cells), LAMBDA length, rest :
    IF length = 0 THEN Got(<< >>, rest)
    ELSE Then(Take(length, rest), LAMBDA data, after :
           IF {i \in DOMAIN data : data[i] = Nul} = {length} THEN Got(Front(data), after)
           ELSE Missing))

\* Bytes after their number: buffer and qBuffer.
WriteBuffer(width, data) == <<Number(width, Len(data))>> \o data
ReadBuffer(width, cells) == Then(ReadNumber(width, cells), Take)

\* A later entry of a key replaces the value of an earlier one.
SetEntry(entries, entry) ==
  IF \E i \in DOMAIN entries : entries[i][1] = entry[1]
  THEN [i \in DOMAIN entries |-> IF entries[i][1] = entry[1] THEN entry ELSE entries[i]]
  ELSE Append(entries, entry)
==============================================================================
