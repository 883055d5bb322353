--------------------------------- MODULE Wire ---------------------------------
(***************************************************************************)
(* How a value of a type is written to and read from the wire: the codecs  *)
(* that are built from others (codec.ts), as one writer and one reader for *)
(* all types.                                                              *)
(***************************************************************************)
EXTENDS Cells, Schemas

\* StationURL.parse; other text is not a station URL.
ReadURL(cells) ==
  Then(ReadString(cells), LAMBDA text, rest :
    IF Len(text) = 1 /\ "url" \in DOMAIN text[1] THEN Got(text[1].url, rest) ELSE Missing)

AsEntries(values) ==
  FoldLeft(SetEntry, << >>, [i \in 1 .. Len(values) \div 2 |-> <<values[2 * i - 1], values[2 * i]>>])

RECURSIVE WriteValue(_, _)
WriteValue(type, value) ==
  CASE type.kind = "scalar" -> <<Number(type.width, value)>>
    [] type.kind = "bool"   -> <<Number(1, IF value THEN 1 ELSE 0)>>
    [] type.kind = "string" -> WriteString(value)
    [] type.kind = "url"    -> WriteString(<<[url |-> value]>>)
    [] type.kind = "buffer" -> WriteBuffer(type.width, value)
    [] type.kind = "list"   ->
         <<Number(4, Len(value))>> \o FlattenSeq([i \in DOMAIN value |-> WriteValue(type.item, value[i])])
    [] type.kind = "map"    ->
         <<Number(4, Len(value))>> \o
         FlattenSeq([i \in DOMAIN value |-> WriteValue(type.key, value[i][1]) \o WriteValue(type.value, value[i][2])])
    [] type.kind = "struct" ->
         FlattenSeq([i \in DOMAIN type.fields |-> WriteValue(type.fields[i].type, value[type.fields[i].name])])
    [] type.kind = "variant" ->
         <<Number(1, value.tag)>> \o WriteValue(VariantTypes[value.tag + 1], value.value)
    [] type.kind = "any"    ->
         WriteString(value.typeName) \o WriteBuffer(4, WriteBuffer(4, value.data))

RECURSIVE ReadValue(_, _), ReadAll(_, _)
ReadValue(type, cells) ==
  CASE type.kind = "scalar" -> ReadNumber(type.width, cells)
    [] type.kind = "bool"   -> Then(ReadNumber(1, cells), LAMBDA n, rest : Got(n # 0, rest))
    [] type.kind = "string" -> ReadString(cells)
    [] type.kind = "url"    -> ReadURL(cells)
    [] type.kind = "buffer" -> ReadBuffer(type.width, cells)
    [] type.kind = "list"   ->
         Then(ReadNumber(4, cells), LAMBDA n, rest : ReadAll([i \in 1 .. n |-> type.item], rest))
    [] type.kind = "map"    ->
         Then(ReadNumber(4, cells), LAMBDA n, rest :
           Then(ReadAll([i \in 1 .. 2 * n |-> IF i % 2 = 1 THEN type.key ELSE type.value], rest),
                LAMBDA values, after : Got(AsEntries(values), after)))
    [] type.kind = "struct" ->
         LET fields == type.fields
             names  == {fields[i].name : i \in DOMAIN fields}
         IN  Then(ReadAll([i \in DOMAIN fields |-> fields[i].type], cells), LAMBDA values, rest :
               Got([n \in names |-> values[CHOOSE i \in DOMAIN fields : fields[i].name = n]], rest))
    [] type.kind = "variant" ->
         Then(ReadNumber(1, cells), LAMBDA tag, rest :
           IF tag + 1 \notin DOMAIN VariantTypes THEN Missing
           ELSE Then(ReadValue(VariantTypes[tag + 1], rest), LAMBDA value, after :
                  Got([tag |-> tag, value |-> value], after)))
    [] type.kind = "any"    ->
         Then(ReadString(cells), LAMBDA typeName, afterName :
           Then(ReadBuffer(4, afterName), LAMBDA outer, rest :
             Then(ReadBuffer(4, outer), LAMBDA data, after :
               Got([typeName |-> typeName, data |-> data], rest))))

ReadAll(types, cells) ==
  IF types = << >> THEN Got(<< >>, cells)
  ELSE Then(ReadValue(Head(types), cells), LAMBDA first, rest :
         Then(ReadAll(Tail(types), rest), LAMBDA others, after : Got(<<first>> \o others, after)))
==============================================================================
