------------------------------- MODULE Schemas -------------------------------
(***************************************************************************)
(* Descriptions of wire types, the Codec objects of the code, and of RMC   *)
(* protocols.  Wire tells how a value of such a type is written and read.  *)
(***************************************************************************)

Scalar(width) == [kind |-> "scalar", width |-> width]

U8 == Scalar(1)
U16 == Scalar(2)
U32 == Scalar(4)
U64 == Scalar(8)
I8 == Scalar(1)
I16 == Scalar(2)
I32 == Scalar(4)
I64 == Scalar(8)
F64 == Scalar(8)
Bool == [kind |-> "bool"]

String == [kind |-> "string"]
Buffer == [kind |-> "buffer", width |-> 4]

List(item) == [kind |-> "list", item |-> item]
MapOf(key, value) == [kind |-> "map", key |-> key, value |-> value]

\* The fields of a struct, in the order of their declaration.
F(name, type) == [name |-> name, type |-> type]
Struct(fields) == [kind |-> "struct", fields |-> fields]

QResult == U32
DateTime == U64
StationURL == [kind |-> "url"]
AnyData == [kind |-> "any"]
Property == Struct(<<F("id", U32), F("value", U32)>>)
ResultRange == Struct(<<F("offset", U32), F("size", U32)>>)

\* A tag, its index less one, and the value of its type.
VariantTypes == <<Struct(<< >>), I64, F64, Bool, String, DateTime, U64>>
Variant == [kind |-> "variant"]
PropertyVariant == Struct(<<F("id", U32), F("value", Variant)>>)

Method(key, request, response) == [key |-> key, request |-> request, response |-> response]

Protocol(id, methods) == [id |-> id, methods |-> methods]
==============================================================================
