------------------------------ MODULE WireTypes ------------------------------
(* How the wire schemas are written: a message is the sequence of its fields, a field
   its number, its name and what it holds. *)
EXTENDS Integers, Sequences

Field(id, name, kind) ==
    [id |-> id, name |-> name, kind |-> kind, rep |-> FALSE, of |-> <<>>, values |-> {}]

Bytes(id, name) == Field(id, name, "bytes")
String(id, name) == Field(id, name, "string")
U32(id, name) == Field(id, name, "uint32")
U64(id, name) == Field(id, name, "uint64")
Bool(id, name) == Field(id, name, "bool")
Enum(id, name, values) == [Field(id, name, "enum") EXCEPT !.values = values]
Msg(id, name, schema) == [Field(id, name, "message") EXCEPT !.of = schema]
Repeated(field) == [field EXCEPT !.rep = TRUE]
=============================================================================
