-------------------------------- MODULE Wire --------------------------------
(* Protocol messages between three implementations of one encoding: the contracts'
   generated classes, the clients' encoder (SDK canonicalisation in front of the
   protobuf runtime of the extension, which avoids generated code) and the indexer's
   decoder. A message is written by a client or a contract, may be read and written
   again by a contract of an older version (a stored record), and is read by a client,
   a contract or the indexer, which may be older too.

   On the wire a message is the sequence of its entries: field number, wire type (0 a
   varint, 2 a length and bytes) and payload, nested messages being sequences again.
   Bytes and strings are "empty" or "data", addresses included: how the SDK shows an
   address is left out. Integers are as wide as MaxU32 and MaxU64. *)
EXTENDS WireTypes, FiniteSetsExt, SequencesExt

CONSTANTS Null,          \* a null reference, or an undefined property
          Garbled,       \* what a contract makes of bytes it splits wrongly
          MaxU32, MaxU64 \* the largest 32- and 64-bit integers, scaled down

ASSUME Widths == MaxU32 \in Nat \ {0} /\ MaxU64 \in Nat /\ MaxU32 < MaxU64

Identity == INSTANCE IdentityWire
Social == INSTANCE SocialWire
Publications == INSTANCE PublicationsWire
Governance == INSTANCE GovernanceWire
Between == INSTANCE CallWire
Sdk == INSTANCE SdkTypes

(* Callers send the arguments of a contract's methods, contracts all the rest. *)
Arguments == UNION {Identity!Arguments, Social!Arguments, Publications!Arguments,
    Governance!Arguments}

Outputs == UNION {Identity!Outputs, Social!Outputs, Publications!Outputs, Governance!Outputs}

(* What contracts write to each other, as the writer has it. *)
Calls == {call.writer : call \in Between!Calls}

VARIABLES schema,   \* the type of the message under way
          stage,    \* "start", "refused", "written", "rewritten" or "read"
          origin,   \* who wrote it first: "client" or "contract"
          sent,     \* what the writer meant
          known,    \* the field numbers everybody it went through knew
          wire,     \* its bytes
          readers,  \* who read it
          seen      \* what the reader made of it
vars == <<schema, stage, origin, sent, known, wire, readers, seen>>

Fields(s) == {s[i] : i \in DOMAIN s}
Names(s) == {f.name : f \in Fields(s)}
Ids(s) == {f.id : f \in Fields(s)}
FieldNamed(s, name) == CHOOSE f \in Fields(s) : f.name = name

(* A 32-bit integer is cut to its width wherever one is read or converted. *)
Cut(v) == IF v = Garbled THEN v ELSE v % (MaxU32 + 1)

Varint(f) == f.kind \in {"uint32", "uint64", "bool", "enum"}
WireType(f) == IF Varint(f) THEN 0 ELSE 2

(* What a message states: a value at the path of field numbers that leads to it. Values
   a field has by default are not stated; a nested message is, even if it is empty. *)
DefaultOf(f) ==
    CASE f.kind = "bool" -> FALSE
      [] f.kind \in {"uint32", "uint64", "enum"} -> 0
      [] OTHER -> "empty"

RECURSIVE Facts(_, _)
Facts(s, o) ==
    LET Under(id, facts) == {<<<<id>> \o x[1], x[2]>> : x \in facts}
        Stated(f, v) == IF f.kind = "message" THEN Facts(f.of, v) \cup {<<<<>>, "present">>}
                        ELSE {<<<<>>, v>>}
        Of(f) ==
            LET v == o[f.name] IN
            IF f.rep THEN UNION {Under(i, Stated(f, v[i])) : i \in DOMAIN v}
            ELSE IF v = Null \/ (f.kind # "message" /\ v = DefaultOf(f)) THEN {}
            ELSE Stated(f, v)
    IN UNION {Under(f.id, Of(f)) : f \in {g \in Fields(s) : g.name \in DOMAIN o}}

-----------------------------------------------------------------------------
(* The contracts: the generated encode and decode. *)

(* What the constructor of a generated class puts in a field. *)
Initial(f) ==
    CASE f.rep -> <<>>
      [] ~f.rep /\ Varint(f) -> DefaultOf(f)
      [] OTHER -> Null

(* References are written unless null, so an empty one is; numbers unless zero. *)
RECURSIVE AsEncode(_, _)
AsEncode(s, m) ==
    LET Entry(f, v) ==
            [id |-> f.id, wt |-> WireType(f),
             v |-> IF f.kind = "message" THEN AsEncode(f.of, v) ELSE v]
        Entries(f) ==
            LET v == m[f.name] IN
            IF f.rep THEN [i \in DOMAIN v |-> Entry(f, v[i])]
            ELSE IF v = Initial(f) THEN <<>> ELSE <<Entry(f, v)>>
    IN FlattenSeq([i \in DOMAIN s |-> Entries(s[i])])

(* Entries with an unknown number are skipped by their wire type, the others read by
   their number alone: a packed list is taken for one element, its length, and its
   elements for tags of further entries. *)
RECURSIVE AsDecode(_, _)
AsDecode(s, w) ==
    LET Value(f, e) == CASE f.kind = "message" -> AsDecode(f.of, e.v)
                         [] f.kind = "uint32" -> Cut(e.v)
                         [] OTHER -> e.v
        Read(m, e) ==
            IF e.id \notin Ids(s) THEN m
            ELSE LET f == CHOOSE g \in Fields(s) : g.id = e.id
                     v == IF e.wt # WireType(f) THEN Garbled ELSE Value(f, e)
                 IN [m EXCEPT ![f.name] = IF f.rep THEN Append(@, v) ELSE v]
    IN FoldLeft(Read, [n \in Names(s) |-> Initial(FieldNamed(s, n))], w)

-----------------------------------------------------------------------------
(* The clients: SDK objects, whose properties may be missing, and the runtime. *)

(* Integers out of the range of their field are refused. *)
RECURSIVE InRange(_, _)
InRange(s, o) ==
    LET Fits(f, v) == CASE f.kind = "message" -> InRange(f.of, v)
                        [] f.kind = "uint32" -> v \in 0..MaxU32
                        [] f.kind = "uint64" -> v \in 0..MaxU64
                        [] OTHER -> TRUE
    IN \A f \in Fields(s) : f.name \in DOMAIN o /\ o[f.name] # Null =>
           IF f.rep THEN \A i \in DOMAIN o[f.name] : Fits(f, o[f.name][i])
           ELSE Fits(f, o[f.name])

(* Slip: nested messages are taken as they are given. *)
CanonicalizeShallow(s, o) ==
    LET Kept(f) == /\ f.name \in DOMAIN o
                   /\ o[f.name] # Null
                   /\ IF f.rep THEN o[f.name] # <<>>
                      ELSE f.kind = "message" \/ o[f.name] # DefaultOf(f)
    IN [n \in {f.name : f \in {g \in Fields(s) : Kept(g)}} |-> o[n]]

(* Only the fields that are set and not at their default are kept. *)
RECURSIVE canonicalize(_, _)
canonicalize(s, o) ==
    LET Normalized(f, v) == IF f.kind = "message" THEN canonicalize(f.of, v) ELSE v
        Kept(f) == /\ f.name \in DOMAIN o
                   /\ o[f.name] # Null
                   /\ IF f.rep THEN o[f.name] # <<>>
                      ELSE f.kind = "message" \/ o[f.name] # DefaultOf(f)
    IN [n \in {f.name : f \in {g \in Fields(s) : Kept(g)}} |->
           LET f == FieldNamed(s, n) IN
           IF f.rep THEN [i \in DOMAIN o[n] |-> Normalized(f, o[n][i])]
           ELSE Normalized(f, o[n])]

(* The constructor of a message: its lists are there, nothing else is. *)
plainConstructor(s) == [n \in {f.name : f \in {g \in Fields(s) : g.rep}} |-> <<>>]

(* Integers are cut to 32 bits, 64-bit ones taken as they are. *)
RECURSIVE fromObject(_, _)
fromObject(s, d) ==
    LET Converted(f, v) == CASE f.kind = "message" -> fromObject(f.of, v)
                             [] f.kind = "uint32" -> Cut(v)
                             [] OTHER -> v
    IN [n \in DOMAIN d |->
           LET f == FieldNamed(s, n) IN
           IF f.rep THEN [i \in DOMAIN d[n] |-> Converted(f, d[n][i])]
           ELSE Converted(f, d[n])] @@ plainConstructor(s)

sortedFields(s) ==
    FlattenSeq([i \in 1..Max(Ids(s) \cup {0}) |-> SelectSeq(s, LAMBDA f : f.id = i)])

(* Every property of the message that is set is written, lists of numbers packed. *)
RECURSIVE encodeMessage(_, _)
encodeMessage(s, m) ==
    LET Entry(f, v) ==
            [id |-> f.id, wt |-> WireType(f),
             v |-> IF f.kind = "message" THEN encodeMessage(f.of, v) ELSE v]
        Entries(f) ==
            IF f.name \notin DOMAIN m THEN <<>>
            ELSE LET v == m[f.name] IN
                 IF ~f.rep THEN <<Entry(f, v)>>
                 ELSE IF v = <<>> THEN <<>>
                 ELSE IF Varint(f) THEN <<[id |-> f.id, wt |-> 2, v |-> v]>>
                 ELSE [i \in DOMAIN v |-> Entry(f, v[i])]
        ordered == sortedFields(s)
    IN FlattenSeq([i \in DOMAIN ordered |-> Entries(ordered[i])])

encode(s, o) == encodeMessage(s, fromObject(s, canonicalize(s, o)))

(* The arguments of a call go through koilib, which is given the canonical object in text
   form and makes a message of it without converting numbers. *)
toKoilibJson(s, o) == canonicalize(s, o)
serialize(s, json) == encodeMessage(s, json @@ plainConstructor(s))
operation(s, o) == serialize(s, toKoilibJson(s, o))

(* Lists of numbers are accepted packed and one by one. *)
RECURSIVE decodeMessage(_, _)
decodeMessage(s, w) ==
    LET Value(f, v) == CASE f.kind = "message" -> decodeMessage(f.of, v)
                         [] f.kind = "uint32" -> Cut(v)
                         [] OTHER -> v
        Put(m, n, v) == [x \in DOMAIN m \cup {n} |-> IF x = n THEN v ELSE m[x]]
        Read(m, e) ==
            IF e.id \notin Ids(s) THEN m
            ELSE LET f == CHOOSE g \in Fields(s) : g.id = e.id IN
                 IF ~f.rep THEN Put(m, f.name, Value(f, e.v))
                 ELSE IF Varint(f) /\ e.wt = 2 THEN Put(m, f.name, m[f.name] \o e.v)
                 ELSE Put(m, f.name, Append(m[f.name], Value(f, e.v)))
    IN FoldLeft(Read, plainConstructor(s), w)

(* Slip: the defaults of the message itself are filled in, not those of the messages in it. *)
ToObjectShallow(s, m, first) ==
    LET Default(f) == CASE f.rep -> <<>>
                        [] ~f.rep /\ f.kind = "message" -> Null
                        [] ~f.rep /\ f.kind = "enum" -> first
                        [] OTHER -> DefaultOf(f)
    IN [n \in Names(s) |-> IF n \in DOMAIN m THEN m[n] ELSE Default(FieldNamed(s, n))]

(* The SDK's plain object: every field is there, missing ones at the default of their
   type, which for an enum is the first value the descriptor lists. *)
RECURSIVE toObject(_, _, _)
toObject(s, m, first) ==
    LET Shown(f, v) == IF f.kind = "message" THEN toObject(f.of, v, first) ELSE v
        Default(f) == CASE f.rep -> <<>>
                        [] ~f.rep /\ f.kind = "message" -> Null
                        [] ~f.rep /\ f.kind = "enum" -> first
                        [] OTHER -> DefaultOf(f)
    IN [n \in Names(s) |->
           LET f == FieldNamed(s, n) IN
           IF n \notin DOMAIN m THEN Default(f)
           ELSE IF f.rep THEN [i \in DOMAIN m[n] |-> Shown(f, m[n][i])]
           ELSE Shown(f, m[n])]

(* Absent nested messages are deleted from the object. *)
RECURSIVE normalizeDecoded(_, _)
normalizeDecoded(s, o) ==
    LET Converted(f, v) == IF f.kind = "message" THEN normalizeDecoded(f.of, v) ELSE v
    IN [n \in {x \in DOMAIN o : o[x] # Null} |->
           LET f == FieldNamed(s, n) IN
           IF f.rep THEN [i \in DOMAIN o[n] |-> Converted(f, o[n][i])]
           ELSE Converted(f, o[n])]

decode(s, w, first) == normalizeDecoded(s, toObject(s, decodeMessage(s, w), first))

(* Slip: only the event itself is corrected, not the messages in it. *)
FixTopLevel(s, m, o) ==
    [n \in DOMAIN o |->
        LET f == FieldNamed(s, n) IN
        IF f.kind = "enum" /\ ~f.rep /\ n \notin DOMAIN m THEN 0 ELSE o[n]]

(* The indexer sets an enum that is not on the wire back to 0, at every depth. *)
RECURSIVE fixEnumDefaults(_, _, _)
fixEnumDefaults(s, m, o) ==
    [n \in DOMAIN o |->
        LET f == FieldNamed(s, n) IN
        CASE f.kind = "enum" /\ ~f.rep /\ n \notin DOMAIN m -> 0
          [] f.kind = "message" /\ f.rep ->
                 [i \in DOMAIN o[n] |-> fixEnumDefaults(f.of, m[n][i], o[n][i])]
          [] f.kind = "message" /\ ~f.rep -> fixEnumDefaults(f.of, m[n], o[n])
          [] OTHER -> o[n]]

decodeProtocolEvent(s, w, first) == fixEnumDefaults(s, decodeMessage(s, w), decode(s, w, first))

-----------------------------------------------------------------------------
(* Inputs: one field set in each way its kind allows, or none, or all, or all but one. *)
RECURSIVE FullObject(_)
FullObject(s) ==
    LET Some(f) == CASE f.kind \in {"bytes", "string"} -> "data"
                     [] f.kind = "bool" -> TRUE
                     [] f.kind = "enum" -> 1
                     [] f.kind = "uint32" -> MaxU32
                     [] f.kind = "uint64" -> MaxU64
                     [] OTHER -> FullObject(f.of)
    IN [n \in Names(s) |-> LET f == FieldNamed(s, n) IN
                           IF f.rep THEN <<Some(f), Some(f)>> ELSE Some(f)]

Defaults(s) == [n \in Names(s) |->
    LET f == FieldNamed(s, n) IN
    IF f.rep THEN <<>> ELSE IF f.kind = "message" THEN Null ELSE DefaultOf(f)]

Values(f) ==
    LET One == CASE f.kind \in {"bytes", "string"} -> {"empty", "data"}
                 [] f.kind = "bool" -> BOOLEAN
                 [] f.kind = "enum" -> {0, 1, Cardinality(f.values)}
                 [] f.kind = "uint32" -> {0, MaxU32, MaxU32 + 1}
                 [] f.kind = "uint64" -> {0, MaxU64, MaxU64 + 1}
                 [] OTHER -> {<<>>, Defaults(f.of), FullObject(f.of)}
    IN IF f.rep THEN {<<>>} \cup {<<v>> : v \in One} ELSE {Null} \cup One

Objects(s) ==
    LET full == FullObject(s) IN
    {<<>>, full} \cup {[n \in Names(s) \ {x} |-> full[n]] : x \in Names(s)} \cup
    UNION {{[n \in {f.name} |-> v] : v \in Values(f)} : f \in Fields(s)}

(* The same content as an instance of the generated class: every field is there. *)
RECURSIVE Instance(_, _)
Instance(s, o) ==
    LET Nested(f, v) == IF f.kind = "message" THEN Instance(f.of, v) ELSE v
    IN [n \in Names(s) |->
           LET f == FieldNamed(s, n) IN
           IF n \notin DOMAIN o \/ (~f.rep /\ o[n] = Null) THEN Initial(f)
           ELSE IF f.rep THEN [i \in DOMAIN o[n] |-> Nested(f, o[n][i])]
           ELSE Nested(f, o[n])]

(* What the SDK makes a field's value of, or takes for it. *)
Holds(kind) ==
    CASE kind = "text" -> {"string", "bytes", "uint64"}
      [] kind \in {"address", "octets"} -> {"bytes"}
      [] kind = "number" -> {"uint32", "enum"}
      [] kind = "wide" -> {"uint64"}
      [] kind = "flag" -> {"bool"}
      [] OTHER -> {"message"}

Stands(f, m) == f.name = m.name /\ f.rep = m.list /\ f.kind \in Holds(m.kind)

(* The members of a type that no field stands for. *)
RECURSIVE Unheard(_, _)
Unheard(type, s) ==
    {m \in type : \A f \in Fields(s) : ~Stands(f, m) \/ Unheard(m.of, f.of) # {}}

(* An object of a type, all its members set, or only those it must have. *)
RECURSIVE TypedObject(_, _)
TypedObject(members, whole) ==
    LET Some(m) == CASE m.kind \in {"address", "octets", "text"} -> "data"
                     [] m.kind = "number" -> MaxU32
                     [] m.kind = "wide" -> MaxU64
                     [] m.kind = "flag" -> TRUE
                     [] OTHER -> TypedObject(m.of, whole)
        given == {m \in members : whole \/ ~m.optional}
    IN [n \in {m.name : m \in given} |->
           LET m == CHOOSE g \in given : g.name = n IN
           IF m.list THEN <<Some(m)>> ELSE Some(m)]

(* An older version of a type lacks its last field. *)
Versions(s) == {s} \cup {SubSeq(s, 1, k) : k \in {Len(s) - 1} \cap Nat}

-----------------------------------------------------------------------------
Init ==
    /\ schema \in Arguments \cup Outputs \cup Calls
    /\ stage = "start" /\ origin = "none" /\ sent = {} /\ wire = <<>>
    /\ known = Ids(schema) /\ readers = {} /\ seen = <<>>

Write(who, o, bytes) ==
    /\ stage = "start"
    /\ stage' = "written" /\ origin' = who /\ sent' = Facts(schema, o) /\ wire' = bytes
    /\ UNCHANGED <<schema, known, readers, seen>>

ClientWrites ==
    /\ schema \in Arguments
    /\ \E o \in Objects(schema) :
           /\ InRange(schema, o)
           /\ \/ Write("client", o, encode(schema, o))
              \/ Write("client", o, operation(schema, o))

(* The program gives an object of the type the SDK has for the method; a member of it
   that no field stands for counts as said under number 0, which nobody reads. *)
TypedWrites ==
    \E t \in Sdk!TypedArguments, whole \in BOOLEAN :
        LET o == TypedObject(t.type, whole) IN
        /\ stage = "start" /\ t.schema = schema
        /\ stage' = "written" /\ origin' = "client" /\ wire' = operation(schema, o)
        /\ sent' = Facts(schema, o) \cup
                   {<<<<0>>, m.name>> : m \in {n \in Unheard(t.type, schema) : n.name \in DOMAIN o}}
        /\ UNCHANGED <<schema, known, readers, seen>>

ContractWrites ==
    /\ schema \in Outputs \cup Calls
    /\ \E o \in Objects(schema) :
           InRange(schema, o) /\ Write("contract", o, AsEncode(schema, Instance(schema, o)))

ClientRefuses ==
    /\ stage = "start" /\ schema \in Arguments
    /\ \E o \in Objects(schema) : ~InRange(schema, o)
    /\ stage' = "refused"
    /\ UNCHANGED <<schema, origin, sent, known, wire, readers, seen>>

(* A contract passes on what it read: a stored record it stores again, arguments that go
   into a record or an event. *)
ContractRewrites ==
    /\ stage = "written"
    /\ \E version \in Versions(schema) :
           /\ wire' = AsEncode(version, AsDecode(version, wire))
           /\ known' = Ids(version)
    /\ stage' = "rewritten" /\ readers' = {"contract"}
    /\ UNCHANGED <<schema, origin, sent, seen>>

Read(who, version, message) ==
    /\ stage \in {"written", "rewritten"}
    /\ seen' = message
    /\ stage' = "read" /\ readers' = readers \cup {who} /\ known' = known \cap Ids(version)
    /\ UNCHANGED <<schema, origin, sent, wire>>

ContractReads ==
    \E version \in Versions(schema) : Read("contract", version, AsDecode(version, wire))

(* The contract that is called, or that called, reads with its own copy. *)
PeerReads ==
    \E call \in Between!Calls :
        /\ stage = "written" /\ origin = "contract" /\ call.writer = schema
        /\ Read("contract", call.reader, AsDecode(call.reader, wire))

ClientReads ==
    \E version \in Versions(schema) : Read("client", version, decode(version, wire, 0))

(* A sponsor looks into the calls it is to pay for. *)
decodeOperation(s, w) == decode(s, w, 0)
SponsorReads ==
    /\ stage = "written" /\ schema \in Arguments
    /\ \E version \in Versions(schema) : Read("sponsor", version, decodeOperation(version, wire))

(* The descriptors the indexer decodes with may list the values of an enum in any order. *)
IndexerReads ==
    \E version \in Versions(schema), first \in {0, 1} :
        Read("indexer", version, decodeProtocolEvent(version, wire, first))

Next == ClientWrites \/ TypedWrites \/ ContractWrites \/ ClientRefuses \/ ContractRewrites
        \/ ContractReads \/ PeerReads \/ ClientReads \/ SponsorReads
        \/ IndexerReads

Spec == Init /\ [][Next]_vars

-----------------------------------------------------------------------------
RECURSIVE HasNumberList(_)
HasNumberList(s) == \E f \in Fields(s) : (f.rep /\ Varint(f)) \/ HasNumberList(f.of)

PackedForContract ==
    HasNumberList(schema) /\ origin = "client" /\ "contract" \in readers

(* Whatever the writer meant in fields that everybody on the way knew, and nothing else,
   is what the reader understands: encode and decode of the contracts' classes, of the
   SDK and of the extension's runtime agree, so do the copies of a class that contracts
   call each other with, fields of newer versions are skipped and an
   absent enum is 0 under any descriptor (decode.ts). Lists of numbers from a client to a
   contract are the exception (ContractReadsClient). *)
RoundTrip ==
    stage = "read" /\ ~PackedForContract =>
        Facts(schema, seen) = {x \in sent : x[1][1] \in known \cup {0}}

RECURSIVE Complete(_, _, _)
Complete(type, s, o) ==
    \A m \in type : \E f \in Fields(s) :
        /\ Stands(f, m)
        /\ IF m.kind # "object" THEN m.optional \/ m.name \in DOMAIN o
           ELSE m.name \in DOMAIN o =>
                    IF m.list THEN \A i \in DOMAIN o[m.name] : Complete(m.of, f.of, o[m.name][i])
                    ELSE Complete(m.of, f.of, o[m.name])

(* A client that decodes an answer or an event finds every scalar its type promises, at
   every depth, though the sender omits what is at its default (types.ts: "Decoded results
   always carry every scalar field"). *)
ResultsTyped ==
    stage = "read" /\ "client" \in readers /\ known = Ids(schema) =>
        \A t \in Sdk!TypedOutputs : t.schema = schema => Complete(t.type, schema, seen)

RECURSIVE Canonical(_, _)
Canonical(s, w) ==
    \A i \in DOMAIN w :
        LET f == CHOOSE g \in Fields(s) : g.id = w[i].id IN
        /\ \A j \in 1..i - 1 : w[j].id < w[i].id \/ (f.rep /\ w[j].id = w[i].id)
        /\ CASE f.kind = "message" -> Canonical(f.of, w[i].v)
             [] OTHER -> f.rep \/ w[i].v # DefaultOf(f)

(* What a client writes is canonical (fields ascending, defaults omitted; encoding.ts),
   and stays so when contracts store it again: hashes and signatures over it hold. *)
CanonicalBytes ==
    stage \in {"written", "rewritten"} /\ origin = "client" /\ ~PackedForContract =>
        Canonical(schema, wire)

(* A contract reads from a client's message what the client meant (protocol-spec.md:46
   gives both the same encoding). Not so for lists of numbers: the client packs them. *)
ContractReadsClient ==
    stage = "read" /\ origin = "client" /\ readers = {"contract"} =>
        Facts(schema, seen) = {x \in sent : x[1][1] \in known}
=============================================================================
