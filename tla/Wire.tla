-------------------------------- MODULE Wire --------------------------------
(***************************************************************************)
(* The Thrift codec that Kitex has generated for every struct of the IDL:  *)
(* one schema per struct, and one reader and one writer that follow it.    *)
(* A struct on the wire is a function from field ids to typed payloads:    *)
(* the order of the fields is the writer's affair, since FastRead loops    *)
(* over them until STOP and takes them in any order.                       *)
(***************************************************************************)
EXTENDS Integers, Sequences, FiniteSets

CONSTANT Nil    \* a nil pointer to a string or a number

(* A nil pointer to a struct is the struct without fields, a nil slice or  *)
(* map the empty one.                                                      *)
Null == <<>>

-----------------------------------------------------------------------------
TBool == [kind |-> "BOOL"]
TI32 == [kind |-> "I32"]
TI64 == [kind |-> "I64"]
TDouble == [kind |-> "DOUBLE"]
TString == [kind |-> "STRING"]
TStruct(schema) == [kind |-> "STRUCT", schema |-> schema]
TList(type) == [kind |-> "LIST", of |-> type]
TMap(type) == [kind |-> "MAP", of |-> type]

Field(id, type) == [id |-> id, type |-> type, optional |-> FALSE]
Optional(id, type) == [id |-> id, type |-> type, optional |-> TRUE]

(* The value of a field that does not come.                                *)
InitDefault(field) ==
    LET kind == field.type.kind IN
    IF kind \in {"STRUCT", "LIST", "MAP"} THEN Null
    ELSE IF field.optional THEN Nil
    ELSE CASE kind = "STRING" -> ""
           [] kind = "BOOL" -> FALSE
           [] OTHER -> 0

(* The structs within a value of this type, each written or read by Code.  *)
Through(Code(_, _), type, x) ==
    CASE type.kind = "STRUCT" -> Code(type.schema, x)
      [] type.kind = "LIST" /\ type.of.kind = "STRUCT" ->
            [i \in DOMAIN x |-> Code(type.of.schema, x[i])]
      [] OTHER -> x

-----------------------------------------------------------------------------
(* An optional field that is nil is left out.                              *)
Present(schema, v) ==
    { n \in DOMAIN v : schema[n].optional => v[n] # InitDefault(schema[n]) }

(* The payloads of the fields of v, and the fields that a writer of a      *)
(* newer version adds to every struct that is not nil.                     *)
Struct(newer, schema, v, payload) ==
    LET ids == { schema[n].id : n \in Present(schema, v) }
        Of(i) == CHOOSE n \in Present(schema, v) : schema[n].id = i
    IN [i \in ids \cup { id \in newer : DOMAIN v # {} } |->
            IF i \in ids THEN [ttype |-> schema[Of(i)].type.kind, payload |-> payload[Of(i)]]
            ELSE [ttype |-> "STRING", payload |-> "added"]]

(* The structs of the IDL are four deep: the arguments of a method, its    *)
(* request, the struct in it, and the Base in that.                        *)
Write1(newer, schema, v) == Struct(newer, schema, v, v)

WriteFields(Write(_, _, _), newer, schema, v) ==
    Struct(newer, schema, v,
        [n \in DOMAIN v |-> Through(LAMBDA s, x : Write(newer, s, x), schema[n].type, v[n])])

Write2(newer, schema, v) == WriteFields(Write1, newer, schema, v)
Write3(newer, schema, v) == WriteFields(Write2, newer, schema, v)
FastWrite(newer, schema, v) == WriteFields(Write3, newer, schema, v)

-----------------------------------------------------------------------------
(* A field that the schema does not have, or has with another type, is     *)
(* skipped.                                                                *)
Came(schema, w) ==
    { n \in DOMAIN schema :
        schema[n].id \in DOMAIN w /\ w[schema[n].id].ttype = schema[n].type.kind }

ReadFields(Read(_, _), schema, w) ==
    [n \in DOMAIN schema |->
        IF n \in Came(schema, w) THEN Through(Read, schema[n].type, w[schema[n].id].payload)
        ELSE InitDefault(schema[n])]

Read1(schema, w) == ReadFields(LAMBDA s, x : x, schema, w)
Read2(schema, w) == ReadFields(Read1, schema, w)
Read3(schema, w) == ReadFields(Read2, schema, w)
FastRead(schema, w) == ReadFields(Read3, schema, w)

=============================================================================
