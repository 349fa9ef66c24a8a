------------------------------- MODULE Schema -------------------------------
(***************************************************************************)
(* subdex-codegen's front end: a schema.graphql document (parse.rs) and    *)
(* the entity model it becomes (model.rs).                                 *)
(*                                                                         *)
(* A document is a sequence of type definitions [kind, name, fields]: an   *)
(* "entity", an "enum" (whose fields are its values), or another "object". *)
(* A field is [name, type, list, nonNull, derived, index, unique].  The    *)
(* GraphQL syntax is the parser library's.                                 *)
(***************************************************************************)
EXTENDS Naturals, Sequences, FiniteSets

CONSTANTS
  None,       \* no error
  Snake,      \* [identifier -> its snake_case]
  TableName   \* [entity name -> its snake_case plural]

\* The errors of parse_schema.
ErrorKinds == {"DuplicateEntity", "NoEntities", "DuplicateField", "UnknownType",
               "ListNotSupported", "NullableId", "MissingId"}

ASSUME SchemaAssumption == None \notin ErrorKinds

\* The built-in scalars, under every spelling that names one.
Scalars == {"ID", "String", "Int", "BigInt", "Float", "Boolean", "DateTime",
            "Bytes", "JSON", "JSONObject"}

\* Scalar::from_graphql: two spellings are one scalar.
Scalar(type) == IF type = "JSONObject" THEN "JSON" ELSE type

\* Scalar::rust_type.
RustScalar(s) ==
  CASE s \in {"ID", "String", "BigInt", "Bytes"} -> "String"
    [] s = "Int"      -> "i32"
    [] s = "Float"    -> "f64"
    [] s = "Boolean"  -> "bool"
    [] s = "DateTime" -> "i64"
    [] s = "JSON"     -> "Value"

\* Scalar::pg_type.
PgScalar(s) ==
  CASE s \in {"ID", "String", "Bytes"} -> "TEXT"
    [] s = "Int"      -> "INTEGER"
    [] s = "BigInt"   -> "NUMERIC"
    [] s = "Float"    -> "DOUBLE_PRECISION"
    [] s = "Boolean"  -> "BOOLEAN"
    [] s = "DateTime" -> "BIGINT"
    [] s = "JSON"     -> "JSONB"

\* Field::rust_type and Field::pg_type, with the array as a flag: an enum or a
\* relation is carried as a string.
Holds(f) == IF f.kind \in {"scalar", "list"} THEN f.of ELSE "String"

RustType(f) == [list |-> f.kind = "list", of |-> RustScalar(Holds(f))]
PgType(f)   == [list |-> f.kind = "list", of |-> PgScalar(Holds(f))]

-----------------------------------------------------------------------------
(* Pass 1: the names that field types are resolved against.                *)

Entities(doc) == {i \in DOMAIN doc : doc[i].kind = "entity"}
Enums(doc) == {i \in DOMAIN doc : doc[i].kind = "enum"}

NamesOf(doc, defs) == {doc[i].name : i \in defs}

-----------------------------------------------------------------------------
(* Pass 2: one field.                                                      *)

\* What a field of a storable type holds.
FieldKind(doc, f) ==
  IF f.list THEN "list"
  ELSE IF f.type \in Scalars THEN "scalar"
  ELSE IF f.type \in NamesOf(doc, Enums(doc)) THEN "enum"
  ELSE "relation"

Faulty_Known(doc, f) ==   \* any declared type, @entity or not
  f.type \in Scalars \cup NamesOf(doc, DOMAIN doc)

Known(doc, f) ==
  f.type \in Scalars \cup NamesOf(doc, Enums(doc)) \cup NamesOf(doc, Entities(doc))

\* A field that becomes a column.
Stored(f) == ~f.derived

Columned(def) == {k \in DOMAIN def.fields : Stored(def.fields[k])}

ParsedField(doc, f) ==
  [name |-> f.name, column |-> Snake[f.name],
   kind |-> FieldKind(doc, f), of |-> Scalar(f.type),
   nullable |-> ~f.nonNull, indexed |-> f.index, unique |-> f.unique,
   is_id |-> f.name = "id"]

\* An earlier field of the same entity that was kept under the same name.
Faulty_Repeated(fields, k) ==   \* off by one
  \E j \in 1..(k-2) : Stored(fields[j]) /\ fields[j].name = fields[k].name

Repeated(fields, k) ==
  \E j \in 1..(k-1) : Stored(fields[j]) /\ fields[j].name = fields[k].name

\* The errors of field k, in the order parse_schema looks for them.
FieldErrors(doc, fields, k) ==
  LET f == fields[k]
  IN  << IF Repeated(fields, k) THEN "DuplicateField" ELSE None,
         IF Stored(f) /\ ~f.list /\ ~Known(doc, f) THEN "UnknownType" ELSE None,
         IF Stored(f) /\ f.list /\ f.type \notin Scalars
         THEN "ListNotSupported" ELSE None,
         IF Stored(f) /\ f.name = "id" /\ ~f.nonNull THEN "NullableId" ELSE None >>

HasId(fields) == \E k \in DOMAIN fields : Stored(fields[k]) /\ fields[k].name = "id"

-----------------------------------------------------------------------------
(* parse_schema.                                                           *)

\* The errors of a document, each at the place where it is met: all of pass 1
\* before pass 2, then definition by definition and field by field.
Problems(doc) ==
  {[at |-> <<1, i, 0, 0>>, error |-> "DuplicateEntity"] :
     i \in {n \in Entities(doc) : \E j \in Entities(doc) :
              j < n /\ doc[j].name = doc[n].name}}
  \cup {[at |-> <<2, 0, 0, 0>>, error |-> "NoEntities"] :
          x \in {n \in {0} : Entities(doc) = {}}}
  \cup {[at |-> <<3, i, Len(doc[i].fields) + 1, 0>>, error |-> "MissingId"] :
          i \in {n \in Entities(doc) : ~HasId(doc[n].fields)}}
  \cup UNION {{[at |-> <<3, i, k, c>>,
                error |-> FieldErrors(doc, doc[i].fields, k)[c]] :
                 k \in DOMAIN doc[i].fields, c \in 1..4} : i \in Entities(doc)}

Met(doc) == {p \in Problems(doc) : p.error # None}

\* p is met no later than q.
NoLater(p, q) ==
  \/ p.at = q.at
  \/ \E d \in 1..4 : p.at[d] < q.at[d] /\ \A c \in 1..(d-1) : p.at[c] = q.at[c]

\* The ParseError, or None.
ParseError(doc) ==
  IF Met(doc) = {} THEN None
  ELSE (CHOOSE p \in Met(doc) : \A q \in Met(doc) : NoLater(p, q)).error

\* The n-th of a set of positions, and what a sequence holds at them, in order.
Nth(I, n) == CHOOSE i \in I : Cardinality({j \in I : j <= i}) = n

Kept(s, I) == [n \in 1..Cardinality(I) |-> s[Nth(I, n)]]

\* The Schema: the entities in order, each with its stored fields in order.
ParseEntity(doc, def) ==
  LET fields == Kept(def.fields, Columned(def))
  IN  [name |-> def.name, table |-> TableName[def.name],
       fields |-> [k \in DOMAIN fields |-> ParsedField(doc, fields[k])]]

ParseSchema(doc) ==
  LET entities == Kept(doc, Entities(doc))
      enums == Kept(doc, Enums(doc))
  IN  [entities |-> [i \in DOMAIN entities |-> ParseEntity(doc, entities[i])],
       enums |-> [i \in DOMAIN enums |->
                    [name |-> enums[i].name, values |-> enums[i].fields]]]
=============================================================================
