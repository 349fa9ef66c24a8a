----------------------------- MODULE Artifacts ------------------------------
(***************************************************************************)
(* What subdex-codegen's generators render from an entity model: the DDL   *)
(* (gen_sql.rs), the structs (gen_rust.rs), the upserts (gen_upsert.rs)    *)
(* and the read API (gen_graphql.rs); and when these four agree with each  *)
(* other, with rustc and with a database.                                  *)
(*                                                                         *)
(* An artifact is the set of facts that the others must agree with, not    *)
(* its text.  A database is a set of columns, each with its table.         *)
(***************************************************************************)
EXTENDS Schema

CONSTANTS
  Variant,   \* [enum value -> its Rust variant]
  Keyword    \* the identifiers that rustc reserves

Positions(e) == DOMAIN e.fields

Distinct(f, S) == \A i, j \in S : f[i] = f[j] => i = j

EntityRange(schema) == {schema.entities[i] : i \in DOMAIN schema.entities}

-----------------------------------------------------------------------------
(* gen_sql.rs                                                              *)

\* column_def: quoted, so a keyword is as good as another name.
ColumnDef(e, f) ==
  [table |-> e.table, column |-> f.column, type |-> PgType(f),
   required |-> f.is_id \/ ~f.nullable]

TableDef(e) == {ColumnDef(e, e.fields[k]) : k \in Positions(e)}

\* The columns with an index of their own; a key and a UNIQUE have one already.
Indexed(e) ==
  {e.fields[k].column : k \in {n \in Positions(e) :
     LET f == e.fields[n] IN f.indexed /\ ~f.is_id /\ ~f.unique}}

TablesOf(columns) == {c.table : c \in columns}

\* CREATE TABLE IF NOT EXISTS, entity after entity: of two entities with one
\* table, and of an entity and a table that is there, the first one stays.
Created(schema, columns) ==
  UNION {TableDef(schema.entities[i]) : i \in {n \in DOMAIN schema.entities :
           /\ schema.entities[n].table \notin TablesOf(columns)
           /\ \A m \in 1..(n-1) :
                schema.entities[m].table # schema.entities[n].table}}

Migrated(schema, columns) == columns \cup Created(schema, columns)

\* The script runs: no table lists a column twice, every index finds its column.
ScriptRuns(schema, columns) ==
  \A e \in EntityRange(schema) :
    /\ TableDef(e) \subseteq Created(schema, columns) =>
         Distinct([k \in Positions(e) |-> e.fields[k].column], Positions(e))
    /\ \A c \in Indexed(e) : \E d \in Migrated(schema, columns) :
         d.table = e.table /\ d.column = c

-----------------------------------------------------------------------------
(* gen_rust.rs: entities.rs, and the read models of graphql.rs.            *)

\* A struct that rustc accepts.
StructCompiles(e) ==
  /\ Distinct([k \in Positions(e) |-> e.fields[k].column], Positions(e))
  /\ \A k \in Positions(e) : e.fields[k].column \notin Keyword

EnumCompiles(d) ==
  Distinct([k \in DOMAIN d.values |-> Variant[d.values[k]]], DOMAIN d.values)

\* Entities and enums share the module's type names.
EntitiesCompile(schema) ==
  /\ \A e \in EntityRange(schema) : StructCompiles(e)
  /\ \A i \in DOMAIN schema.enums : EnumCompiles(schema.enums[i])
  /\ Distinct([i \in DOMAIN schema.enums |-> schema.enums[i].name],
              DOMAIN schema.enums)
  /\ {schema.enums[i].name : i \in DOMAIN schema.enums}
       \cap {e.name : e \in EntityRange(schema)} = {}

\* Two list resolvers never share a name: QueryRoot would keep one of them.
ResolversDiffer(schema) ==
  Distinct([i \in DOMAIN schema.entities |-> Snake[schema.entities[i].name]],
           DOMAIN schema.entities)

GraphqlCompiles(schema) ==
  \A e \in EntityRange(schema) : StructCompiles(e)

-----------------------------------------------------------------------------
(* gen_upsert.rs and gen_graphql.rs against a database.                    *)

\* What sqlx encodes as, and decodes from, what (external).
Carries == {<<"String", "TEXT">>, <<"i32", "INTEGER">>, <<"f64", "DOUBLE_PRECISION">>,
            <<"bool", "BOOLEAN">>, <<"i64", "BIGINT">>, <<"Value", "JSONB">>}

IsScalar(f, types) == f.kind = "scalar" /\ f.of \in types

\* placeholder: the SQL type of $n, where a BigInt's text is cast.
Placeholder(f) ==
  IF IsScalar(f, {"BigInt"}) THEN [list |-> FALSE, of |-> "NUMERIC"]
  ELSE [list |-> RustType(f).list,
        of |-> (CHOOSE p \in Carries : p[1] = RustType(f).of)[2]]

\* INSERT ... ON CONFLICT (id) DO UPDATE: one column, one placeholder and one
\* bind per field; every column the table requires is given.
UpsertFits(e, columns) ==
  /\ \A k \in Positions(e) : \E c \in columns :
       /\ c.table = e.table /\ c.column = e.fields[k].column
       /\ c.type = Placeholder(e.fields[k])
  /\ \A c \in columns : c.table = e.table /\ c.required =>
       \E k \in Positions(e) : e.fields[k].column = c.column

\* gql_type and select_expr: JSON is served as text, and so is a BigInt.
GqlType(f) ==
  [list |-> RustType(f).list,
   of |-> IF f.kind \in {"scalar", "list"} /\ f.of = "JSON" THEN "String"
          ELSE RustType(f).of]

SelectType(f) ==
  IF IsScalar(f, {"BigInt", "JSON"}) THEN [list |-> FALSE, of |-> "TEXT"]
  ELSE PgType(f)

\* The list resolver: the columns exist and decode, and the id filter, a
\* string, compares with the id column.
ReadFits(e, columns) ==
  \A k \in Positions(e) :
    LET f == e.fields[k]
    IN  /\ \E c \in columns : c.table = e.table /\ c.column = f.column
                              /\ c.type = PgType(f)
        /\ GqlType(f).list = SelectType(f).list
        /\ <<GqlType(f).of, SelectType(f).of>> \in Carries
        /\ f.is_id => PgType(f) = [list |-> FALSE, of |-> "TEXT"]
=============================================================================
