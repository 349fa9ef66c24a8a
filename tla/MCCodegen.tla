----------------------------- MODULE MCCodegen ------------------------------
(***************************************************************************)
(* Schema documents for Codegen: one entity over every choice of one more  *)
(* field, among them a list of each scalar, ids of several types, pairs of *)
(* types that refer to each other or to nothing, and names that clash once *)
(* they are converted.  The conversions are tables over the names that     *)
(* occur.                                                                  *)
(***************************************************************************)
EXTENDS Codegen, TLC

\* to_snake_case and table_name.
SnakeCase ==
  "id" :> "id" @@ "assetId" :> "asset_id" @@
  "amount" :> "amount" @@ "owner" :> "owner" @@
  "Transfer" :> "transfer" @@ "Account" :> "account" @@
  "Event" :> "event" @@ "blockHeight" :> "block_height" @@
  "pallet" :> "pallet" @@ "name" :> "name" @@
  "asset_id" :> "asset_id" @@ "type" :> "type" @@ "transfer" :> "transfer"

PluralCase ==
  "Transfer" :> "transfers" @@ "Account" :> "accounts" @@
  "Event" :> "events" @@ "transfer" :> "transfers"

\* pascal_variant.
VariantCase ==
  "DEPOSIT" :> "Deposit" @@ "IN_PROGRESS" :> "InProgress" @@
  "inProgress" :> "InProgress"

Keywords == {"type", "ref", "self", "fn"}

\* handler_migrations_table's reduction.
SanitisedNames ==
  "generated" :> "generated" @@ "my-own" :> "my_own" @@ "Generated" :> "generated" @@
  "my_handler" :> "my_handler"

\* A handwritten handler alone, and one that shares a tracking table.
SomeSources == {<<"my-own">>, <<"Generated", "generated">>}

\* A new directory, one that holds a file, and a project of the developer's.
SomeFiles == {{}, {"README.md"}, Paths}
NoFiles == {{}}

\* The handler that `new` scaffolds.
StubSource == {<<"my_handler">>}

Column(table, column, type) ==
  [table |-> table, column |-> column, type |-> [list |-> FALSE, of |-> type],
   required |-> TRUE]

\* The tables of the handwritten handlers; the last is HANDLER_RS's.
SomeColumns ==
  "my-own" :> {Column("notes", "id", "TEXT")} @@
  "Generated" :> {Column("notes", "id", "TEXT")} @@
  "my_handler" :> {Column("events", "id", "BIGINT"),
                   Column("events", "block_height", "BIGINT"),
                   Column("events", "event_index", "BIGINT"),
                   Column("events", "pallet", "TEXT"),
                   Column("events", "name", "TEXT")}

F(name, type, nonNull) ==
  [name |-> name, type |-> type, list |-> FALSE, nonNull |-> nonNull,
   derived |-> FALSE, index |-> FALSE, unique |-> FALSE]

Entity(name, fields) == [kind |-> "entity", name |-> name, fields |-> fields]
Enum(name, values) == [kind |-> "enum", name |-> name, fields |-> values]

Id == F("id", "ID", TRUE)

\* The second field of a one-entity schema.
SecondFields ==
  {F("amount", t, TRUE) : t \in Scalars} \cup
  {[F("amount", t, FALSE) EXCEPT !.list = TRUE] : t \in Scalars} \cup
  { F("amount", "Nothing", FALSE), F("id", "ID", TRUE),
    [F("owner", "Transfer", FALSE) EXCEPT !.index = TRUE],
    [F("owner", "Transfer", TRUE) EXCEPT !.list = TRUE],
    [F("owner", "Transfer", TRUE) EXCEPT !.list = TRUE, !.derived = TRUE],
    [F("assetId", "BigInt", TRUE) EXCEPT !.unique = TRUE] }

OneEntity ==
  {<<Entity("Transfer", <<Id, f>>)>> : f \in SecondFields} \cup
  {<<Entity("Transfer", <<i>>)>> :
     i \in { F("id", "ID", FALSE), F("id", "String", TRUE), F("id", "Int", TRUE),
             F("id", "BigInt", TRUE), [F("id", "ID", TRUE) EXCEPT !.list = TRUE] }}

Kind == Enum("Kind", <<"DEPOSIT", "IN_PROGRESS">>)

TwoTypes ==
  { <<>>,
    <<Kind>>,
    <<Entity("Transfer", <<F("amount", "Int", TRUE)>>)>>,
    <<Entity("Transfer", <<Id, F("owner", "Account", TRUE)>>), Entity("Account", <<Id>>)>>,
    <<Entity("Transfer", <<Id, F("owner", "Kind", TRUE)>>), Kind>>,
    <<Entity("Transfer", <<Id, F("owner", "Account", TRUE)>>),
      [Entity("Account", <<Id>>) EXCEPT !.kind = "object"]>>,
    <<Entity("Account", <<Id>>), Entity("Account", <<Id>>)>>,
    <<Entity("Account", <<Id>>), [Entity("Transfer", <<Id>>) EXCEPT !.kind = "object"]>> }

\* Accepted, with names that clash: fields in snake_case, a keyword, values as
\* variants, an enum of an entity's name, two entities with one table.
Clashes ==
  { <<Entity("Transfer", <<Id, F("assetId", "Int", TRUE), F("asset_id", "Int", TRUE)>>)>>,
    <<Entity("Transfer", <<Id, F("type", "Int", TRUE)>>)>>,
    <<Entity("Transfer", <<Id>>), Enum("Kind", <<"IN_PROGRESS", "inProgress">>)>>,
    <<Entity("Account", <<Id>>), Enum("Account", <<"DEPOSIT", "IN_PROGRESS">>)>>,
    <<Entity("Transfer", <<Id>>),
      Entity("transfer", <<Id, [F("amount", "Int", TRUE) EXCEPT !.index = TRUE]>>)>> }

SomeDocs == OneEntity \cup TwoTypes \cup Clashes

NoDocs == {}

\* SCHEMA_GRAPHQL, the scaffolded document.
EventDoc ==
  <<Entity("Event", <<Id, [F("blockHeight", "Int", TRUE) EXCEPT !.index = TRUE],
                      F("pallet", "String", TRUE), F("name", "String", TRUE)>>)>>

\* Edits: one more column, another type, an entity less, a relation, nonsense.
LaterDocs ==
  { <<Entity("Transfer", <<Id, F("amount", "BigInt", TRUE), F("assetId", "Int", TRUE)>>)>>,
    <<Entity("Transfer", <<Id, F("amount", "String", FALSE)>>)>>,
    <<Entity("Transfer", <<Id, F("owner", "Account", TRUE)>>), Entity("Account", <<Id>>)>>,
    <<Entity("Transfer", <<Id, F("amount", "Nothing", TRUE)>>)>> }

\* Only the handler that `new` scaffolds has a table of an entity's name.
ASSUME TablesAreApart == OwnTablesApart \/ Sources = StubSource
=============================================================================
