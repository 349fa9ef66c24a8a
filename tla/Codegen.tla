------------------------------ MODULE Codegen -------------------------------
(***************************************************************************)
(* A schema's way to a running indexer: `subdex-codegen generate` (main.rs *)
(* and lib.rs) writes three files one after another, the developer builds  *)
(* them into a binary, and the binary runs its handlers' migrations        *)
(* (PgStore::run_handler_migrations) before it upserts and serves.  The    *)
(* schema is edited and the round begins again, on the same database.      *)
(*                                                                         *)
(* A rendered file stands for the schema it was rendered from: rendering   *)
(* is deterministic.  rustc and sqlx's migrator are external.              *)
(***************************************************************************)
EXTENDS Artifacts

CONSTANTS
  Docs,        \* the schema documents a project may begin with
  EditDocs,    \* the documents it may be edited to
  OwnFiles,    \* the scaffold's paths that may hold the developer's files
  NewDoc,      \* the document that `new` scaffolds
  Sources,     \* the handlers, in init order, that a project may begin with
  OwnColumns,  \* [handler with handwritten tables -> their columns]
  Own,         \* the migration of such a handler
  Sanitised,   \* [handler name -> the name reduced to [a-z0-9_]]
  MaxEdits     \* bound on schema edits

Documents == Docs \cup EditDocs \cup {NewDoc}

\* The handlers that may be built in.
Handlers == {"generated"} \cup UNION {{hs[i] : i \in DOMAIN hs} : hs \in Sources}

IsSequence(s) == Len(s) \in Nat /\ DOMAIN s = 1..Len(s)

\* Documents are sequences of definitions, a table's name is made of the entity's
\* snake_case, a schema is neither an error nor a migration of one's own, and a
\* project has a handler, and only known ones.
ASSUME CodegenAssumption ==
  /\ \A d \in Documents : /\ IsSequence(d)
                          /\ \A i \in DOMAIN d : IsSequence(d[i].fields)
                          /\ \A i, j \in Entities(d) :
                               Snake[d[i].name] = Snake[d[j].name] =>
                                 TableName[d[i].name] = TableName[d[j].name]
                          /\ ParseError(d) = None => ParseSchema(d) \notin {None, Own}
  /\ None # Own
  /\ Handlers \subseteq DOMAIN Sanitised
  /\ Handlers \ {"generated"} \subseteq DOMAIN OwnColumns
  /\ \A hs \in Sources : hs \in Seq(Handlers) /\ hs # <<>>

VARIABLES
  doc,      \* the schema file
  files,    \* [file -> the schema it was rendered from, or None]
  whole,    \* history: files are all of one successful run
  bin,      \* the built binary: [files, whole, handlers], or None
  phase,    \* what is running
  step,     \* the next file, or the next handler
  report,   \* how the last command or start ended
  tables,   \* the database's columns
  applied,  \* [tracking table -> the 0001 migration applied, or None]
  edits,    \* schema edits so far
  handlers, \* the handlers in the project's sources
  project   \* [path -> "none", "user" or "scaffold": who wrote the file there]

vars == <<doc, files, whole, bin, phase, step, report, tables, applied, edits,
          handlers, project>>

\* In the order generate writes them.
Outputs == <<"entities.rs", "0001_schema.sql", "graphql.rs">>
Files == {Outputs[i] : i \in DOMAIN Outputs}

\* scaffold: the files of a new project, in the order they are written.
ScaffoldFiles ==
  <<"Cargo.toml", "src/main.rs", "src/handler.rs", "src/lib.rs", "schema.graphql",
    ".env.example", "docker-compose.yml", ".gitignore", "README.md">>

Paths == {ScaffoldFiles[i] : i \in DOMAIN ScaffoldFiles}

\* handler_migrations_table.
TrackingTable(handler) ==
  IF Sanitised[handler] = "" THEN "handler" ELSE Sanitised[handler]

Fresh == [t \in {TrackingTable(h) : h \in DOMAIN Sanitised} |-> None]

Init ==
  /\ doc \in Docs \cup {NewDoc}
  /\ files = [f \in Files |-> None]
  /\ whole = FALSE
  /\ bin = None
  /\ phase \in {"new", "idle"}
  /\ step = 1
  /\ report = "none"
  /\ tables = {}
  /\ edits = 0
  /\ handlers \in Sources
  /\ applied = Fresh
  /\ \E own \in OwnFiles :
       /\ project = [p \in Paths |-> IF p \in own THEN "user" ELSE "none"]
       /\ phase = "idle" <=> own = Paths
  /\ phase = "new" => doc = NewDoc

-----------------------------------------------------------------------------
(* subdex-codegen new, under a name that validate_name accepts.            *)

rest == <<doc, files, whole, bin, tables, applied, edits, handlers>>

\* A directory that holds anything is refused; the project is the developer's.
RefuseNew ==
  /\ phase = "new"
  /\ step = 1
  /\ \E p \in Paths : project[p] # "none"
  /\ report' = "refused"
  /\ phase' = "idle"
  /\ UNCHANGED <<rest, step, project>>

\* Write the next file; the project is there after the last.
Faulty_Scaffold ==   \* into whatever directory
  /\ phase = "new"
  /\ project' = [project EXCEPT ![ScaffoldFiles[step]] = "scaffold"]
  /\ IF step = Len(ScaffoldFiles)
     THEN phase' = "idle" /\ step' = 1 /\ report' = "scaffolded"
     ELSE step' = step + 1 /\ UNCHANGED <<phase, report>>
  /\ UNCHANGED rest

Scaffold ==
  /\ phase = "new"
  /\ step = 1 => \A p \in Paths : project[p] = "none"
  /\ project' = [project EXCEPT ![ScaffoldFiles[step]] = "scaffold"]
  /\ IF step = Len(ScaffoldFiles)
     THEN phase' = "idle" /\ step' = 1 /\ report' = "scaffolded"
     ELSE step' = step + 1 /\ UNCHANGED <<phase, report>>
  /\ UNCHANGED rest

\* A write fails half way; the developer may try again.
ScaffoldFails ==
  /\ phase = "new"
  /\ report' = "failed"
  /\ step' = 1
  /\ UNCHANGED <<rest, phase, project>>

-----------------------------------------------------------------------------
(* subdex-codegen generate.                                                *)

\* load: a document that parses; rendering needs no file.
Faulty_BeginGenerate ==   \* goes on where the last run ended
  /\ phase = "idle"
  /\ ParseError(doc) = None
  /\ phase' = "writing"
  /\ whole' = FALSE
  /\ UNCHANGED <<doc, files, bin, step, report, tables, applied, edits, handlers, project>>

BeginGenerate ==
  /\ phase = "idle"
  /\ ParseError(doc) = None
  /\ phase' = "writing"
  /\ step' = 1
  /\ whole' = FALSE
  /\ UNCHANGED <<doc, files, bin, report, tables, applied, edits, handlers, project>>

\* A document that does not parse leaves every file as it was.
RefuseSchema ==
  /\ phase = "idle"
  /\ ParseError(doc) # None
  /\ report' = ParseError(doc)
  /\ UNCHANGED <<doc, files, whole, bin, phase, step, tables, applied, edits, handlers, project>>

\* Write the next file; SUCCESS after the last.
Faulty_WriteFile ==   \* a migration that is there is kept
  /\ phase = "writing"
  /\ files' = IF Outputs[step] = "0001_schema.sql" /\ files[Outputs[step]] # None
              THEN files
              ELSE [files EXCEPT ![Outputs[step]] = ParseSchema(doc)]
  /\ step' = step + 1
  /\ IF step = Len(Outputs)
     THEN phase' = "idle" /\ whole' = TRUE /\ report' = "generated"
     ELSE UNCHANGED <<phase, whole, report>>
  /\ UNCHANGED <<doc, bin, tables, applied, edits, handlers, project>>

WriteFile ==
  /\ phase = "writing"
  /\ files' = [files EXCEPT ![Outputs[step]] = ParseSchema(doc)]
  /\ step' = step + 1
  /\ IF step = Len(Outputs)
     THEN phase' = "idle" /\ whole' = TRUE /\ report' = "generated"
     ELSE UNCHANGED <<phase, whole, report>>
  /\ UNCHANGED <<doc, bin, tables, applied, edits, handlers, project>>

\* A write fails: FAILURE, and the files written so far stay.
WriteFails ==
  /\ phase = "writing"
  /\ phase' = "idle"
  /\ report' = "failed"
  /\ UNCHANGED <<doc, files, whole, bin, step, tables, applied, edits, handlers, project>>

-----------------------------------------------------------------------------
(* The developer.                                                          *)

Edit ==
  /\ phase = "idle"
  /\ edits < MaxEdits
  /\ doc' \in EditDocs \ {doc}
  /\ edits' = edits + 1
  /\ whole' = FALSE
  /\ UNCHANGED <<files, bin, phase, step, report, tables, applied, handlers, project>>

\* The generated migration and upserts are wired in, beside the handwritten
\* handler or in its place.
Adopt ==
  /\ phase = "idle"
  /\ whole
  /\ \A i \in DOMAIN handlers : handlers[i] # "generated"
  /\ handlers' \in {Append(handlers, "generated"), <<"generated">>}
  /\ UNCHANGED <<doc, files, whole, bin, phase, step, report, tables, applied, edits, project>>

\* cargo build, even after a generate that failed.
Uses(hs) == \E i \in DOMAIN hs : hs[i] = "generated"

Compiles ==
  Uses(handlers) =>
    /\ \A f \in Files : files[f] # None
    /\ EntitiesCompile(files["entities.rs"])
    /\ GraphqlCompiles(files["graphql.rs"])

Build ==
  /\ phase = "idle"
  /\ IF Compiles
     THEN bin' = [files |-> files, whole |-> whole, handlers |-> handlers]
          /\ report' = "built"
     ELSE bin' = bin /\ report' = IF whole THEN "miscompiled" ELSE "failed"
  /\ UNCHANGED <<doc, files, whole, phase, step, tables, applied, edits, handlers, project>>

\* Throw the database away.
Reset ==
  /\ phase = "idle"
  /\ tables # {}
  /\ tables' = {}
  /\ applied' = Fresh
  /\ UNCHANGED <<doc, files, whole, bin, phase, step, report, edits, handlers, project>>

-----------------------------------------------------------------------------
(* The binary's start: run_handler_migrations for each handler.            *)

Start ==
  /\ phase = "idle"
  /\ bin # None
  /\ phase' = "migrating"
  /\ step' = 1
  /\ UNCHANGED <<doc, files, whole, bin, report, tables, applied, edits, handlers, project>>

\* The handler whose init is next, its tracking table and its 0001 migration.
Handler == bin.handlers[step]
Table == TrackingTable(Handler)
Migration == IF Handler = "generated" THEN bin.files["0001_schema.sql"] ELSE Own

\* sqlx: what was applied must be what the binary holds.
Mismatch == applied[Table] \notin {None, Migration}

ScriptFails ==
  Handler = "generated" /\ applied[Table] = None /\ ~ScriptRuns(Migration, tables)

\* Every CREATE TABLE is IF NOT EXISTS.
Columns ==
  IF Handler # "generated"
  THEN tables \cup {c \in OwnColumns[Handler] : c.table \notin TablesOf(tables)}
  ELSE IF applied[Table] = None THEN Migrated(Migration, tables)
  ELSE tables

MigrateHandler ==
  /\ phase = "migrating"
  /\ ~Mismatch /\ ~ScriptFails
  /\ tables' = Columns
  /\ applied' = [applied EXCEPT ![Table] = Migration]
  /\ step' = step + 1
  /\ IF step = Len(bin.handlers)
     THEN phase' = "running" /\ report' = "started"
     ELSE UNCHANGED <<phase, report>>
  /\ UNCHANGED <<doc, files, whole, bin, edits, handlers, project>>

\* init returns the error and the process exits.
RefuseStart ==
  /\ phase = "migrating"
  /\ Mismatch \/ ScriptFails
  /\ report' = IF Mismatch THEN "mismatch"
               ELSE IF bin.whole /\ tables = {} THEN "miscompiled" ELSE "failed"
  /\ phase' = "idle"
  /\ UNCHANGED <<doc, files, whole, bin, step, tables, applied, edits, handlers, project>>

\* It is stopped, or dies while it migrates.
Stop ==
  /\ phase \in {"migrating", "running"}
  /\ phase' = "idle"
  /\ UNCHANGED <<doc, files, whole, bin, step, report, tables, applied, edits, handlers, project>>

Next ==
  \/ RefuseNew \/ Scaffold \/ ScaffoldFails
  \/ BeginGenerate \/ RefuseSchema \/ WriteFile \/ WriteFails
  \/ Edit \/ Adopt \/ Build \/ Reset
  \/ Start \/ MigrateHandler \/ RefuseStart \/ Stop

Spec == Init /\ [][Next]_vars

-----------------------------------------------------------------------------
(* Properties.                                                             *)

TypeOK ==
  /\ DOMAIN files = Files
  /\ phase \in {"new", "idle", "writing", "migrating", "running"}
  /\ phase = "writing" => step \in DOMAIN Outputs
  /\ phase = "migrating" => step \in DOMAIN bin.handlers
  /\ phase = "writing" => ~whole

\* `new` never writes over a file of the developer's, and what it reports as
\* scaffolded is the whole project, after failed attempts too.
NewNeverClobbers ==
  [][/\ \A p \in Paths : project[p] = "user" => project'[p] = "user"
     /\ report' = "scaffolded" /\ report # report' =>
          \A p \in Paths : project'[p] = "scaffold"]_vars

\* What rustc asks of a document's names and parse_schema does not: the fields of an
\* entity stay distinct in snake_case and are no keywords, the values of an enum stay
\* distinct as variants, and an enum has a name of its own.
RustNamesDiffer(d) ==
  /\ \A i \in Entities(d) : \A k, l \in Columned(d[i]) :
       LET f == d[i].fields[k]
           g == d[i].fields[l]
       IN  /\ Snake[f.name] = Snake[g.name] => f.name = g.name
           /\ Snake[f.name] \notin Keyword
  /\ \A i \in Enums(d) : \A k, l \in DOMAIN d[i].fields :
       Variant[d[i].fields[k]] = Variant[d[i].fields[l]] => k = l
  /\ \A i \in Enums(d), j \in Enums(d) \cup Entities(d) : d[i].name = d[j].name => i = j

\* No two entities of a schema share a table.
TablesDiffer(schema) ==
  Distinct([i \in DOMAIN schema.entities |-> schema.entities[i].table],
           DOMAIN schema.entities)

\* No handwritten handler of the project's has a table of an entity's name.
HandwrittenColumns == UNION {OwnColumns[h] : h \in Handlers \ {"generated"}}

OwnTablesApart ==
  \A d \in Documents : ParseError(d) = None =>
    \A e \in EntityRange(ParseSchema(d)) : e.table \notin TablesOf(HandwrittenColumns)

\* "A builder never gets a table that doesn't match their schema" (parse.rs): what
\* parse_schema accepts is rendered to files that compile, but for clashing names, and
\* they are all that it lets pass; if the entities have tables of their own, then the
\* migration runs on an empty database and each entity has a resolver of its own.
AcceptedSchemaBuilds ==
  [][/\ Build /\ whole /\ Uses(handlers) => (report' = "built" <=> RustNamesDiffer(doc))
     /\ RefuseStart /\ TablesDiffer(bin.files["0001_schema.sql"]) => report' # "miscompiled"
     /\ Start /\ bin.whole /\ Uses(bin.handlers) /\ TablesDiffer(bin.files["graphql.rs"]) =>
          ResolversDiffer(bin.files["graphql.rs"])]_vars

\* gen_upsert casts a BigInt, but not the ones in a list.
Upserted(f) == ~(f.kind = "list" /\ f.of = "BigInt")

\* gen_graphql casts a BigInt and a JSON, but not in a list, and compares an id with a
\* string.
Served(f) ==
  /\ f.kind = "list" => f.of \notin {"BigInt", "JSON"}
  /\ f.is_id => PgType(f) = [list |-> FALSE, of |-> "TEXT"]

\* A process that got past its migrations writes and reads its entities: the columns,
\* placeholders and types of entities.rs and graphql.rs are those of the tables,
\* whichever binary created them, whenever generate, build or migrations broke off
\* in between, and if two handlers share a tracking table.  The entities that do not
\* fit are exactly those with a field that the generators do not cast.  Exempt are
\* a binary built after a generate that failed, and entities that share a table.
RunningFitsTables ==
  /\ phase = "running" /\ bin.whole /\ Uses(bin.handlers)
  /\ TablesDiffer(bin.files["0001_schema.sql"])
  =>
  /\ \A e \in EntityRange(bin.files["entities.rs"]) :
       UpsertFits(e, tables) <=> \A k \in Positions(e) : Upserted(e.fields[k])
  /\ \A e \in EntityRange(bin.files["graphql.rs"]) :
       ReadFits(e, tables) <=> \A k \in Positions(e) : Served(e.fields[k])

\* A relation's column holds the id of an entity of the same schema, wherever that
\* is declared, a required column; if the id is an ID, the two columns have one type.
RelationsResolve ==
  bin # None /\ Uses(bin.handlers) =>
    LET schema == bin.files["0001_schema.sql"]
    IN  \A e \in EntityRange(schema) : \A k \in Positions(e) :
          e.fields[k].kind = "relation" =>
            \E d \in EntityRange(schema) : \E n \in Positions(d) :
              LET id == d.fields[n]
              IN  /\ d.name = e.fields[k].of
                  /\ id.is_id /\ ~id.nullable
                  /\ IsScalar(id, {"ID"}) => PgType(id) = PgType(e.fields[k])

\* The scaffolded README: run the project, then `subdex-codegen generate` its
\* schema.graphql "instead of hand-writing tables" and wire the migration and
\* the upserts into the handler.
ScaffoldThenGenerate ==
  (\A p \in Paths : project[p] = "scaffold") => RunningFitsTables
=============================================================================
