-------------------------- MODULE DeferredIndexes ---------------------------
(***************************************************************************)
(* The deferred indexes of PgStore (subdex-store, store.rs): a handler's   *)
(* init drops an index while the database is fresh and registers it in     *)
(* subdex_deferred_index, on_backfill_complete builds what is registered.  *)
(*                                                                         *)
(* One action per transaction, so that the process may die between any two *)
(* of them.  Of subdex_block only emptiness matters here: it is what       *)
(* defer_index takes for a fresh start.  Handlers initialise in order; the *)
(* indexes of one handler are deferred, and registered ones rebuilt, in    *)
(* any order, which includes the code's.                                   *)
(***************************************************************************)
EXTENDS Integers

CONSTANTS
  Indexes,       \* the index names
  NHandlers,     \* handlers, initialised in order 1..NHandlers
  Creates,       \* per handler, the indexes its migrations create
  Defers,        \* per handler, the indexes its init passes to defer_index
  MaxRestarts,   \* bound on the restarts of the process
  MaxEmptied     \* bound on the rollbacks that empty subdex_block

Handlers == 1..NHandlers

ASSUME DeferredIndexesAssumption ==
  /\ NHandlers \in Nat
  /\ Creates \in [Handlers -> SUBSET Indexes]
  /\ Defers \in [Handlers -> SUBSET Indexes]
  /\ \A h \in Handlers : Creates[h] \subseteq Defers[h]
  /\ MaxRestarts \in Nat
  /\ MaxEmptied \in Nat

VARIABLES
  \* the database
  present,    \* the indexes that exist
  registry,   \* subdex_deferred_index
  migrated,   \* the handlers whose migrations are recorded as applied
  indexed,    \* subdex_block has a row: cursor() is not None
  \* the process
  pc,         \* where it is
  turn,       \* the handler being initialised
  todo,       \* indexes it still defers, or on_backfill_complete still builds
  restarts,   \* restarts so far
  emptied     \* rollbacks to an empty table so far

database == <<present, registry, migrated, indexed>>

vars == <<present, registry, migrated, indexed, pc, turn, todo, restarts,
          emptied>>

Running == {"migrate", "defer", "backfill", "complete", "follow"}

\* A new database, or one that was indexed before any handler of this version
\* was initialised on it.
Init ==
  /\ present = {}
  /\ registry = {}
  /\ migrated = {}
  /\ indexed \in BOOLEAN
  /\ pc = "migrate"
  /\ turn = 1
  /\ todo = {}
  /\ restarts = 0
  /\ emptied = 0

-----------------------------------------------------------------------------
(* Processor::init: every handler migrates its tables, then defers.        *)

\* run_handler_migrations: versions on record are not applied again.
Migrate ==
  /\ pc = "migrate"
  /\ turn \in Handlers
  /\ present' = IF turn \in migrated THEN present ELSE present \cup Creates[turn]
  /\ migrated' = migrated \cup {turn}
  /\ todo' = Defers[turn]
  /\ pc' = "defer"
  /\ UNCHANGED <<registry, indexed, turn, restarts, emptied>>

\* defer_index on a fresh database: register and drop, in one transaction.
DeferIndex(i) ==
  /\ pc = "defer"
  /\ i \in todo
  /\ ~indexed
  /\ registry' = registry \cup {i}
  /\ present' = present \ {i}
  /\ todo' = todo \ {i}
  /\ UNCHANGED <<migrated, indexed, pc, turn, restarts, emptied>>

\* defer_index on a database with a cursor: CREATE INDEX IF NOT EXISTS.
Faulty_EnsureIndex(i) ==   \* returns early without the CREATE
  /\ pc = "defer"
  /\ i \in todo
  /\ indexed
  /\ todo' = todo \ {i}
  /\ UNCHANGED <<database, pc, turn, restarts, emptied>>

EnsureIndex(i) ==
  /\ pc = "defer"
  /\ i \in todo
  /\ indexed
  /\ present' = present \cup {i}
  /\ todo' = todo \ {i}
  /\ UNCHANGED <<registry, migrated, indexed, pc, turn, restarts, emptied>>

NextHandler ==
  /\ pc = "defer"
  /\ todo = {}
  /\ turn' = turn + 1
  /\ pc' = "migrate"
  /\ UNCHANGED <<database, todo, restarts, emptied>>

Faulty_StartBackfill ==   \* counts on past the last handler
  /\ pc = "migrate"
  /\ turn \notin Handlers
  /\ turn' = turn + 1
  /\ pc' = "backfill"
  /\ UNCHANGED <<database, todo, restarts, emptied>>

StartBackfill ==
  /\ pc = "migrate"
  /\ turn \notin Handlers
  /\ pc' = "backfill"
  /\ UNCHANGED <<database, turn, todo, restarts, emptied>>

-----------------------------------------------------------------------------
(* Indexing.                                                               *)

\* A batch commits, and the cursor with it.
CommitBatch ==
  /\ pc \in {"backfill", "follow"}
  /\ indexed' = TRUE
  /\ UNCHANGED <<present, registry, migrated, pc, turn, todo, restarts, emptied>>

\* rollback_to below the lowest row: no bookkeeping row is left.
RollbackToEmpty ==
  /\ pc \in {"backfill", "follow"}
  /\ indexed
  /\ emptied < MaxEmptied
  /\ indexed' = FALSE
  /\ emptied' = emptied + 1
  /\ UNCHANGED <<present, registry, migrated, pc, turn, todo, restarts>>

\* backfill() leaves its loop: on_backfill_complete lists the registry.
Faulty_EndBackfill ==   \* a loop left by an empty batch returns directly
  /\ pc = "backfill"
  /\ pc' = "follow"
  /\ UNCHANGED <<database, turn, todo, restarts, emptied>>

EndBackfill ==
  /\ pc = "backfill"
  /\ todo' = registry
  /\ pc' = "complete"
  /\ UNCHANGED <<database, turn, restarts, emptied>>

\* CREATE INDEX and DELETE of the registry row, in one transaction.
Faulty_RecreateIndex(i) ==   \* the registry row goes first, on its own
  /\ pc = "complete"
  /\ i \in todo
  /\ IF i \in registry
     THEN registry' = registry \ {i} /\ UNCHANGED <<present, todo>>
     ELSE present' = present \cup {i} /\ todo' = todo \ {i} /\ UNCHANGED registry
  /\ UNCHANGED <<migrated, indexed, pc, turn, restarts, emptied>>

RecreateIndex(i) ==
  /\ pc = "complete"
  /\ i \in todo
  /\ present' = present \cup {i}
  /\ registry' = registry \ {i}
  /\ todo' = todo \ {i}
  /\ UNCHANGED <<migrated, indexed, pc, turn, restarts, emptied>>

StartFollow ==
  /\ pc = "complete"
  /\ todo = {}
  /\ pc' = "follow"
  /\ UNCHANGED <<database, turn, todo, restarts, emptied>>

-----------------------------------------------------------------------------
\* A statement fails, another error ends the run, a shutdown or a crash.
Fail ==
  /\ pc \in Running
  /\ pc' = "down"
  /\ turn' = 1
  /\ todo' = {}
  /\ UNCHANGED <<database, restarts, emptied>>

Restart ==
  /\ pc = "down"
  /\ restarts < MaxRestarts
  /\ restarts' = restarts + 1
  /\ pc' = "migrate"
  /\ UNCHANGED <<database, turn, todo, emptied>>

Initialise ==
  \/ Migrate \/ NextHandler \/ StartBackfill
  \/ \E i \in Indexes : DeferIndex(i) \/ EnsureIndex(i)

Complete == StartFollow \/ \E i \in Indexes : RecreateIndex(i)

Next ==
  \/ Initialise \/ CommitBatch \/ RollbackToEmpty \/ EndBackfill \/ Complete
  \/ Fail \/ Restart

Spec == Init /\ [][Next]_vars

\* The runtime polls the process on, and its backfill ends (BackfillEnds of
\* Processor).  Failures and restarts owe nothing.
FairSpec == Spec /\ WF_vars(Initialise) /\ WF_vars(EndBackfill) /\ WF_vars(Complete)

-----------------------------------------------------------------------------
(* Properties.                                                             *)

TypeOK ==
  /\ present \subseteq Indexes
  /\ registry \subseteq Indexes
  /\ migrated \subseteq Handlers
  /\ indexed \in BOOLEAN
  /\ pc \in Running \cup {"down"}
  /\ turn \in 1..(NHandlers + 1)
  /\ todo \subseteq Indexes
  /\ restarts \in 0..MaxRestarts
  /\ emptied \in 0..MaxEmptied

\* An index that exists or is registered goes on doing one or the other,
\* through crashes between the transactions of defer_index and
\* on_backfill_complete, and through restarts that find another freshness.
IndexNeverForgotten == [][present \cup registry \subseteq present' \cup registry']_vars

\* Whatever crashed before, the process follows the tip with every index of
\* every handler in place and nothing registered.
TipHasIndexes ==
  pc = "follow" =>
    /\ registry = {}
    /\ \A h \in Handlers : Defers[h] \subseteq present

\* A registered index is built in the end, unless the process is down.
RegisteredIsBuilt ==
  \A i \in Indexes : i \in registry ~> i \in present \/ pc = "down"

=============================================================================
