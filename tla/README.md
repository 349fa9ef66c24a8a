# A verification project for subdex

subdex indexes a Substrate chain: an engine asks a data source for finalized
blocks, runs handlers over them, and commits handler rows and a cursor to
Postgres in one transaction per batch. It promises that the database follows
the canonical chain through restarts, crashes and forks. Around the engine there
are the decoding of blocks, the configuration, the start of an indexer binary and
a generator of schemas. This directory holds TLA+ models of these, the TLC runs
that check them on small instances, and proofs of the main results for every
value of the parameters.

## 1. Inventory

| Part | State it keeps | Operations | Talks to |
|---|---|---|---|
| Engine, `subdex/processor.rs` | next height, head, current batch, fork walk | `init`, `resume_height`, `backfill`, `follow`, `follow_until`, `process_batch_blocks`, `find_fork_point`, `commit_batch` | source, store, handlers, observer |
| Bookkeeping, `subdex-store/store.rs` | table `subdex_block` | `cursor`, `hash_at`, `set_cursor` (+ prune), `rollback_to`, `begin`, `commit` | Postgres |
| Deferred indexes, same file | table `subdex_deferred_index`, the indexes themselves | `defer_index`, `on_backfill_complete` | Postgres; called from handler `init` and from backfill |
| Handler migrations, same file | one table of versions per handler | `run_handler_migrations`, `handler_migrations_table` | Postgres |
| Handlers, `subdex-core/handler.rs`, `examples/` | entity tables | `init`, `prepare`, `process_batch`, `Prepared::write` | the engine's transaction |
| RPC source, `subdex-source/source.rs` | the finalized-blocks subscription | `finalized_head`, `fetch_batch`, `next_finalized` | node |
| Retry, `subdex-source/retry.rs` | attempt counter | `retry_async`, `is_transient`, `backoff` | wraps every request |
| Portal source, `subdex-source/sqd/` | none | `finalized_head`, `fetch_batch` | SQD portal |
| Hybrid source, `subdex-source/hybrid.rs` | none | delegates backfill to the portal, tip to the node | both |
| Mapping, decoding, SS58, `mapping.rs`, `sqd/mapping.rs`, `value.rs`, `ss58.rs` | none | `map_block`, `map_portal_block`, `json_to_value`, the readers of fields | sources, handlers |
| Configuration, `subdex-config` | the merged configuration | load, overlay, validate, build | main programs |
| Indexer binaries, `examples/`, `templates/` | where `main` is, the GraphQL task | load, connect, init, serve, backfill, follow, Ctrl-C | all of the above |
| Observer and metrics, `subdex/metrics.rs` | three gauges | `on_batch_committed`, `on_head`, `on_reorg` | called by the engine |
| Status query, GraphQL server, `subdex-graphql` | none | `load_status` | reads `subdex_block` |
| Code generator, `subdex-codegen` | the files it writes | `new`, `generate`: parse a schema, render SQL, Rust, GraphQL | files; the migrations run on the handlers' database |

What is hard here: the chain moves between any two awaits of the engine (head,
batch, every step of the fork walk, subscription); a batch over RPC is many
requests; the process may die anywhere and resumes from the cursor alone; the
bookkeeping is pruned while a later walk may need it; the tip is a stream whose
position nobody compares with the cursor; the same block may be indexed twice,
from two sources that carry different data; generated files, the binary built
from them and the tables of a deployed database come from different schemas.

What makes each part correct:

- *Engine and bookkeeping.* The rows are one hole-free segment of one chain; a
  commit leaves canonical rows only; a rewind drops the orphans and nothing
  else; backfill ends.
- *Handlers.* A block on record has its handler rows, all of them, and no
  handler row shows before its block.
- *Store.* The rows a legal fork walk needs have not been pruned.
- *Sources.* A batch is one view of the chain; the hand-over from backfill to
  tip loses nothing; a broken stream is replaced.
- *Deferred indexes.* An index is present or registered, whatever crashes; at
  the tip it is present.
- *Decoding.* A batch is a hole-free run of blocks; each watched event has one
  row, in the same place from either source, with the values of the chain.
- *Observer.* The gauges agree with each other and with the cursor.
- *Configuration and binaries.* What is validated is what engine and store
  assume; errors lead to a start; nothing is served or indexed before init; runs
  with other settings leave one run of heights as long as they backfill.
- *Code generator.* What is accepted compiles and migrates; what runs fits the
  tables; a developer's file is not overwritten.

`PROJECT.json` lists the components with their status, and the hazards, each at
the line where it bites, with the properties that watch over it.

## 2. Modules

```
Blocks            blocks, chains, tables by height          subdex-core/types.rs
  BlockTable      subdex_block and its SQL statements       subdex-store/store.rs
  Observer        the gauges behind the engine's hooks      subdex/metrics.rs
    Processor     engine + store + source + node + gauges   subdex/processor.rs, sources
      MCProcessor       small block trees
      ProcessorProofs   tables, types, the rows as a chain, handler rows
        FollowProofs    gauges, links at the tip, what a rewind drops
          IndexProofs   the abstract index, convergence, the window
  ChainIndex      abstract: what a table of blocks promises
DeferredIndexes   indexes dropped for a backfill            subdex-store/store.rs
  MCDeferredIndexes, DeferredIndexesProofs
TipStream         next_finalized with its retries           subdex-source/source.rs, retry.rs
  TipStreamProofs
Decode            raw block -> Block -> rows of a handler   mapping.rs, sqd/, value.rs, examples
  Ingest          fetch_batch of both sources, the writes   source.rs, sqd/, retry.rs
    MCIngest, IngestProofs
Config            file and environment -> configuration     subdex-config/lib.rs
  Startup         main, its operator, the chain             examples, templates, status.rs
    MCStartup, StartupProofs
Schema            a document -> errors or entities          subdex-codegen parse.rs, model.rs
  Artifacts       entities -> DDL, structs, upserts, reads  gen_*.rs
    Codegen       new, generate, build, migrate, edit       main.rs, lib.rs, scaffold.rs, store.rs
      MCCodegen, CodegenProofs
```

Four groups share no state and are composed by what one assumes of another:
`Processor` trusts a batch to be a run of blocks (`Ingest` shows it); `Ingest`
lets the chain rest, `Processor` has its forks; `DeferredIndexes` assumes that a
backfill ends (`BackfillEnds`); `Startup` gives `Processor` its constants.

**Blocks.** A block is its hash; height and parent are functions of the hash. A
chain and a table are both functions from heights to hashes, `None` where there
is nothing. `IsSegment` is the notion the project turns on: blocks at their own
heights, neighbours parent and child, no hole. The set `Chains` of everything a
node may show is a parameter.

**BlockTable.** One operator per SQL statement on `subdex_block`: `Cursor`,
`HashAt`, `SetCursor` (upsert, then `Prune`), `RollbackTo`.

**ChainIndex.** The abstract specification: a table that is extended by a
segment on top that continues it, forgets rows from the bottom up, and is cut
back to an ancestor.

**Observer.** The three gauges and one operator per hook. `Processor` calls them
where the engine does: `OnHead` when backfill has read the head and when the
stream delivers, `OnBatchCommitted` after a commit, `OnReorg`, which changes no
gauge, with the rewind. A new process starts from zeros.

**Processor.** The whole engine over a store and one of three sources.

| State | Code |
|---|---|
| `canon`, `reorgs` | the node's finalized chain (external) |
| `rows`, `entities` | `subdex_block`, one entity table per handler |
| `next`, `head`, `batch` | locals of `backfill` / `follow_until` |
| `walk` | `height` and `canonical_at_height` of `find_fork_point` |
| `tx` | the open transaction of `commit_batch` |
| `sub` | position of `SubxtSource.finalized_stream` |
| `pc`, `following` | which await the process is at, and in which loop |
| `gauges` | `PrometheusObserver`'s gauges, set through the hooks of `Observer` |
| `steady`, `hiwater` | history, read by properties only |

| Action | Code |
|---|---|
| `ResumeHeight`, `ReadHead`, `LoopDone`, `CompleteBackfill`, `FinishBackfill` | `resume_height`, `backfill`, `run_until` |
| `FetchFromPortal`, `PortalEmpty` | `SqdPortalSource::fetch_batch`, the empty-batch break |
| `RequestSpan`, `AnswerHeight` | `SubxtSource::fetch_batch`, one request per height |
| `DetectReorg`, `AcceptBatch` | the check in `process_batch_blocks` |
| `WalkDown`, `GiveUp`, `Rewind` | `find_fork_point`, `ReorgTooDeep`, `rollback_to` |
| `WriteHandler`, `RecordBlock`, `Commit` | `commit_batch` |
| `Subscribe`, `Deliver`, `StreamError`, `Shutdown` | `next_finalized`, `follow_until` |
| `Fail`, `Restart` | an error out of `run_until`, a crash; a new process |
| `Finalize`, `Reorg` | the node |

In `Processor` there is one action per stretch of code between two awaits that another party
can tell apart. The store has one writer, so its reads are merged with the step
that uses them. A transaction is a private copy of the database that `Commit`
installs and `Fail` drops. The single-block path (`process_block`,
`commit_block`) is the batch path for a batch of one.

**DeferredIndexes.** The catalogue (`present`), the registry table (`registry`),
which handlers have migrated, whether `subdex_block` and the entity tables have
rows, and one process that initialises its handlers in order, backfills,
completes and follows. One action per transaction: `Migrate`
(`run_handler_migrations`), `DeferIndex` and `EnsureIndex` (the two branches of
`defer_index`), `EndBackfill` and `RecreateIndex` (`on_backfill_complete` lists,
then builds one index at a time), `CommitBatch`, `RollbackToEmpty`, `Fail`,
`Restart`. The initial database is new, or was indexed before any of these
handlers was initialised on it. `RollbackToEmpty` stands for a rewind below the
lowest row, which a start height above genesis and a walk that meets pruned
heights both allow.

**TipStream.** One subscription and the loop of `follow_until` over
`next_finalized`. `Subscribe`, `Take`, `Drained` and `Deliver` are the paths of
`next_finalized_once`; `StreamFails`, `ReadFails` and `DecodeFails` its errors,
all through `OnError`, which drops the subscription and consults the budget of
`retry_async`; `Shutdown` drops the call at any await. Blocks are heights: forks
are in `Processor`, which in turn leaves the retries out (an error there either
reopens the stream or ends the run).

**Decode and Ingest.** `Decode` is the data path, as operators: `MapBlock` is
`map_block` over SCALE-decoded items (selection, strict and tolerant mode,
success from the events, timestamp from the inherent), `PortalLine` is what the
portal serves for a block under the request's field selection: its events, and its
calls, nested ones too, each with the origin but not the extrinsic it belongs to.
A raw block says which calls its extrinsics make (`calls`). `MapPortalBlock`
and `JsonToValue` bridge it, `Field`, `AsU128`, `AsAccountSs58` are the readers,
`RowsOf` the three example handlers. Names, accounts and texts are opaque;
integers keep their edges, scaled down (`I64` is 2^63, `Ulp` the spacing of f64
above 2^64). `Ingest` is the backfill around it: the RPC pipeline
`buffered(concurrency)` with `Launch`, `Answer`, `RequestFails` (in any order,
each with its own retries) and `Take` (in order), the portal's single streaming
request, `Write` with `ON CONFLICT DO NOTHING` and the limit of bind parameters,
`Crash`, and `Restart` under any configuration, at or below the old cursor.

**Config and Startup.** `Config` is `load_from`: the file's status, `Overlay`,
`Validate` with its refusals in order, `Build` with defaults and floors, and the
error a load ends with. `Startup` is `main` of the three binaries, one action per
stage, an operator who does what each error asks for (`Restart`) and may edit the
environment between runs (`Edit`), and a growing chain. The engine is there with
its heights: `BackfillBatch` and `TipCommit` record them and prune (`Record`),
`BackfillRewind` and `TipRewind` roll back to wherever `find_fork_point` may end
(`Forks`) and refetch from there, or, at the tip, do not. Which of two hashes
differ is `Processor`'s question, so a fork may show at any row. `first`,
`hiwater`, `dropped` and `followed` are history.

**Schema, Artifacts, Codegen.** `Schema` is `parse_schema`: `Problems` places
every error where the two passes meet it, `ParseError` is the first, `ParseSchema`
the entity model. `Artifacts` says what the generators derive from an entity
(tables, columns, placeholders, casts, resolvers) and when two of them agree.
`Codegen` is the life of a project: `Scaffold` and `WriteFile` write file by file
and may fail in between, `Build` takes what is there, `MigrateHandler` is
`run_handler_migrations` with its tracking tables, on a database that outlives
edits. A rendered file is represented by the schema it was rendered from.

## 3. Runs

| Run | Shows | Result |
|---|---|---|
| `backfill` | from a portal: the rows are one segment, converge to the canonical chain, are rewound to the true ancestor, implement `ChainIndex`; the walk finds its ancestor in the window; every backfill ends | pass |
| `follow` | over RPC, then at the tip, with two handlers: rows, entities and gauges agree; no row sits on another fork, rewinds drop orphans only | pass |
| `hybrid` | backfill reaches the head before following | violated |
| `gap_reorg` | no hole after a fork at the tip | violated |
| `indexes` | no deferred index is forgotten, a registered one is built, all are in place at the tip | pass |
| `tip` | the retry budget holds; one subscription loses no block, whatever fails; errors do not hang the tip | pass |
| `tip_ended` | nor does a subscription that the node closes without an error | violated |
| `startup` | errors lead to a start, a batch size of zero makes progress, backfills with other settings and rewinds leave one run of heights, pruning spares what a walk may visit, nothing is served or indexed before init | pass |
| `codegen` | accepted schemas build unless their names clash, and migrate; what runs fits its tables but for the fields that get no cast; relations resolve; `new` overwrites nothing | pass |
| `scaffold` | the scaffolded project and the schema scaffolded with it fit one database | violated |
| `decode` | batches are runs, one row per watched event, both sources tell the same story (`SameBlock` has the exceptions), what RPC writes is what the chain says but for ids that wrap, a run ends | pass |
| `scalars` | a number reaches its column whichever source delivered it | violated |

The violated runs each check what a document or comment of the repository
claims; `PROJECT.json` quotes the line. In short:

1. After a fork at the tip the refetch height is discarded; the check accepts a
   block whose parent row is missing, so the heights in between stay a hole
   (`gap_reorg`). Blocks finalized between the head that backfill read and the
   first block of the subscription, or while it is reopened, are lost the same
   way.
2. A lagging portal ends a hybrid backfill early (`hybrid`).
3. An ended stream counts as "nothing new" and is never reopened (`tip_ended`).
   `TipReachedOrEnded` is what holds.
4. The scaffolded handler creates a table `events` that the scaffolded schema's
   entity claims too; the generated `CREATE TABLE IF NOT EXISTS` then does
   nothing (`scaffold`).
5. A JSON integer above `u64::MAX` goes through an f64 and is rounded
   (`scalars`).

What else the models show and no run states, because the property is worded to
admit it; where a document of the repository says otherwise, it is named:

- A rewind leaves handler rows of dropped blocks in place (`store.rs` of
  subdex-core says that all data is rolled back, `docs/data-flow.md` admits that
  it is not). `EntitiesCoverRows` is what remains true.
- A fork inside an RPC batch is not seen: hence `steady` in `CommitConverges` and
  `RewindExact`, and `OneViewBackfill` in the theorems.
- Rows are pruned relative to the highest cursor; after a rewind the window is
  smaller than the retention, and a second fork may meet pruned heights. Hence the
  high-water mark in `WindowHoldsAncestor` and `WindowCoversWalk`.
- At height 0 the walk stops without comparing hashes, so `BackfillEnds` needs a
  genesis that all forks share.
- A stream that starts again below the cursor (`Redelivers`; a test of
  `processor.rs` has such a source) has its blocks committed under rows that are on
  record, and rows of the old fork stay above them: nothing in the code forbids it,
  so no property says that a commit at the tip lands on top, and `TipKeepsLinks`
  is checked without it. The theorems on types and entities cover both.
- Following leaves holes (`gap_reorg`), and resuming does not fill them:
  `OneRunOfHeights` speaks of databases in which the tip was never followed.
- After a restart the lag gauge equals the head until the first commit, and
  between a rewind and the commits that follow it the cursor gauge is too high.
- A depth of 0 lifts the limit on the walk, and validation accepts it with any
  retention. A window that is raised later does not bring pruned rows back.
- `[processor] batch_size` in the file wins over `BATCH_SIZE` in the environment,
  although the header of `subdex-config/src/lib.rs` (lines 4 to 8, and 29) says that
  the environment wins. `Startup` models the code.
- From the portal an account field is a hex string, which the readers of the
  handlers do not take: the column is NULL.
- A signer whose address is neither an account nor bare bytes is hex with the
  variant's tag over RPC and without it from the portal. The portal's calls include
  nested ones, so the index of an extrinsic, derived from the position among them,
  is shifted, although `sqd/mapping.rs:59` says that it matches the RPC source.
  `SourcesAgree` leaves these signers and the extrinsics of these blocks out.
- The handlers store an asset id `as i64`, so one of 2^63 or more wraps.
  `RpcRowsExact` compares with the chain's own integer and leaves this column out
  for such an event.
- `parse_schema` compares names before their case is converted: fields, variants or
  an enum and an entity may clash in Rust, and two entities may share a table.
  `AcceptedSchemaBuilds` says that exactly the former do not compile, and claims the
  migration without the latter.
- A `BigInt` or `JSON` in a list gets no cast where the documentation promises lists
  of any scalar (`parse.rs:7`, `lib.rs:41`, `schema-dialect.md:36`), and an `id` that
  is not stored as text is compared with a string. `RunningFitsTables` says that
  exactly the entities with such a field do not fit.
- A batch with more rows than bind parameters fails, and fails again after every
  restart.

GRANDPA finality makes forks rare; the code handles them as a backstop, and these
are the limits of it.

**Bounds.** *Processor:* block trees of five heights: a trunk, a fork after block
1 and, in `ThreeForks`, one after block 0. With `Retention = 2` and
`MaxReorgDepth = 2`, rows are pruned, legal walks reach the lowest row, and walks
that are too deep exist; a batch of two blocks has an inside; two forks let one
happen during the repair of another. `StartHeight` is 0 or 1, so that a walk may
end at genesis or below the first row. `InitHeight`, `MaxReorgs`, `MaxRestarts`
and the tree bound the runs; the largest height stays free (`IsChain`), so
saturating arithmetic never saturates on a chain's own heights.
*DeferredIndexes:* two handlers, one with two indexes, so that a crash falls
between two indexes and between two handlers; two restarts let the second find
what the first left (`MaxRestarts`, `MaxEmptied`). *TipStream:* four heights
(`MaxHead`) and two retries: a stream can fail, be reopened and fail again before,
between and after deliveries. *Ingest:* chains of three or four blocks with a
failed extrinsic, an unusual signer, undecodable fields, an undecodable item, or
numbers at the scaled edges, a nested call or a tagged short address; batches of three with two requests in flight and one
retry, so that answers overtake each other and the pipeline refills; two runs, so
that every pair of configurations meets (`MaxRuns`); `MaxParams = 5` makes a batch
of two rows fail. *Startup:* an environment for each kind of mistake, three
heights, windows of one row, `MaxFaults` failures, rewinds and edits together.
*Codegen:* every scalar and a list of each as a second field, ids of five types,
relations to entities, enums, plain objects and nothing, one document for each way
that names may clash, `MaxEdits = 1` and a database that can be reset; directories
that are empty, hold a file, or are a project.

Deadlock is not checked: a process that stopped and may not restart is a legal
end.

**Fairness.** `BackfillEnds` (run `backfill`) assumes weak fairness of the
engine's own steps (`Backfill`, `Process`, `Follow` together), since the runtime
keeps polling a future that can make progress and requests are answered or fail.
Node, failures, restarts and shutdown are not fair. `indexes` assumes the same of
initialisation and completion, and that a backfill ends, which `BackfillEnds`
shows. `tip` and `tip_ended` assume it of the successful steps of
`next_finalized`; errors are not fair, or they would end every run, and may still
happen at every attempt. `startup` and `decode` assume it of the process's own
steps together (`Step`), in `startup` with the operator who starts it again;
crashes, edits, Ctrl-C, forks, the blocks of the tip and the chain owe nothing.

**Mutants.** Every property of a passing run has a mutated definition
(`Faulty_...`, beside the original) that stands for a plausible mistake in that
code, under which the run finds the property violated.

## 4. Proofs

The assumptions on constants are the named ones of the modules: chains are whole,
hash-linked and shorter than the height range; configuration values are in range;
raw blocks hold sequences; files and environments have numbers, or nothing, where
a number is due. TLC evaluates them on every run. Some theorems have a hypothesis
of their own, a formula over constants, which is named and explained with them.
The modules on the engine build on each other: `ProcessorProofs`, `FollowProofs`,
`IndexProofs`.

`ProcessorProofs`, which begins with the lemmas about tables:

- `TypeCorrect`: `Spec => []TypeOK`. `TypeOK` is not inductive alone: the
  answer to a request must lie below the head it was asked up to, and a batch
  that is processed must be complete and not empty (`BatchOK`).
- `ChainKept`: `OneViewBackfill => (Spec => []RowsFormChain)`. For every set of
  forks, retention, depth bound, start height and number of crashes the rows
  stay one segment, as long as each batch is one view of the chain: a portal
  response, or single blocks from the node. The run `gap_reorg` shows that
  following the tip breaks it. The invariant `ChainInv` adds what the code relies
  on between its awaits: `next` is the height the table awaits; the batch is a
  linked run from there; the walk has a row at or just above its height, so a
  missing row means that nothing lies below; the open transaction is itself a
  segment that awaits the next block of the batch. `SetCursorExtends` and
  `RollbackKeeps` are the two facts about the store.

Also there, for every source, with forks inside batches, redelivery and at
the tip:

- `RowsHaveEntities`: `Spec => []EntitiesCoverRows`. `EntInv` follows the
  transaction: a handler that has written covers the whole batch, and elsewhere
  its table still fits the rows; the batch lies at consecutive heights, which is
  all that `Written` needs.
- `EntitiesAppear`: `Spec => EntitiesAppearWithRow`. `NewRows` adds that what is
  written differs from the database at the batch's heights only, and that what is
  recorded is on record or below the window of the last block.

`FollowProofs`, for every source, in backfill and at the tip, under `GoesForward`:
the live stream never goes back to a fork (with redelivery, rows of the old fork
stay above a block that was delivered again, and no gauge or link is right):

- `GaugesAgree`: `[]GaugesMatchTable`; `LinksKept`: `TipKeepsLinks`;
  `OrphansOnly`: `RewindDropsOrphansOnly`.
- One invariant, `FollowInv`, serves all three. `Seen`: the node only grows, so
  nothing ever taken from it lies above its head. `OnTop`: nothing on record lies
  above the block in hand. `TxTop`: the open transaction has the rows it began
  with, or the last block recorded on top. `Checked`: the verdict of the reorg
  check, taken before handlers and store are awaited, still stands at the commit or the
  rewind. `Canonical`: until the node forks, the batch is canonical and every row
  that the walk has passed is not.

`IndexProofs`, under `OneViewBackfill`:

- `IndexImplemented`: `Spec => ImplementsIndex`. Only `Commit` and `Rewind` change
  the table; a rewind is `CutBack` as it stands. That a commit is `Extend` needs
  `TxExtends` on top of `ChainInv`: at each block recorded, the table of the open
  transaction keeps the committed rows or has forgotten them from the bottom up,
  and its first new block continues them.
- `CommitsConverge`: `CommitConverges`. A segment whose top is canonical is
  canonical all the way down (`AgreesWithChain`), since blocks are linked by
  hashes; so it is enough that the last block of the batch is canonical.
- `RewindsExact`: `OneGenesis => (Spec => RewindExact)`: what a rewind leaves is
  canonical, from the same lemma, and what it drops is not, from `Canonical`.
  At height 0 the walk stops without comparing, so the forks must share their
  genesis, as the forks of one network do.
- `AncestorHeld`: `[]WindowHoldsAncestor` if `Retention = 0` or
  `MaxReorgDepth <= Retention`, which is what the configuration's validation
  enforces. `Window` is the invariant: from the start height to the top every
  height is on record, but what a cursor at the high-water mark has pruned
  (`FilledTo`), in the database and in the open transaction.

`StartupProofs`, for every file, environment and sequence of failures, repairs and
edits:

- `StartupTyped`: `[]TypeOK`; `HeightsAreOneRun`: `[]OneRunOfHeights`;
  `ServesMigrated`: `[]ServedAfterInit`. `StartInv` needs that the
  configuration of a running process is what file and environment say
  (`ConfigOK`), and that the repair of an error leaves a number where one is due
  (`ErrorOK`). `OneRun` is the run of heights, with the height that backfill
  fetches next right above it: a rewind cuts it from the top and moves that height
  along, which holds until the tip is followed.
- `WindowCovered`: `WindowFixed => (Spec => []WindowCoversWalk)`, through rewinds and
  at the tip. Nobody edits the two settings of the window: pruned rows do not come
  back when it is raised.
  `Settled` says that a configuration which once indexed a height still loads and
  is never repaired in these two settings; `WindowHeld` that what its
  retention spares is on record.

`IngestProofs`, for every chain, batch size, concurrency and retry budget:

- `TypeCorrect` and `RunsOnly`: `[]BatchesAreRuns`. `InOrder` says that fetched, in
  flight and wanted heights are one run from the cursor; `Answered` that a request
  which waits for its turn did decode. The two mappings enter by one fact each,
  that they keep the height.
- `OneRow`: `[]OneRowPerEvent`. `RowPerKey` says the same without counting: the
  keys of the rows are the positions of the watched events, and no two rows have
  one key. Both mappings keep place and name of each event (`FetchedEvents`), so a
  block that is indexed again meets its own keys. The counts agree because keying
  is a bijection (`RowsCounted`).
- `SourcesTellTheSame`: `PortalTruthful => (Spec => []SourcesAgree)`. The
  hypothesis is about data that is not computed here: the portal's time of a block
  is the one its only `Timestamp.set` was called with.
- `NodeRowsExact`: `TypedEvents => (Spec => RpcRowsExact)`. The events have the
  fields that their handlers read, which is what a handler is written against. `FromNode` is the invariant: what was fetched from a node is what
  the node's blocks decode to under the current configuration.

`DeferredIndexesProofs`:

- `TypeCorrect`, and `IndexesAtTip`: `Spec => []TipHasIndexes`. The tip holds all
  indexes because init deferred or ensured all of them in this process's life;
  `Coverage` says how far it is at each point, down to the one index in turn.
- `NeverForgotten`: `Spec => IndexNeverForgotten`, from the type invariant and
  the shape of each transaction.

`TipStreamProofs`:

- `TypeCorrect`: the retry counter stays within its budget.
- `NothingSkippedSilently`: `Spec => NoSilentSkip`. `InStep` is the invariant: the
  open subscription continues right above the block in hand or the last
  delivery, and an error leaves no subscription behind. The last part is what
  the reset in `next_finalized` is for.

`CodegenProofs`, in three layers. First `parse_schema` for any document:
`FirstMet` (the error that is reported exists, since positions in a document are
well ordered), so no error means that every check passed (`ParsedIsAccepted`).
Then the generators: an accepted document becomes a schema (`ParsedIsSound`) whose
structs and enums compile if and only if its names do not clash, whose relations
resolve, and whose resolvers are told apart if its tables are; then its script runs
where none of these is there (`ScriptCreates`), and its upserts and resolvers fit the
tables of that script, whatever other tables there are, if and only if each field is
cast or needs no cast (`FieldTypes`, `SoundFits`). Then the life of a project:

- `CodegenTyped`: `Spec => []TypeOK`. A start needs a binary and a binary a handler.
- `ScaffoldsWhole`: `Spec => NewNeverClobbers`. `Scaffolding` is the invariant: once
  `new` has begun, nothing in the directory is the developer's and all earlier
  files are written.
- `RelationsHeld` and `AcceptedBuilds`: `Spec => []RelationsResolve` and
  `Spec => AcceptedSchemaBuilds`, for every document. `Renders` is the invariant:
  each file, also in a binary, comes from an accepted document of some moment; the
  files of one whole run come from the same.
- `RunningFits`: `Spec => []RunningFitsTables`, under `OwnTablesApart`. `Applied` is
  the invariant: the record of the generated migration and the tables agree at every
  point, so a process that got past the generated handler found or left its own
  schema, and nothing else in those tables.

`OwnTablesApart`, that no handwritten table has the name of an entity's, holds in
`codegen`; the scaffolded project breaks it, and the run `scaffold` shows what
follows.

Model-checked only: liveness, which is out of the prover's reach. The case
conversions are constants, so what they do to a name is not proved.

## 5. Not modelled

HTTP, SCALE and metadata (subxt's), Base58 with its checksum and the two-byte SS58
prefix, an outcome of a nested call that differs from its extrinsic's;
the length of a retry's delay; GraphQL syntax, the case conversions of
identifiers (tables in `MCCodegen`), schema directories, the wording of generated
code and the `check` command; counters and histograms; the hand-written resolvers
of the examples, which are read-only queries; the test kit, which stands in for
what is modelled here. In `Processor` a handler's rows are reduced to one row per
block, keyed by height: enough to tell which block a row came from and what a
conflict clause does to it; their columns are in `Decode`. `prepare()` is pure and
merged with opening the transaction. Postgres, the node and the portal are
external; Postgres is assumed to be atomic and durable.

## 6. Plan

1. Composition: the engine with deferred indexes, so that `RollbackToEmpty` is a
   step of the real fork walk; `Startup` over `Processor`.
2. Handlers with more than one row per block in `Processor`.
