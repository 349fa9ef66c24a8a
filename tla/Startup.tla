------------------------------ MODULE Startup -------------------------------
(***************************************************************************)
(* The life of an indexer binary (main.rs of the examples and of the       *)
(* starter template): load the configuration, connect, choose the start    *)
(* height, init, serve GraphQL, backfill, then follow or stay up; stop,    *)
(* fail or crash; and be started again by an operator who repairs what the *)
(* error named and may edit the environment in between.                    *)
(*                                                                         *)
(* The chain here is a growing head; the database is whether its tables    *)
(* exist and which heights subdex_block holds.  The engine resumes,        *)
(* backfills, rewinds, refetches and follows with these heights alone:     *)
(* which of two hashes differ is Processor's, so a fork may show wherever  *)
(* a parent is on record, and reach as far down as the walk may go.  The   *)
(* source is the node (a portal's empty answer is Processor's too).        *)
(***************************************************************************)
EXTENDS Config

CONSTANTS
  Files,      \* the configuration files an operator may have
  Envs,       \* the environments an operator may begin with
  Edits,      \* [variable -> the values an operator may give it later]
  Recent,     \* how far below the head a run without a start height begins
  MaxHead,    \* bound on the chain's finalized height
  MaxFaults   \* bound on failures and edits together

\* The variables and the fields with the numbers that main computes with.
NumericVars == {"BATCH_SIZE", "START_HEIGHT", "REORG_RETENTION", "MAX_REORG_DEPTH"}

NumericKeys == {"source.batch_size", "processor.batch_size", "processor.start_height",
                "store.reorg_retention", "processor.max_reorg_depth"}

ASSUME StartupAssumption ==
  /\ Recent \in Nat
  /\ MaxHead \in Nat \ {0}
  /\ MaxFaults \in Nat
  /\ None \notin Nat
  /\ \A kind \in {"Read", "Parse", "BadEnv", "Missing", "Invalid", "Run"},
        about \in Vars \cup {"file", ""} : Error(kind, about) # None
  /\ \A e \in Envs : /\ DOMAIN e = Vars \cup {"FOLLOW", "SERVE"}
                      /\ \A v \in NumericVars : e[v] \in Nat \cup {None, Malformed}
  /\ \A f \in Files, k \in NumericKeys : f.keys[k] \in Nat \cup {None}
  /\ DOMAIN Edits \subseteq Vars \cup {"FOLLOW", "SERVE"}
  /\ \A v \in DOMAIN Edits \cap NumericVars :
       Edits[v] \subseteq Nat \cup {None, Malformed}

VARIABLES
  env, file,   \* the operator's inputs
  phase,       \* where main is
  cfg,         \* the configuration main holds
  error,       \* what main returned, None if nothing
  target,      \* the head that backfill read, 0 when it does not run
  next,        \* the height it fetches next, 0 when it does not run
  api,         \* the GraphQL task: "off", "spawned", "up" or "failed"
  migrated,    \* the database has subdex_block and the handlers' tables
  table,       \* the heights in subdex_block
  first,       \* history: the height at which the rows on record began
  hiwater,     \* history: the highest height ever indexed
  dropped,     \* history: the heights whose last row pruning deleted
  followed,    \* history: a block of the tip has been processed
  head,        \* the chain's finalized height
  faults       \* failures and edits so far

inputs == <<env, file>>
loop == <<target, next>>
rows == <<table, first, hiwater, dropped, followed>>
database == <<migrated, rows>>
vars == <<inputs, phase, cfg, error, loop, api, database, head, faults>>

Follow == env["FOLLOW"] # "0"
Serve == env["SERVE"] # "0"

Running == {"loaded", "connected", "ready", "backfill", "follow", "serving"}

Highest(S) == CHOOSE h \in S : \A k \in S : k <= h
Lowest(S) == CHOOSE h \in S : \A k \in S : h <= k
Minus(a, b) == IF a < b THEN 0 ELSE a - b

Init ==
  /\ env \in Envs
  /\ file \in Files
  /\ phase = "off"
  /\ cfg = NoFile.keys
  /\ error = None
  /\ target = 0
  /\ next = 0
  /\ api = "off"
  /\ migrated = FALSE
  /\ table = {}
  /\ first = None
  /\ hiwater = 0
  /\ dropped = {}
  /\ followed = FALSE
  /\ head \in 1..MaxHead
  /\ faults = 0

-----------------------------------------------------------------------------
(* One start of the process.                                               *)

\* IndexerConfig::load()?
LoadConfig ==
  /\ phase = "off"
  /\ LoadError(file, env) = None
  /\ cfg' = Loaded(file, env)
  /\ phase' = "loaded"
  /\ UNCHANGED <<inputs, error, loop, api, database, head, faults>>

RefuseConfig ==
  /\ phase = "off"
  /\ error' = LoadError(file, env)
  /\ error' # None
  /\ phase' = "failed"
  /\ UNCHANGED <<inputs, cfg, loop, api, database, head, faults>>

\* Connect to node and database, read the head, settle the start height.
Connect ==
  /\ phase = "loaded"
  /\ LET given == cfg["processor.start_height"]
     IN  cfg' = [Build(cfg) EXCEPT
                   !["processor.start_height"] = OrElse(given, Minus(head, Recent))]
  /\ phase' = "connected"
  /\ UNCHANGED <<inputs, error, loop, api, database, head, faults>>

\* processor.init(): migrations of the store and of the handlers.
InitStore ==
  /\ phase = "connected"
  /\ migrated' = TRUE
  /\ phase' = "ready"
  /\ UNCHANGED <<inputs, cfg, error, loop, api, rows, head, faults>>

\* resume_height: behind the cursor, or at the start height.
ResumeHeight ==
  IF table = {} THEN cfg["processor.start_height"] ELSE Highest(table) + 1

\* Spawn the GraphQL task if asked to, and enter backfill, which reads the head.
Faulty_BeginBackfill ==   \* does not wait for init
  /\ phase \in {"connected", "ready"}
  /\ api' = IF Serve THEN "spawned" ELSE "off"
  /\ next' = ResumeHeight
  /\ target' = head
  /\ phase' = "backfill"
  /\ UNCHANGED <<inputs, cfg, error, database, head, faults>>

BeginBackfill ==
  /\ phase = "ready"
  /\ api' = IF Serve THEN "spawned" ELSE "off"
  /\ next' = ResumeHeight
  /\ target' = head
  /\ phase' = "backfill"
  /\ UNCHANGED <<inputs, cfg, error, database, head, faults>>

\* The task binds its port and serves, or logs an error and is gone.
Bind ==
  /\ api = "spawned"
  /\ api' \in {"up", "failed"}
  /\ UNCHANGED <<inputs, phase, cfg, error, loop, database, head, faults>>

\* One transaction: the rows of from..to, and set_cursor's pruning below the last.
Record(from, to) ==
  LET retention == cfg["store.reorg_retention"]
      written   == table \cup from..to
      kept      == {h \in written : retention = 0 \/ h >= Minus(to, retention)}
  IN  /\ table' = kept
      /\ dropped' = (dropped \cup written) \ kept
      /\ first' = IF table = {} THEN from ELSE first
      /\ hiwater' = IF hiwater < to THEN to ELSE hiwater

\* find_fork_point: where a walk may end that starts at p, whose row has another
\* hash.  Each row it passes differs; it ends at one that does not, at a height
\* without a row, or at 0, and no deeper below the cursor than it may.
Forks(p) ==
  LET depth == cfg["processor.max_reorg_depth"]
  IN  {f \in 0..p : /\ p \in table /\ (f < p \/ p = 0)
                    /\ (f + 1)..p \subseteq table
                    /\ depth = 0 \/ Minus(Highest(table), f) <= depth}

\* rollback_to(f).
RollBack(f) ==
  /\ faults < MaxFaults
  /\ faults' = faults + 1
  /\ table' = {h \in table : h <= f}
  /\ UNCHANGED <<inputs, phase, cfg, error, target, api, migrated, first, hiwater,
                 dropped, head>>

BatchEnd ==
  LET most == CHOOSE n \in {cfg["processor.batch_size"], cfg["source.batch_size"]} :
                n <= cfg["processor.batch_size"] /\ n <= cfg["source.batch_size"]
      end  == next + most - 1
  IN  IF end < target THEN end ELSE target

\* A batch whose first block fits the row below it, or finds none, is committed.
BackfillBatch ==
  /\ phase = "backfill"
  /\ next <= target
  /\ Record(next, BatchEnd)
  /\ next' = BatchEnd + 1
  /\ UNCHANGED <<inputs, phase, cfg, error, target, api, migrated, followed, head,
                 faults>>

\* One that does not fit rolls back to the fork, and backfill goes on from there.
Faulty_BackfillRewind ==   \* ignores where to fetch from
  /\ phase = "backfill"
  /\ 0 < next /\ next <= target
  /\ \E f \in Forks(next - 1) : RollBack(f)
  /\ UNCHANGED <<next, followed>>

BackfillRewind ==
  /\ phase = "backfill"
  /\ 0 < next /\ next <= target
  /\ \E f \in Forks(next - 1) : RollBack(f) /\ next' = f + 1
  /\ UNCHANGED followed

\* Caught up: follow the tip, stay up for the API, or return.
Faulty_EndBackfill ==   \* returns without waiting for Ctrl-C or dropping the API
  /\ phase = "backfill"
  /\ next > target
  /\ phase' = IF Follow THEN "follow" ELSE "done"
  /\ target' = 0 /\ next' = 0
  /\ UNCHANGED <<inputs, cfg, error, api, database, head, faults>>

EndBackfill ==
  /\ phase = "backfill"
  /\ next > target
  /\ phase' = IF Follow THEN "follow" ELSE IF Serve THEN "serving" ELSE "done"
  /\ api' = IF phase' = "done" THEN "off" ELSE api
  /\ target' = 0 /\ next' = 0
  /\ UNCHANGED <<inputs, cfg, error, database, head, faults>>

\* The stream of the tip delivers a finalized block.  It may have passed over some
\* since the last, and may start again below the cursor.
TipCommit ==
  /\ phase = "follow"
  /\ \E n \in 0..head : Record(n, n)
  /\ followed' = TRUE
  /\ UNCHANGED <<inputs, phase, cfg, error, loop, api, migrated, head, faults>>

\* A block that does not fit rolls back to the fork; where to fetch from is dropped.
TipRewind ==
  /\ phase = "follow"
  /\ \E n \in 1..head : \E f \in Forks(n - 1) : RollBack(f)
  /\ followed' = TRUE
  /\ UNCHANGED next

\* Ctrl-C ends following, or the wait that keeps the API up.
Interrupt ==
  /\ phase \in {"follow", "serving"}
  /\ phase' = "done"
  /\ api' = "off"
  /\ UNCHANGED <<inputs, cfg, error, loop, database, head, faults>>

\* An error leaves main by `?`, or the process is killed; the API goes with it.
Abort ==
  /\ phase \in Running
  /\ faults < MaxFaults
  /\ error' = Error("Run", "")
  /\ phase' = "failed"
  /\ api' = "off"
  /\ faults' = faults + 1
  /\ target' = 0 /\ next' = 0
  /\ UNCHANGED <<inputs, cfg, database, head>>

-----------------------------------------------------------------------------
(* The operator and the chain.                                             *)

\* Start again, after doing what the error asks for.
Restart ==
  /\ phase \in {"failed", "done"}
  /\ file' = IF error # None /\ error.kind \in {"Read", "Parse"} THEN NoFile ELSE file
  /\ env' = IF error = None THEN env
            ELSE CASE error.kind = "BadEnv"  -> [env EXCEPT ![error.about] = None]
                   [] error.kind = "Missing" -> [env EXCEPT ![error.about] = Url]
                   [] error.kind = "Invalid" -> [env EXCEPT ![error.about] = 0]
                   [] OTHER                  -> env
  /\ error' = None
  /\ phase' = "off"
  /\ UNCHANGED <<cfg, loop, api, database, head, faults>>

Edit ==
  /\ faults < MaxFaults
  /\ phase \in {"failed", "done"}
  /\ \E v \in DOMAIN Edits : \E x \in Edits[v] :
       x # env[v] /\ env' = [env EXCEPT ![v] = x]
  /\ faults' = faults + 1
  /\ UNCHANGED <<file, phase, cfg, error, loop, api, database, head>>

Finalize ==
  /\ head < MaxHead
  /\ head' = head + 1
  /\ UNCHANGED <<inputs, phase, cfg, error, loop, api, database, faults>>

Step ==
  \/ LoadConfig \/ RefuseConfig \/ Connect \/ InitStore \/ BeginBackfill
  \/ BackfillBatch \/ EndBackfill \/ Restart

Next ==
  \/ Step \/ BackfillRewind \/ TipCommit \/ TipRewind
  \/ Bind \/ Interrupt \/ Abort \/ Edit \/ Finalize

Spec == Init /\ [][Next]_vars

\* main runs on, and whoever operates it starts it again.  Forks and the blocks of
\* the tip come when they come.
FairSpec == Spec /\ WF_vars(Step)

-----------------------------------------------------------------------------
(* Properties.                                                             *)

TypeOK ==
  /\ phase \in Running \cup {"off", "failed", "done"}
  /\ api \in {"off", "spawned", "up", "failed"}
  /\ phase \notin Running => api = "off"
  /\ DOMAIN cfg = Keys
  /\ table \subseteq 0..MaxHead /\ dropped \subseteq 0..MaxHead
  /\ target \in 0..MaxHead /\ next \in Nat /\ hiwater \in 0..MaxHead
  /\ migrated \in BOOLEAN /\ followed \in BOOLEAN
  /\ phase = "failed" <=> error # None

\* load_status: the height and the count that indexerStatus answers with.
Status == [height |-> IF table = {} THEN None ELSE Highest(table),
           indexed_blocks |-> Cardinality(table)]

\* In a database that has only been backfilled, whatever start height, batch size
\* and window later runs are given, wherever a run died and through every rewind
\* and refetch, the blocks on record are one run of heights: indexerStatus counts as
\* many as lie between the lowest it retains and its height, and nothing was
\* indexed below where the run began.  (Following makes no such promise: a fork
\* found there leaves heights out, which GapFree of Processor shows.)
OneRunOfHeights ==
  ~followed /\ table # {} =>
    /\ Status.indexed_blocks = Status.height - Lowest(table) + 1
    /\ first <= Lowest(table)

\* A GraphQL server answers only over a database whose tables exist ("ensure
\* the schema exists before serving queries"), and nothing is indexed without
\* them.
ServedAfterInit ==
  api # "off" \/ table # {} \/ phase = "backfill" => migrated

\* What pruning ever took, in backfill or at the tip, through rewinds and restarts,
\* lies deeper below the highest height ever indexed than a walk may go: from there
\* no permitted fork walk mistakes a pruned height for the ancestor.  (After a
\* rewind the cursor is lower, and a second fork may meet pruned heights.  A depth of
\* 0 lifts the limit, and validate accepts it with any retention: then nothing is
\* said.)
WindowCoversWalk ==
  phase \in {"backfill", "follow"} =>
    LET depth == cfg["processor.max_reorg_depth"]
    IN  depth # 0 => \A h \in dropped : h < Minus(hiwater, depth)

\* An operator who does what each error asks for gets past the configuration,
\* if the environment is left alone from then on.
ErrorsLeadToStart == []<>(phase \in Running)

\* A backfill that is neither stopped nor killed reaches the head it read,
\* for every batch size that the configuration accepts.
BackfillReachesHead ==
  (phase = "backfill") ~> (phase # "backfill" \/ (table # {} /\ Highest(table) >= target))
=============================================================================
