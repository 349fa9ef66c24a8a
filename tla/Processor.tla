----------------------------- MODULE Processor ------------------------------
(***************************************************************************)
(* The indexing engine of crates/subdex (processor.rs) over a PgStore and  *)
(* one of the three data sources, against a node whose finalized chain     *)
(* grows and may be replaced by a fork.                                    *)
(*                                                                         *)
(* One action per stretch of code between two awaits that another party    *)
(* can tell apart: the node moves, a request is answered, the process      *)
(* dies, a transaction commits.  The store has one writer, this process,   *)
(* so its reads are merged with the step that uses them.                   *)
(*                                                                         *)
(* Simplifications                                                         *)
(*  - a handler writes one row per block that has events, keyed by height; *)
(*    the row's content is the block it was decoded from;                  *)
(*  - prepare() is pure compute and is merged with opening the transaction;*)
(*  - an empty batch at the tip changes nothing and is a stutter;          *)
(*  - the store's deferred indexes are not represented here.               *)
(***************************************************************************)
EXTENDS BlockTable, Observer, Sequences

CONSTANTS
  StartHeight,     \* ProcessorConfig.start_height
  BatchSize,       \* the smaller of the processor's and the source's batch_size
  MaxReorgDepth,   \* ProcessorConfig.max_reorg_depth; 0 is unbounded
  NHandlers,       \* number of handlers, written in order 1..NHandlers
  OnConflict,      \* per handler: "nothing" or "update", its ON CONFLICT clause
  HasEvents,       \* the blocks from which the handlers derive a row
  Source,          \* "subxt", "sqd" or "hybrid"
  FollowTip,       \* run_until/follow_until after backfill, or backfill only
  Redelivers,      \* after a fork the node's stream goes back to it
  InitHeight,      \* head of the node's chain at the start
  MaxReorgs,       \* bound on the node's forks
  MaxRestarts      \* bound on the restarts of the process

Handlers == 1..NHandlers

ASSUME ProcessorAssumption ==
  /\ StartHeight \in Height
  /\ BatchSize \in Nat \ {0}
  /\ MaxReorgDepth \in Nat
  /\ NHandlers \in Nat
  /\ OnConflict \in [Handlers -> {"nothing", "update"}]
  /\ HasEvents \subseteq Hash
  /\ Source \in {"subxt", "sqd", "hybrid"}
  /\ FollowTip \in BOOLEAN
  /\ Redelivers \in BOOLEAN
  /\ InitHeight \in Height
  /\ MaxReorgs \in Nat
  /\ MaxRestarts \in Nat

VARIABLES
  \* the node
  canon,      \* its finalized chain
  reorgs,     \* forks so far
  \* the database
  rows,       \* subdex_block
  entities,   \* per handler, its entity table keyed by height
  \* the process
  pc,         \* where it is
  following,  \* in follow_until rather than in backfill
  next,       \* backfill's next height
  head,       \* the head backfill read when it began
  batch,      \* the blocks being fetched or processed; None: not answered yet
  walk,       \* find_fork_point: the height and the canonical hash there
  tx,         \* the open transaction, and how far it is written
  sub,        \* height the finalized stream delivers next, None: unsubscribed
  gauges,     \* what its observer shows
  restarts,   \* restarts so far
  \* history, read by the properties only
  steady,     \* the node has not forked since the current batch was asked for
  hiwater     \* the highest cursor ever committed, None before the first

node == <<canon, reorgs>>
database == <<rows, entities>>
locals == <<following, next, head, gauges>>
history == <<steady, hiwater>>

vars == <<canon, reorgs, rows, entities, pc, following, next, head, batch,
          walk, tx, sub, gauges, restarts, steady, hiwater>>

\* Idle values of the process's variables.
NoWalk == [height |-> 0, hash |-> None]

NoTx == [rows |-> EmptyTable, entities |-> [h \in Handlers |-> EmptyTable],
         written |-> 0, recorded |-> 0]

\* The process has returned or died.
Down == {"failed", "tooDeep", "stopped"}

Running == {"resume", "head", "loop", "fetch", "check", "walk", "tx",
            "complete", "tip"}

Init ==
  /\ canon \in {c \in Chains : Top(c) = InitHeight}
  /\ reorgs = 0
  /\ rows = EmptyTable
  /\ entities = [h \in Handlers |-> EmptyTable]
  /\ pc = "resume"
  /\ following = FALSE
  /\ next = 0
  /\ head = 0
  /\ batch = <<>>
  /\ walk = NoWalk
  /\ tx = NoTx
  /\ sub = None
  /\ gauges = NoGauges
  /\ restarts = 0
  /\ steady = FALSE
  /\ hiwater = None

-----------------------------------------------------------------------------
(* The node.                                                               *)

\* GRANDPA finalizes one more block.
Finalize ==
  /\ \E c \in Chains : ExtendsByOne(c, canon) /\ canon' = c
  /\ UNCHANGED <<reorgs, database, pc, locals, batch, walk, tx, sub, restarts,
                 history>>

\* The node shows another fork, no shorter than the one before.  A live
\* subscription goes on from its position, or from the fork if it redelivers.
Reorg ==
  /\ reorgs < MaxReorgs
  /\ \E c \in Chains :
       /\ Diverge(c, canon)
       /\ Top(c) >= Top(canon)
       /\ canon' = c
       /\ sub' = IF sub # None /\ Redelivers
                 THEN Least(sub, FirstDifference(c, canon))
                 ELSE sub
  /\ reorgs' = reorgs + 1
  /\ steady' = FALSE
  /\ UNCHANGED <<database, pc, locals, batch, walk, tx, restarts, hiwater>>

-----------------------------------------------------------------------------
(* Starting and stopping.                                                  *)

\* The process ends: its memory and its open transaction are gone.
Halt(outcome) ==
  /\ pc' = outcome
  /\ following' = FALSE
  /\ next' = 0
  /\ head' = 0
  /\ batch' = <<>>
  /\ walk' = NoWalk
  /\ tx' = NoTx
  /\ sub' = None
  /\ gauges' = NoGauges
  /\ steady' = FALSE
  /\ UNCHANGED <<node, database, restarts, hiwater>>

\* An await returned an error that ends the run, or the process crashed.
Fail ==
  /\ pc \in Running
  /\ Halt("failed")

Restart ==
  /\ pc \in Down
  /\ restarts < MaxRestarts
  /\ restarts' = restarts + 1
  /\ pc' = "resume"
  /\ UNCHANGED <<node, database, locals, batch, walk, tx, sub, history>>

-----------------------------------------------------------------------------
(* Backfill.                                                               *)

\* resume_height().
Faulty_ResumeHeight ==   \* no start_height on an empty table
  /\ pc = "resume"
  /\ next' = IF Cursor(rows) = None THEN None ELSE SatAdd(Cursor(rows), 1)
  /\ pc' = "head"
  /\ UNCHANGED <<node, database, following, head, batch, walk, tx, sub, gauges,
                 restarts, history>>

ResumeHeight ==
  /\ pc = "resume"
  /\ next' = IF Cursor(rows) = None THEN StartHeight
             ELSE SatAdd(Cursor(rows), 1)
  /\ pc' = "head"
  /\ UNCHANGED <<node, database, following, head, batch, walk, tx, sub, gauges,
                 restarts, history>>

\* finalized_head().  A portal on its own may lag behind the node; the hybrid
\* takes the larger head of portal and node.
FinalizedHeads == IF Source = "sqd" THEN 0..Top(canon) ELSE {Top(canon)}

\* backfill() reads it once.
ReadHead ==
  /\ pc = "head"
  /\ head' \in FinalizedHeads
  /\ gauges' = OnHead(gauges, head')
  /\ pc' = "loop"
  /\ UNCHANGED <<node, database, following, next, batch, walk, tx, sub,
                 restarts, history>>

\* How many blocks the loop asks for.
Asked == Least(SatAdd(next, BatchSize - 1), head) - next + 1

\* One portal response: a prefix of what was asked for, out of one view.
FetchFromPortal ==
  /\ pc = "loop"
  /\ next <= head
  /\ Source # "subxt"
  /\ \E n \in 1..Asked :
       /\ \A i \in 1..n : canon[next + i - 1] # None
       /\ batch' = [i \in 1..n |-> canon[next + i - 1]]
  /\ steady' = TRUE
  /\ pc' = "check"
  /\ UNCHANGED <<node, database, locals, walk, tx, sub, restarts, hiwater>>

\* The portal does not hold the range yet: an empty batch, the loop breaks.
PortalEmpty ==
  /\ pc = "loop"
  /\ next <= head
  /\ Source # "subxt"
  /\ pc' = "complete"
  /\ UNCHANGED <<node, database, locals, batch, walk, tx, sub, restarts,
                 history>>

\* SubxtSource::fetch_batch opens one request per height, all in flight.
RequestSpan ==
  /\ pc = "loop"
  /\ next <= head
  /\ Source = "subxt"
  /\ batch' = [i \in 1..Asked |-> None]
  /\ steady' = TRUE
  /\ pc' = "fetch"
  /\ UNCHANGED <<node, database, locals, walk, tx, sub, restarts, hiwater>>

\* Any of them is answered, by number, from the chain of that moment.
AnswerHeight(i) ==
  /\ pc = "fetch"
  /\ i \in DOMAIN batch
  /\ batch[i] = None
  /\ canon[next + i - 1] # None
  /\ batch' = [batch EXCEPT ![i] = canon[next + i - 1]]
  /\ pc' = IF \A j \in DOMAIN batch : batch'[j] # None THEN "check" ELSE "fetch"
  /\ UNCHANGED <<node, database, locals, walk, tx, sub, restarts, history>>

LoopDone ==
  /\ pc = "loop"
  /\ next > head
  /\ pc' = "complete"
  /\ UNCHANGED <<node, database, locals, batch, walk, tx, sub, restarts,
                 history>>

\* on_backfill_complete(), then follow or return.
CompleteBackfill ==
  /\ pc = "complete"
  /\ FollowTip
  /\ pc' = "tip"
  /\ following' = TRUE
  /\ next' = 0
  /\ head' = 0
  /\ UNCHANGED <<node, database, batch, walk, tx, sub, gauges, restarts, history>>

FinishBackfill ==
  /\ pc = "complete"
  /\ ~FollowTip
  /\ Halt("stopped")

-----------------------------------------------------------------------------
(* process_batch_blocks: the check at the batch boundary.                  *)

\* The stored parent of b is another block than b says.
Faulty_Diverged(b) == FALSE   \* no check at all

Diverged(b) ==
  /\ Number[b] > 0
  /\ HashAt(rows, Number[b] - 1) # None
  /\ HashAt(rows, Number[b] - 1) # Parent[b]

\* A mismatch: find_fork_point starts at the parent, whose canonical hash the
\* incoming block names.
DetectReorg ==
  /\ pc = "check"
  /\ Diverged(batch[1])
  /\ walk' = [height |-> Number[batch[1]] - 1, hash |-> Parent[batch[1]]]
  /\ pc' = "walk"
  /\ UNCHANGED <<node, database, locals, batch, tx, sub, restarts, history>>

\* The parent matches, or no row is held for it: prepare and begin.
AcceptBatch ==
  /\ pc = "check"
  /\ ~Diverged(batch[1])
  /\ tx' = [NoTx EXCEPT !.rows = rows, !.entities = entities]
  /\ pc' = "tx"
  /\ UNCHANGED <<node, database, locals, batch, walk, sub, restarts, history>>

-----------------------------------------------------------------------------
(* find_fork_point and the rewind.                                         *)

WalkDepth ==
  SatSub(IF Cursor(rows) = None THEN 0 ELSE Cursor(rows), walk.height)

TooDeep == MaxReorgDepth # 0 /\ WalkDepth > MaxReorgDepth

\* The walk stops: no row here, agreement, or genesis.
Faulty_AtFork == HashAt(rows, walk.height) # None   \* any row will do

AtFork ==
  \/ HashAt(rows, walk.height) = None
  \/ HashAt(rows, walk.height) = walk.hash
  \/ walk.height = 0

\* Err(ReorgTooDeep).
GiveUp ==
  /\ pc = "walk"
  /\ TooDeep
  /\ Halt("tooDeep")

\* One height down: ask the source for its hash there.
WalkDown ==
  /\ pc = "walk"
  /\ ~TooDeep
  /\ ~AtFork
  /\ canon[walk.height - 1] # None
  /\ walk' = [height |-> walk.height - 1, hash |-> canon[walk.height - 1]]
  /\ UNCHANGED <<node, database, pc, locals, batch, tx, sub, restarts, history>>

\* rollback_to(fork).  Backfill refetches from fork + 1; follow_until drops
\* that answer and waits for the stream.
Rewind ==
  /\ pc = "walk"
  /\ ~TooDeep
  /\ AtFork
  /\ rows' = RollbackTo(rows, walk.height)
  /\ next' = IF following THEN 0 ELSE SatAdd(walk.height, 1)
  /\ pc' = IF following THEN "tip" ELSE "loop"
  /\ batch' = <<>>
  /\ walk' = NoWalk
  /\ gauges' = OnReorg(gauges)
  /\ UNCHANGED <<node, entities, following, head, tx, sub, restarts, history>>

-----------------------------------------------------------------------------
(* commit_batch.                                                           *)

\* A handler's table after it wrote the batch.  The blocks of a batch have
\* consecutive heights, so the one of height h has a known index.
Written(table, clause) ==
  [h \in Height |->
     LET i == h - Number[batch[1]] + 1
     IN  IF /\ i \in DOMAIN batch
            /\ batch[i] \in HasEvents
            /\ clause = "update" \/ table[h] = None
         THEN batch[i]
         ELSE table[h]]

\* Write phase, one handler after the other on the one transaction.
Faulty_WriteHandler ==   \* writes outside of the transaction
  LET h == tx.written + 1 IN
  /\ pc = "tx"
  /\ h \in Handlers
  /\ entities' = [entities EXCEPT ![h] = Written(@, OnConflict[h])]
  /\ tx' = [tx EXCEPT !.written = h, !.entities = entities']
  /\ UNCHANGED <<node, rows, pc, locals, batch, walk, sub, restarts, history>>

WriteHandler ==
  LET h == tx.written + 1 IN
  /\ pc = "tx"
  /\ h \in Handlers
  /\ tx' = [tx EXCEPT !.written = h,
                      !.entities[h] = Written(@, OnConflict[h])]
  /\ UNCHANGED <<node, database, pc, locals, batch, walk, sub, restarts,
                 history>>

\* set_cursor for one block after the other, once the handlers are done.
Faulty_RecordBlock ==   \* does not wait for the last handler
  /\ pc = "tx"
  /\ tx.written + 1 >= NHandlers
  /\ tx.recorded < Len(batch)
  /\ tx' = [tx EXCEPT !.written = NHandlers,
                      !.recorded = @ + 1,
                      !.rows = SetCursor(@, batch[tx.recorded + 1])]
  /\ UNCHANGED <<node, database, pc, locals, batch, walk, sub, restarts,
                 history>>

RecordBlock ==
  /\ pc = "tx"
  /\ tx.written = NHandlers
  /\ tx.recorded < Len(batch)
  /\ tx' = [tx EXCEPT !.recorded = @ + 1,
                      !.rows = SetCursor(@, batch[tx.recorded + 1])]
  /\ UNCHANGED <<node, database, pc, locals, batch, walk, sub, restarts,
                 history>>

\* COMMIT: handler rows and bookkeeping become visible together.
Commit ==
  /\ pc = "tx"
  /\ tx.written = NHandlers
  /\ tx.recorded = Len(batch)
  /\ rows' = tx.rows
  /\ entities' = tx.entities
  /\ next' = IF following THEN 0 ELSE SatAdd(Number[batch[Len(batch)]], 1)
  /\ pc' = IF following THEN "tip" ELSE "loop"
  /\ batch' = <<>>
  /\ tx' = NoTx
  /\ hiwater' = IF hiwater = None \/ hiwater < Cursor(tx.rows)
                THEN Cursor(tx.rows) ELSE hiwater
  /\ gauges' = OnBatchCommitted(gauges, Number[batch[Len(batch)]])
  /\ UNCHANGED <<node, following, head, walk, sub, restarts, steady>>

-----------------------------------------------------------------------------
(* follow_until.                                                           *)

\* The node opens a finalized-blocks subscription at its current head.  Only
\* subxt has one; the portal's next_finalized is an error (see Fail).
Subscribe ==
  /\ pc = "tip"
  /\ Source # "sqd"
  /\ sub = None
  /\ sub' = Top(canon)
  /\ UNCHANGED <<node, database, pc, locals, batch, walk, tx, restarts,
                 history>>

\* The stream yields one block, in height order.
Deliver ==
  /\ pc = "tip"
  /\ sub # None
  /\ canon[sub] # None
  /\ batch' = <<canon[sub]>>
  /\ sub' = sub + 1
  /\ gauges' = OnHead(gauges, sub)
  /\ steady' = TRUE
  /\ pc' = "check"
  /\ UNCHANGED <<node, database, following, next, head, walk, tx, restarts,
                 hiwater>>

\* An error on the stream drops the subscription; the retry opens another.
StreamError ==
  /\ pc = "tip"
  /\ sub # None
  /\ sub' = None
  /\ UNCHANGED <<node, database, pc, locals, batch, walk, tx, restarts,
                 history>>

\* The shutdown future wins the select: only ever between two batches.
Shutdown ==
  /\ pc = "tip"
  /\ Halt("stopped")

-----------------------------------------------------------------------------
Backfill ==
  \/ ResumeHeight \/ ReadHead \/ FetchFromPortal \/ PortalEmpty \/ RequestSpan
  \/ (\E i \in 1..BatchSize : AnswerHeight(i))
  \/ LoopDone \/ CompleteBackfill \/ FinishBackfill

Process ==
  \/ DetectReorg \/ AcceptBatch
  \/ GiveUp \/ WalkDown \/ Rewind
  \/ WriteHandler \/ RecordBlock \/ Commit

Follow == Subscribe \/ Deliver

Next ==
  \/ Finalize \/ Reorg
  \/ Fail \/ Restart \/ StreamError \/ Shutdown
  \/ Backfill \/ Process \/ Follow

Spec == Init /\ [][Next]_vars

\* The runtime keeps polling the engine: a step it can take is taken.  Node,
\* failures, restarts and shutdown owe nothing.
FairSpec == Spec /\ WF_vars(Backfill \/ Process \/ Follow)

-----------------------------------------------------------------------------
(* Properties.                                                             *)

TypeOK ==
  /\ canon \in Chains
  /\ reorgs \in 0..MaxReorgs
  /\ rows \in Tables
  /\ entities \in [Handlers -> Tables]
  /\ pc \in Running \cup Down
  /\ following \in BOOLEAN
  /\ next \in Height
  /\ head \in Height
  /\ batch \in Seq(Hash \cup {None})
  /\ walk \in [height : Height, hash : Hash \cup {None}]
  /\ tx \in [rows : Tables, entities : [Handlers -> Tables],
             written : 0..NHandlers, recorded : Nat]
  /\ sub \in Height \cup {None}
  /\ gauges \in Gauges
  /\ restarts \in 0..MaxRestarts
  /\ steady \in BOOLEAN
  /\ hiwater \in Height \cup {None}

\* The bookkeeping rows form one hole-free segment of one chain: whatever
\* forks, crashes and restarts come between the batches, no row sits on a row
\* of another fork and no height between the lowest row and the cursor is
\* missing (process_batch_blocks, find_fork_point, rollback_to, set_cursor).
RowsFormChain == IsSegment(rows)

\* A hole-free table, the part of RowsFormChain that resuming from
\* `cursor + 1` relies on: a height below the cursor is never fetched again.
GapFree == Contiguous(rows)

\* Neighbouring rows belong to one fork, the other part.
RowsLinked == InPlace(rows) /\ Linked(rows)

\* A commit at the tip never puts a row next to one of another fork: not after a
\* rewind whose refetch height was dropped, a new subscription or a restart.  Only a
\* batch whose heights were answered before and after a fork unlinks rows, and a
\* tip batch is one block.
TipKeepsLinks ==
  [][Commit /\ following /\ RowsLinked => RowsLinked']_vars

\* A commit whose blocks were read from a node that has not forked since
\* leaves canonical rows only, also when older rows were left over from a fork
\* that happened while the process was down.
CommitConverges ==
  [][Commit /\ steady => \A h \in Height : rows'[h] \in {None, canon[h]}]_vars

\* A rewind drops exactly the orphans: what it leaves is canonical and what it
\* drops is not (find_fork_point finds the true common ancestor).
RewindExact ==
  [][Rewind /\ steady =>
       \A h \in Height :
         /\ rows'[h] \in {None, canon[h]}
         /\ rows[h] # None /\ rows'[h] = None => rows[h] # canon[h]]_vars

\* The second half alone, which also holds where following the tip has left
\* holes in the table, as long as no batch was fetched across a fork.
RewindDropsOrphansOnly ==
  [][Rewind /\ steady /\ RowsLinked =>
       \A h \in Height :
         rows[h] # None /\ rows'[h] = None => rows[h] # canon[h]]_vars

\* The engine implements a chain index.
Index == INSTANCE ChainIndex WITH table <- rows

ImplementsIndex == Index!Spec

\* Every block that is on record had its handler rows written, by every
\* handler; one that updates on conflict holds that very block's row.
EntitiesCoverRows ==
  \A k \in Handlers, h \in Height :
    rows[h] \in HasEvents =>
      /\ entities[k][h] # None
      /\ OnConflict[k] = "update" => entities[k][h] = rows[h]

\* A handler's row becomes visible in the very step that puts its block on
\* record, or moves the cursor so far that the record is already pruned.
EntitiesAppearWithRow ==
  [][\A k \in Handlers, h \in Height :
       entities'[k][h] # entities[k][h] =>
         \/ rows'[h] = entities'[k][h]
         \/ Retention > 0 /\ ~IsEmpty(rows') /\ h < Top(rows') - Retention]_vars

\* While the cursor is at its high-water mark, the walk of a reorg that is not
\* deeper than max_reorg_depth never meets a pruned height: it stops at a row,
\* or below everything that was ever indexed.
WindowHoldsAncestor ==
  pc = "walk" /\ ~TooDeep /\ MaxReorgDepth # 0 /\ Cursor(rows) = hiwater =>
    \/ rows[walk.height] # None
    \/ walk.height < StartHeight

\* While a process runs, its gauges agree with the table: the lag is the distance
\* between the two others, and the cursor gauge, from the first commit on, is never
\* below the cursor that a restart would resume from and never above what was ever
\* committed.  So it is wrong only between a rewind, for which on_reorg sets no
\* gauge, and the commits that make up for it.
GaugesMatchTable ==
  pc \in Running =>
    /\ gauges.lag = SatSub(gauges.head, gauges.cursor)
    /\ gauges.cursor # 0 =>
         /\ gauges.cursor <= hiwater
         /\ ~IsEmpty(rows) => Top(rows) <= gauges.cursor

\* Backfill hands over to follow only when it has reached the head it read.
CaughtUpBeforeFollow ==
  [][CompleteBackfill => next > head]_vars

\* A backfill ends: it hands over to follow, returns, or reports an error.
BackfillEnds == pc = "loop" ~> pc \in Down \cup {"tip"}
=============================================================================
