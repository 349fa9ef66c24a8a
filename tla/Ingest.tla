------------------------------- MODULE Ingest -------------------------------
(***************************************************************************)
(* A backfill of decoded rows: fetch_batch of the RPC or the portal source *)
(* (source.rs, sqd/mod.rs, sqd/client.rs) with its retries (retry.rs), the *)
(* mapping of Decode, and the handlers' writes with the cursor.  The chain *)
(* is final and does not change here; forks are Processor's matter.        *)
(*                                                                         *)
(* Between two runs the operator may change the configuration, also the    *)
(* source, and the bookkeeping may be rewound, so that blocks are indexed  *)
(* again over rows that are already there.                                 *)
(***************************************************************************)
EXTENDS Decode

CONSTANTS
  Histories,     \* the chains to index, sequences of raw blocks from height 0
  Configs,       \* [source, events, extrinsics, strict, prefix]
  BatchSize,     \* the smaller of the processor's and the source's batch_size
  Concurrency,   \* requests in flight of one RPC batch
  MaxRetries,    \* RetryConfig.max_retries
  MaxParams,     \* bind parameters of one statement (65535 in Postgres)
  MaxRuns        \* bound on the starts of the process

IsSequence(s) == Len(s) \in Nat /\ DOMAIN s = 1..Len(s)

\* An extrinsic of the block dispatches calls of its own.
Nests(raw) == Len(raw.calls) # Len(raw.extrinsics)

IsRawBlock(raw) ==
  /\ IsSequence(raw.events) /\ IsSequence(raw.extrinsics) /\ IsSequence(raw.calls)
  /\ ~Nests(raw) => \A i \in DOMAIN raw.calls :
                      raw.calls[i] = [extrinsic |-> i - 1, item |-> raw.extrinsics[i]]
  /\ \A i \in DOMAIN raw.extrinsics :
       LET a == raw.extrinsics[i].address
       IN  a # None => a.of # None /\ Origin(a) # None

ASSUME IngestAssumption ==
  /\ I64 \in Nat \ {0}
  /\ BatchSize \in Nat \ {0}
  /\ Concurrency \in Nat \ {0}
  /\ MaxRetries \in Nat
  /\ MaxParams \in Nat
  /\ MaxRuns \in Nat \ {0}
  /\ \A c \in Histories :
       /\ Len(c) \in Nat
       /\ \A n \in 1..Len(c) : IsRawBlock(c[n])
  /\ \A c \in Configs :
       /\ DOMAIN c = {"source", "events", "extrinsics", "strict", "prefix"}
       /\ c.source \in {"rpc", "portal"}
       /\ {c.events, c.extrinsics, c.strict} \subseteq BOOLEAN

Handlers == DOMAIN Watched

VARIABLES
  chain,    \* the chain
  tables,   \* per handler its rows
  next,     \* the height after the cursor, 0 without one
  cfg,      \* the configuration of this run
  pc,       \* where the run is, or how it ended
  wanted,   \* the heights of the batch that are not requested yet
  flying,   \* the requests in flight, in height order
  tries,    \* retries of the portal request so far
  batch,    \* the blocks fetched so far
  runs,     \* starts so far
  covered   \* history: the heights that were written with their events

fetch == <<wanted, flying, tries, batch>>
database == <<tables, next, covered>>
vars == <<chain, tables, next, cfg, pc, wanted, flying, tries, batch, runs,
          covered>>

Raw(h) == chain[h + 1]

Tip == Len(chain) - 1

Init ==
  /\ chain \in Histories
  /\ tables = [k \in Handlers |-> {}]
  /\ next = 0
  /\ cfg \in Configs
  /\ pc = "loop"
  /\ wanted = <<>>
  /\ flying = <<>>
  /\ tries = 0
  /\ batch = <<>>
  /\ runs = 1
  /\ covered = {}

\* The run ends, and its memory is gone.
Halt(outcome) ==
  /\ pc' = outcome
  /\ wanted' = <<>>
  /\ flying' = <<>>
  /\ tries' = 0
  /\ batch' = <<>>
  /\ UNCHANGED <<chain, database, cfg, runs>>

-----------------------------------------------------------------------------
(* fetch_batch.                                                            *)

\* Both sources cap the span to the batch size.
AskBatch ==
  /\ pc = "loop"
  /\ next <= Tip
  /\ pc' = cfg.source
  /\ LET end == IF next + BatchSize - 1 < Tip THEN next + BatchSize - 1 ELSE Tip
     IN  wanted' = [i \in 1..(end - next + 1) |-> next + i - 1]
  /\ UNCHANGED <<chain, database, cfg, flying, tries, batch, runs>>

LoopDone == pc = "loop" /\ next > Tip /\ Halt("done")

\* buffered(concurrency): the next height is requested.
Faulty_Launch ==   \* one request too many
  /\ pc = "rpc"
  /\ wanted # <<>>
  /\ Len(flying) <= Concurrency
  /\ flying' = Append(flying, [height |-> Head(wanted), tries |-> 0,
                               state |-> "asked"])
  /\ wanted' = Tail(wanted)
  /\ UNCHANGED <<chain, database, cfg, pc, tries, batch, runs>>

Launch ==
  /\ pc = "rpc"
  /\ wanted # <<>>
  /\ Len(flying) < Concurrency
  /\ flying' = Append(flying, [height |-> Head(wanted), tries |-> 0,
                               state |-> "asked"])
  /\ wanted' = Tail(wanted)
  /\ UNCHANGED <<chain, database, cfg, pc, tries, batch, runs>>

\* A request is answered, in any order; a Decode error is not retried.
Answer(i) ==
  /\ pc = "rpc"
  /\ flying[i].state = "asked"
  /\ LET h == flying[i].height
         block == MapBlock(Raw(h), h, cfg)
     IN  flying' = [flying EXCEPT ![i].state =
                      IF block = None THEN "error" ELSE "answered"]
  /\ UNCHANGED <<chain, database, cfg, pc, wanted, tries, batch, runs>>

\* It fails on the way: retried while the budget lasts.
RequestFails(i) ==
  /\ pc = "rpc"
  /\ flying[i].state = "asked"
  /\ flying' = IF flying[i].tries < MaxRetries
               THEN [flying EXCEPT ![i].tries = @ + 1]
               ELSE [flying EXCEPT ![i].state = "error"]
  /\ UNCHANGED <<chain, database, cfg, pc, wanted, tries, batch, runs>>

\* Answers are taken in the order of the requests.
Faulty_Take ==   \* buffer_unordered: in the order they come in
  /\ pc = "rpc"
  /\ \E i \in DOMAIN flying :
       /\ flying[i].state = "answered"
       /\ batch' = Append(batch, MapBlock(Raw(flying[i].height),
                                          flying[i].height, cfg))
       /\ flying' = RemoveAt(flying, i)
  /\ UNCHANGED <<chain, database, cfg, pc, wanted, tries, runs>>

Take ==
  /\ pc = "rpc"
  /\ flying # <<>>
  /\ flying[1].state = "answered"
  /\ batch' = Append(batch, MapBlock(Raw(flying[1].height),
                                     flying[1].height, cfg))
  /\ flying' = Tail(flying)
  /\ UNCHANGED <<chain, database, cfg, pc, wanted, tries, runs>>

\* The first error ends the batch, and the run with it.
Faulty_BatchFails == FALSE   \* the error is swallowed

BatchFails ==
  /\ pc = "rpc"
  /\ flying # <<>>
  /\ flying[1].state = "error"
  /\ Halt("failed")

Collected ==
  /\ pc = "rpc"
  /\ wanted = <<>>
  /\ flying = <<>>
  /\ pc' = "write"
  /\ UNCHANGED <<chain, database, cfg, fetch, runs>>

\* One response with a line per block, for the range or a part of it.
PortalAnswers ==
  /\ pc = "portal"
  /\ \E n \in 1..Len(wanted) :
       batch' = [i \in 1..n |->
                   MapPortalBlock(PortalLine(Raw(wanted[i]), wanted[i], cfg),
                                  cfg.prefix)]
  /\ wanted' = <<>>
  /\ tries' = 0
  /\ pc' = "write"
  /\ UNCHANGED <<chain, database, cfg, flying, runs>>

\* No line: the backfill's loop breaks.
PortalEmpty == pc = "portal" /\ Halt("done")

\* No connection, a status that is no success.
PortalFails ==
  /\ pc = "portal"
  /\ tries < MaxRetries
  /\ tries' = tries + 1
  /\ UNCHANGED <<chain, database, cfg, pc, wanted, flying, batch, runs>>

\* The same with the budget spent, or a line that does not parse.
PortalGivesUp == pc = "portal" /\ Halt("failed")

-----------------------------------------------------------------------------
(* Handlers and cursor, one transaction.                                   *)

BatchRows(k) == UNION {RowsOf(k, batch[i]) : i \in DOMAIN batch}

SameKey(r, s) == r.height = s.height /\ r.index = s.index

\* ON CONFLICT (block_height, event_index) DO NOTHING.
Inserted(k) ==
  tables[k] \cup {r \in BatchRows(k) : \A s \in tables[k] : ~SameKey(r, s)}

\* PreparedAssets::write binds five parameters per row of the batch.
FitsOneStatement == 5 * Cardinality(BatchRows("assets")) <= MaxParams

Write ==
  /\ pc = "write"
  /\ FitsOneStatement
  /\ tables' = [k \in Handlers |-> Inserted(k)]
  /\ next' = batch[Len(batch)].number + 1
  /\ covered' = IF cfg.events THEN covered \cup {batch[i].number : i \in DOMAIN batch}
                ELSE covered
  /\ pc' = "loop"
  /\ batch' = <<>>
  /\ UNCHANGED <<chain, cfg, wanted, flying, tries, runs>>

WriteFails == pc = "write" /\ ~FitsOneStatement /\ Halt("failed")

-----------------------------------------------------------------------------
Ended == {"done", "failed"}

Crash == pc \notin Ended /\ Halt("failed")

\* A new run, under any configuration, from the cursor or from below it.
Restart ==
  /\ pc \in Ended
  /\ runs < MaxRuns
  /\ runs' = runs + 1
  /\ cfg' \in Configs
  /\ next' \in 0..next
  /\ pc' = "loop"
  /\ UNCHANGED <<chain, tables, covered, fetch>>

Step ==
  \/ AskBatch \/ LoopDone
  \/ Launch \/ Take \/ BatchFails \/ Collected
  \/ \E i \in DOMAIN flying : Answer(i) \/ RequestFails(i)
  \/ PortalAnswers \/ PortalEmpty \/ PortalFails \/ PortalGivesUp
  \/ Write \/ WriteFails

Next == Step \/ Crash \/ Restart

Spec == Init /\ [][Next]_vars

\* The runtime polls the run, and every request is answered or fails in time.
FairSpec == Spec /\ WF_vars(Step)

-----------------------------------------------------------------------------
(* Properties.                                                             *)

TypeOK ==
  /\ DOMAIN tables = Handlers
  /\ next \in 0..Len(chain)
  /\ pc \in Ended \cup {"loop", "rpc", "portal", "write"}
  /\ Len(flying) <= Concurrency
  /\ \A i \in DOMAIN flying : flying[i].tries \in 0..MaxRetries
  /\ tries \in 0..MaxRetries
  /\ runs \in 1..MaxRuns
  /\ covered \subseteq 0..Tip

\* What reaches the handlers is a hole-free run of blocks from `next` on,
\* whatever order the answers came in and whatever failed on the way: the engine
\* trusts a batch to be contiguous (fetch_batch of both sources).
BatchesAreRuns ==
  pc = "write" =>
    /\ batch # <<>>
    /\ \A i \in DOMAIN batch : batch[i].number = next + i - 1

\* Exactly one row stands for each event that a handler watches, under the
\* event's position on the chain, also after a block was indexed again from the
\* other source or with other settings: no event is lost and none has two rows.
OneRowPerEvent ==
  \A k \in Handlers :
    LET Watches(e) == <<e.pallet, e.name>> \in Watched[k]
        Keys == UNION {{<<h, i - 1>> : i \in {j \in DOMAIN Raw(h).events :
                                                Watches(Raw(h).events[j])}} :
                         h \in covered}
    IN  /\ {<<r.height, r.index>> : r \in tables[k]} = Keys
        /\ Cardinality(tables[k]) = Cardinality(Keys)

\* An address that both sources can tell: a plain account or bare bytes.  The bytes of
\* any other variant begin with its tag over RPC, and the portal's have none.
SameForm(address) ==
  \/ address = None
  \/ address.tag = None
  \/ address.length = 32 /\ address.tag \in {"Id", "Address32"}

\* Whichever source is configured, a handler sees the same block: the events with
\* their indexes and extrinsics, and the extrinsics with their index, signer and
\* outcome.  The documentation of DataSelection names two exceptions: over RPC
\* success is unknown without events, and the time without extrinsics.  Two more are
\* the code's: the signers above, and the extrinsics of a block with nested calls,
\* where the portal's are the calls, numbered through.
SameBlock(b, c, raw) ==
  /\ b.number = c.number /\ b.finalized = c.finalized
  /\ cfg.extrinsics => b.timestamp = c.timestamp
  /\ Len(b.events) = Len(c.events)
  /\ \A i \in DOMAIN b.events :
       LET Place(e) == <<e.index, e.pallet, e.name, e.extrinsic>>
       IN  Place(b.events[i]) = Place(c.events[i])
  /\ ~Nests(raw) =>
       /\ Len(b.extrinsics) = Len(c.extrinsics)
       /\ \A i \in DOMAIN b.extrinsics :
            LET x == b.extrinsics[i]
                y == c.extrinsics[i]
            IN  /\ <<x.index, x.pallet, x.call, x.signed>> =
                   <<y.index, y.pallet, y.call, y.signed>>
                /\ SameForm(raw.extrinsics[i].address) => x.signer = y.signer
                /\ cfg.events => x.success = y.success

SourcesAgree ==
  \A i \in DOMAIN batch :
    LET h == batch[i].number
        other == MapBlock(Raw(h), h, [cfg EXCEPT !.strict = FALSE])
    IN  other # None => SameBlock(batch[i], other, Raw(h))

\* What a column should hold, from the chain itself.
TrueColumns(k, e) ==
  [c \in DOMAIN Columns[k] |->
     IF Columns[k][c] = "account" THEN Ss58(e.args[c].account, 42)
     ELSE e.args[c].int]

EventOf(r) == Raw(r.height).events[r.index + 1]

\* An asset id too large for its signed column: the handlers' `as i64` wraps it.
Wraps(k, e, c) == Columns[k][c] = "i64" /\ e.args[c].int >= I64

\* A row that is written over RPC holds what the chain says, in every column but one
\* that wraps; where the fields did not decode it is all NULL, and in strict mode it
\* is not written, nor anything else of its batch.
RpcRowsExact ==
  [][Write /\ cfg.source = "rpc" =>
       \A k \in Handlers : \A r \in tables'[k] \ tables[k] :
         LET e == EventOf(r) IN
         \/ /\ e.decodes = "whole"
            /\ \A c \in DOMAIN Columns[k] :
                 ~Wraps(k, e, c) => r.columns[c] = TrueColumns(k, e)[c]
         \/ /\ e.decodes = "fields" /\ ~cfg.strict
            /\ \A c \in DOMAIN Columns[k] : r.columns[c] = None]_vars

\* An amount reaches its column whichever source delivered it, as the documentation
\* of json_to_value promises: "A handler reading a scalar field by name works
\* against both".
ScalarsAgree ==
  \A k \in Handlers : \A r \in tables[k] :
    EventOf(r).decodes = "whole" =>
      \A c \in DOMAIN Columns[k] :
        Columns[k][c] = "u128" => r.columns[c] = TrueColumns(k, EventOf(r))[c]

\* A run comes to an end: all is indexed, the portal has no more, or an error.
RunEnds == pc = "loop" ~> pc \in Ended
=============================================================================
