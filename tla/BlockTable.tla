----------------------------- MODULE BlockTable -----------------------------
(***************************************************************************)
(* The bookkeeping table `subdex_block` of PgStore (subdex-store,          *)
(* store.rs): one row per height, the cursor is its highest row, and every *)
(* cursor advance prunes the rows that fall out of the reorg window.       *)
(* Each operator is one SQL statement of the store.                        *)
(***************************************************************************)
EXTENDS Blocks

CONSTANT Retention   \* StoreConfig.reorg_retention; 0 keeps every row

ASSUME RetentionAssumption == Retention \in Nat

\* cursor(): the highest row, None on an empty table.
Cursor(rows) == IF IsEmpty(rows) THEN None ELSE Top(rows)

\* hash_at(h).
HashAt(rows, h) == rows[h]

\* The DELETE at the end of set_cursor, for a row just written at height n.
Faulty_PruneOne(rows, n) ==   \* keeps one row too few
  [h \in Height |->
     IF Retention > 0 /\ h <= SatSub(n, Retention) THEN None ELSE rows[h]]

Prune(rows, n) ==
  [h \in Height |->
     IF Retention > 0 /\ h < SatSub(n, Retention) THEN None ELSE rows[h]]

\* set_cursor(tx, b): upsert b's row, then prune.
SetCursor(rows, b) == Prune([rows EXCEPT ![Number[b]] = b], Number[b])

\* rollback_to(f): drop the rows strictly above f.
Faulty_RollbackTo(rows, f) ==   \* drops the fork point as well
  [h \in Height |-> IF h >= f THEN None ELSE rows[h]]

RollbackTo(rows, f) == [h \in Height |-> IF h > f THEN None ELSE rows[h]]
=============================================================================
