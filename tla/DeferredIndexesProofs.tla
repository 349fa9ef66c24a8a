----------------------- MODULE DeferredIndexesProofs ------------------------
(***************************************************************************)
(* The deferred indexes, for any handlers, any indexes, and any number of  *)
(* crashes, restarts and rollbacks.                                        *)
(***************************************************************************)
EXTENDS DeferredIndexes, TLAPS

USE DeferredIndexesAssumption DEF Handlers, Running, database

Covered == present \cup registry

\* How far the current process is: the handlers it has initialised have every
\* index present or registered, the one in turn all but those still to do, and
\* what on_backfill_complete still has to build is on its list.
Coverage ==
  /\ pc \in {"migrate", "defer"} =>
       \A h \in Handlers : h < turn => Defers[h] \subseteq Covered
  /\ pc = "defer" =>
       /\ turn \in Handlers
       /\ Defers[turn] \subseteq Covered \cup todo
  /\ pc \in {"backfill", "complete", "follow"} =>
       \A h \in Handlers : Defers[h] \subseteq Covered
  /\ pc = "complete" => registry \subseteq todo
  /\ pc = "follow" => registry = {}
  /\ pc = "down" => turn = 1

LEMMA TypeStep ==
  ASSUME TypeOK, Coverage, [Next]_vars
  PROVE  TypeOK'
  <1> USE DEF TypeOK
  <1>1. CASE Migrate
    BY <1>1 DEF Migrate
  <1>2. ASSUME NEW i \in Indexes, DeferIndex(i) PROVE TypeOK'
    BY <1>2 DEF DeferIndex
  <1>3. ASSUME NEW i \in Indexes, EnsureIndex(i) PROVE TypeOK'
    BY <1>3 DEF EnsureIndex
  <1>4. CASE NextHandler
    BY <1>4 DEF NextHandler, Coverage
  <1>5. CASE StartBackfill
    BY <1>5 DEF StartBackfill
  <1>6. CASE CommitBatch
    BY <1>6 DEF CommitBatch
  <1>7. CASE RollbackToEmpty
    <2>1. emptied' \in 0..MaxEmptied
      BY <1>7 DEF RollbackToEmpty
    <2>2. indexed' \in BOOLEAN
      BY <1>7, Zenon DEF RollbackToEmpty
    <2> QED
      BY <1>7, <2>1, <2>2 DEF RollbackToEmpty
  <1>8. CASE EndBackfill
    BY <1>8 DEF EndBackfill
  <1>9. ASSUME NEW i \in Indexes, RecreateIndex(i) PROVE TypeOK'
    BY <1>9 DEF RecreateIndex
  <1>10. CASE StartFollow
    BY <1>10 DEF StartFollow
  <1>11. CASE Fail
    BY <1>11 DEF Fail
  <1>12. CASE Restart
    BY <1>12 DEF Restart
  <1>13. CASE UNCHANGED vars
    BY <1>13 DEF vars
  <1> QED
    BY <1>1, <1>2, <1>3, <1>4, <1>5, <1>6, <1>7, <1>8, <1>9, <1>10, <1>11,
       <1>12, <1>13
    DEF Next, Initialise, Complete

\* No step of a process takes an index out of both places.
LEMMA CoveredGrows ==
  ASSUME TypeOK, [Next]_vars
  PROVE  Covered \subseteq Covered'
BY DEF Covered, TypeOK, Next, Initialise, Complete, Migrate, DeferIndex,
       EnsureIndex, NextHandler, StartBackfill, CommitBatch, RollbackToEmpty,
       EndBackfill, RecreateIndex, StartFollow, Fail, Restart, vars

LEMMA CoverageStep ==
  ASSUME TypeOK, Coverage, [Next]_vars
  PROVE  Coverage'
  <1>c. Covered \subseteq Covered'
    BY CoveredGrows
  <1> USE <1>c DEF Coverage, TypeOK
  <1>1. CASE Migrate
    BY <1>1 DEF Migrate
  <1>2. ASSUME NEW i \in Indexes, DeferIndex(i) PROVE Coverage'
    BY <1>2 DEF DeferIndex, Covered
  <1>3. ASSUME NEW i \in Indexes, EnsureIndex(i) PROVE Coverage'
    BY <1>3 DEF EnsureIndex, Covered
  <1>4. CASE NextHandler
    BY <1>4 DEF NextHandler
  <1>5. CASE StartBackfill
    BY <1>5 DEF StartBackfill
  <1>6. CASE CommitBatch
    BY <1>6 DEF CommitBatch
  <1>7. CASE RollbackToEmpty
    BY <1>7 DEF RollbackToEmpty
  <1>8. CASE EndBackfill
    BY <1>8 DEF EndBackfill
  <1>9. ASSUME NEW i \in Indexes, RecreateIndex(i) PROVE Coverage'
    BY <1>9 DEF RecreateIndex
  <1>10. CASE StartFollow
    BY <1>10 DEF StartFollow
  <1>11. CASE Fail
    BY <1>11 DEF Fail
  <1>12. CASE Restart
    BY <1>12 DEF Restart
  <1>13. CASE UNCHANGED vars
    BY <1>13 DEF vars
  <1> QED
    BY <1>1, <1>2, <1>3, <1>4, <1>5, <1>6, <1>7, <1>8, <1>9, <1>10, <1>11,
       <1>12, <1>13
    DEF Next, Initialise, Complete

LEMMA Inductive == Spec => [](TypeOK /\ Coverage)
<1>1. Init => TypeOK /\ Coverage
  BY DEF Init, TypeOK, Coverage
<1>2. TypeOK /\ Coverage /\ [Next]_vars => (TypeOK /\ Coverage)'
  BY TypeStep, CoverageStep
<1> QED
  BY <1>1, <1>2, PTL DEF Spec

\* The two sets of indexes, the handler in turn and the list of
\* on_backfill_complete stay what they are through every crash and restart.
THEOREM TypeCorrect == Spec => []TypeOK
BY Inductive, PTL

\* Whatever the handlers defer, and however often the process dies between two
\* transactions, it follows the tip with all of their indexes in place.
THEOREM IndexesAtTip == Spec => []TipHasIndexes
<1>1. TypeOK /\ Coverage => TipHasIndexes
  BY DEF Coverage, Covered, TipHasIndexes
<1> QED
  BY <1>1, Inductive, PTL

\* defer_index, on_backfill_complete and the migrations never lose an index:
\* one that exists or is registered keeps doing one or the other.
THEOREM NeverForgotten == Spec => IndexNeverForgotten
<1>1. TypeOK /\ [Next]_vars
        => [present \cup registry \subseteq present' \cup registry']_vars
  BY CoveredGrows DEF Covered
<1> QED
  BY <1>1, Inductive, PTL DEF Spec, IndexNeverForgotten
=============================================================================
