---------------------------- MODULE IndexProofs -----------------------------
(***************************************************************************)
(* A backfill whose batches come out of one view implements ChainIndex:    *)
(* the refinement mapping takes the abstract table to subdex_block.  What  *)
(* holds of each segment then holds of the chain it is recorded from:      *)
(* commits and rewinds make the index agree with the chain of the reply,   *)
(* and pruning spares the common ancestor.                                 *)
(***************************************************************************)
EXTENDS FollowProofs

\* The table of the open transaction extends the committed one.
TxExtends ==
  pc = "tx" =>
    /\ Index!KeepsTop(tx.rows, rows)
    /\ tx.recorded = 0 => tx.rows = rows
    /\ tx.recorded > 0 => ~IsEmpty(tx.rows) /\ Index!Continues(tx.rows, rows)

IndexInv == SafeInv /\ TxExtends

\* The rows of a table that awaits height n lie below n, and its top at n - 1.
LEMMA AwaitsBelow ==
  ASSUME NEW t \in Tables, NEW n \in Height, Awaits(t, n),
         NEW h \in Height
  PROVE  /\ t[h] # None => h < n
         /\ IsTop(t, h) => h + 1 = n
<1>1. MaxHeight \in Nat /\ n \in Nat /\ h \in Nat
  BY BlocksAssumption DEF Height
<1>2. CASE IsEmpty(t)
  BY <1>2 DEF IsEmpty, IsTop
<1>3. CASE n > 0 /\ IsTop(t, n - 1)
  BY <1>1, <1>3 DEF IsTop
<1> QED
  BY <1>2, <1>3 DEF Awaits

\* What set_cursor leaves at a height below the new block, and forgets with it.
LEMMA SetCursorBelow ==
  ASSUME NEW t \in Tables, NEW b \in Hash, NEW h \in Height, h < Number[b]
  PROVE  \/ SetCursor(t, b)[h] = t[h]
         \/ \A k \in 0..h : SetCursor(t, b)[k] = None
<1>1. /\ Number[b] \in Nat /\ Retention \in Nat /\ Height = 0..MaxHeight
      /\ MaxHeight \in Nat /\ h \in Nat
  BY BlocksAssumption, RetentionAssumption DEF Height
<1>2. \A k \in Height :
        SetCursor(t, b)[k] =
          IF Retention > 0 /\ k < SatSub(Number[b], Retention) THEN None
          ELSE IF k = Number[b] THEN b ELSE t[k]
  BY <1>1 DEF SetCursor, Prune, Tables
<1>3. CASE Retention > 0 /\ h < SatSub(Number[b], Retention)
  <2>1. SatSub(Number[b], Retention) \in Nat
    BY <1>1 DEF SatSub
  <2>2. \A k \in 0..h : k \in Height /\ k < SatSub(Number[b], Retention)
    BY <1>1, <1>3, <2>1
  <2> QED
    BY <1>2, <1>3, <2>2
<1>4. CASE ~ (Retention > 0 /\ h < SatSub(Number[b], Retention))
  BY <1>1, <1>2, <1>4
<1> QED
  BY <1>3, <1>4

\* A missing row below stays missing.
LEMMA SetCursorMissing ==
  ASSUME NEW t \in Tables, NEW b \in Hash, NEW h \in Height, h < Number[b],
         \A k \in 0..h : t[k] = None
  PROVE  \A k \in 0..h : SetCursor(t, b)[k] = None
<1>1. /\ Number[b] \in Nat /\ Height = 0..MaxHeight
      /\ MaxHeight \in Nat /\ h \in Nat
  BY BlocksAssumption DEF Height
<1>2. \A k \in 0..h : k \in Height /\ k # Number[b] /\ t[k] = None
  BY <1>1
<1> QED
  BY <1>2 DEF SetCursor, Prune, Tables

\* Recording the next block keeps the transaction an extension of the table.
LEMMA RecordExtends ==
  ASSUME OneViewBackfill, IndexInv, RecordBlock
  PROVE  TxExtends'
<1> DEFINE r == tx.recorded
           b == batch[r + 1]
           t == tx.rows
           u == SetCursor(t, b)
<1>0. MaxHeight \in Nat \ {0} /\ Height \subseteq Nat /\ None \notin Hash
  BY BlocksAssumption DEF Height
<1>1. /\ pc = "tx" /\ r \in Nat /\ r < Len(batch) /\ batch \in Seq(Hash)
      /\ t \in Tables /\ rows \in Tables /\ next \in Height
      /\ Awaits(rows, next) /\ Fits(t, r + 1) /\ BatchInOrder
  BY DEF RecordBlock, IndexInv, SafeInv, ChainInv, TypeInv, TypeOK, BatchOK
<1>2. r + 1 \in 1..Len(batch) /\ b \in Hash
  BY <1>1
<1>3. Number[b] = next + r /\ Number[b] \in Height
  <2>1. Number[b] = next + (r + 1) - 1
    BY <1>0, <1>1, <1>2 DEF BatchInOrder
  <2>2. next \in Nat /\ r \in Nat
    BY <1>0, <1>1
  <2>3. Number[b] \in Height
    BY <1>2, BlocksAssumption
  <2> HIDE DEF b, r
  <2> QED
    BY <2>1, <2>2, <2>3
<1>4. /\ tx'.rows = u /\ tx'.recorded = r + 1 /\ rows' = rows
      /\ pc' = pc
  BY DEF RecordBlock, IndexInv, SafeInv, TypeInv, TypeOK, database
<1>5. u[Number[b]] = b
  BY <1>1, <1>2, SetCursorHolds
<1>6. ~IsEmpty(u)
  BY <1>0, <1>2, <1>3, <1>5 DEF IsEmpty
<1>7. /\ Index!KeepsTop(t, rows)
      /\ r = 0 => t = rows
      /\ r > 0 => Index!Continues(t, rows)
  BY <1>1 DEF IndexInv, TxExtends
<1>8. ASSUME NEW h \in Height, h < Number[b], NEW v,
             t[h] = v \/ \A k \in 0..h : t[k] = None
      PROVE  u[h] = v \/ \A k \in 0..h : u[k] = None
  <2>1. CASE t[h] = v
    BY <1>1, <1>2, <1>8, <2>1, SetCursorBelow
  <2>2. CASE \A k \in 0..h : t[k] = None
    BY <1>1, <1>2, <1>8, <2>2, SetCursorMissing
  <2> QED
    BY <1>8, <2>1, <2>2
<1>9. \A h \in Height : rows[h] # None => h < Number[b]
  <2> SUFFICES ASSUME NEW h \in Height, rows[h] # None
               PROVE  h < Number[b]
    OBVIOUS
  <2>1. h < next
    BY <1>1, AwaitsBelow
  <2>2. h \in Nat /\ next \in Nat /\ r \in Nat /\ Number[b] = next + r
    BY <1>0, <1>1, <1>3
  <2> HIDE DEF b, r
  <2> QED
    BY <2>1, <2>2
<1> HIDE DEF u, t
<1>10. Index!KeepsTop(u, rows)
  <2> SUFFICES ASSUME NEW h \in Height, rows[h] # None
               PROVE  u[h] = rows[h] \/ \A k \in 0..h : u[k] = None
    BY DEF Index!KeepsTop, Height, Index!Height
  <2>1. t[h] = rows[h] \/ \A k \in 0..h : t[k] = None
    BY <1>7 DEF Index!KeepsTop, Height, Index!Height
  <2> QED
    BY <1>8, <1>9, <2>1
<1>11. Index!Continues(u, rows)
  <2> SUFFICES ASSUME NEW h \in Height, h > 0, IsTop(rows, h - 1)
               PROVE  \/ u[h] # None /\ Parent[u[h]] = rows[h - 1]
                      \/ \A k \in 0..h : u[k] = None
    BY DEF Index!Continues, Index!IsTop, IsTop, Index!Height, Height
  <2>1. h - 1 \in Height /\ rows[h - 1] # None /\ h \in Nat
    BY <1>0 DEF IsTop
  <2>2. h = next
    <3>1. (h - 1) + 1 = next
      BY <1>1, <2>1, AwaitsBelow
    <3> QED
      BY <2>1, <3>1
  <2>3. CASE r = 0
    <3>1. h = Number[b] /\ u[h] = b
      <4>1. next \in Nat
        BY <1>0, <1>1
      <4> HIDE DEF b, r
      <4> QED
        BY <1>3, <1>5, <2>2, <2>3, <4>1
    <3>2. t = rows
      BY <1>7, <2>3
    <3>3. Parent[b] = rows[h - 1]
      <4>1. next + (r + 1) - 1 = h /\ next + (r + 1) - 2 = h - 1
        BY <2>1, <2>2, <2>3
      <4>2. Fits(rows, r + 1) /\ r + 1 <= Len(batch)
        BY <1>1, <1>2, <3>2
      <4>3. rows[h - 1] # None /\ h > 0
        BY <2>1
      <4> HIDE DEF r
      <4> QED
        BY <4>1, <4>2, <4>3 DEF Fits
    <3> QED
      BY <1>0, <1>2, <3>1, <3>3
  <2>4. CASE r > 0
    <3>1. h < Number[b]
      <4>1. r \in Nat /\ h \in Nat /\ Number[b] = next + r
        BY <1>1, <1>3, <2>1
      <4> HIDE DEF b, r
      <4> QED
        BY <2>2, <2>4, <4>1
    <3>2. \/ t[h] # None /\ Parent[t[h]] = rows[h - 1]
          \/ \A k \in 0..h : t[k] = None
      BY <1>7, <2>4
         DEF Index!Continues, Index!IsTop, IsTop, Index!Height, Height
    <3>3. u[h] = t[h] \/ \A k \in 0..h : u[k] = None
      BY <1>8, <3>1
    <3>4. (\A k \in 0..h : t[k] = None) => \A k \in 0..h : u[k] = None
      BY <1>1, <1>2, <3>1, SetCursorMissing DEF u
    <3> QED
      BY <3>2, <3>3, <3>4
  <2> QED
    BY <1>1, <2>3, <2>4
<1> QED
  BY <1>1, <1>4, <1>6, <1>10, <1>11 DEF TxExtends

LEMMA TxStep ==
  ASSUME OneViewBackfill, IndexInv, [Next]_vars
  PROVE  TxExtends'
<1> USE DEF IndexInv
<1>1. CASE AcceptBatch
  <2>1. tx'.rows = rows /\ tx'.recorded = 0 /\ rows' = rows
    BY <1>1 DEF AcceptBatch, NoTx, database
  <2> QED
    BY <2>1 DEF TxExtends, Index!KeepsTop
<1>2. CASE WriteHandler
  <2>1. /\ tx'.rows = tx.rows /\ tx'.recorded = tx.recorded
        /\ rows' = rows /\ pc' = pc
    BY <1>2 DEF WriteHandler, SafeInv, TypeInv, TypeOK, database
  <2> QED
    BY <2>1 DEF TxExtends, Index!KeepsTop, Index!Continues
<1>3. CASE RecordBlock
  BY <1>3, RecordExtends
<1>4. CASE Finalize \/ Reorg \/ UNCHANGED vars
  <2>1. pc' = pc /\ tx' = tx /\ rows' = rows
    BY <1>4 DEF Finalize, Reorg, vars, database
  <2> QED
    BY <2>1 DEF TxExtends, Index!KeepsTop, Index!Continues
<1>5. CASE Fail \/ FinishBackfill \/ GiveUp \/ Shutdown
  BY <1>5 DEF Fail, FinishBackfill, GiveUp, Shutdown, Halt, TxExtends
<1>6. CASE Restart \/ StreamError \/ ResumeHeight \/ ReadHead \/ FetchFromPortal
  BY <1>6 DEF Restart, StreamError, ResumeHeight, ReadHead, FetchFromPortal,
              TxExtends
<1>7. CASE PortalEmpty \/ RequestSpan \/ LoopDone \/ CompleteBackfill
  BY <1>7 DEF PortalEmpty, RequestSpan, LoopDone, CompleteBackfill, TxExtends
<1>8. CASE \E i \in 1..BatchSize : AnswerHeight(i)
  BY <1>8 DEF AnswerHeight, TxExtends
<1>9. CASE DetectReorg \/ WalkDown \/ Rewind
  BY <1>9 DEF DetectReorg, WalkDown, Rewind, TxExtends
<1>10. CASE Commit \/ Subscribe \/ Deliver
  BY <1>10 DEF Commit, Subscribe, Deliver, TxExtends
<1> QED
  BY <1>1, <1>2, <1>3, <1>4, <1>5, <1>6, <1>7, <1>8, <1>9, <1>10
     DEF Next, Backfill, Process, Follow

\* Only a commit and a rewind change the table, each as a step of the index.
LEMMA StepImplements ==
  ASSUME OneViewBackfill, IndexInv, [Next]_vars
  PROVE  [Index!Next]_rows
<1> USE DEF IndexInv
<1>1. CASE Commit
  <2>1. /\ pc = "tx" /\ rows' = tx.rows /\ tx.recorded = Len(batch)
        /\ tx.rows \in Tables /\ IsSegment(tx.rows)
        /\ batch \in Seq(Hash) /\ batch # <<>>
    BY <1>1 DEF Commit, SafeInv, ChainInv, TypeInv, TypeOK, BatchOK
  <2>2. tx.recorded > 0
    BY <2>1
  <2>3. /\ Index!KeepsTop(rows', rows) /\ Index!Continues(rows', rows)
        /\ ~IsEmpty(rows')
    BY <2>1, <2>2 DEF TxExtends
  <2>4. rows' \in Index!Tables
    BY <2>1 DEF Tables, Index!Tables, Height, Index!Height
  <2>5. ~Index!IsEmpty(rows')
    BY <2>3 DEF IsEmpty, Index!IsEmpty, Height, Index!Height
  <2>6. Index!IsSegment(rows')
    BY <2>1 DEF IsSegment, InPlace, Linked, Contiguous, Height,
                Index!IsSegment, Index!InPlace, Index!Linked,
                Index!Contiguous, Index!Height
  <2>7. Index!Extend
    BY <2>3, <2>4, <2>5, <2>6 DEF Index!Extend
  <2> QED
    BY <2>7 DEF Index!Next
<1>2. CASE Rewind
  <2>1. walk.height \in Height /\ rows' = RollbackTo(rows, walk.height)
    BY <1>2 DEF Rewind, SafeInv, TypeInv, TypeOK
  <2>2. Index!CutBack
    BY <2>1 DEF Index!CutBack, RollbackTo, Height, Index!Height
  <2> QED
    BY <2>2 DEF Index!Next
<1>3. CASE Finalize \/ Reorg \/ UNCHANGED vars
  BY <1>3 DEF Finalize, Reorg, vars, database
<1>4. CASE Fail \/ FinishBackfill \/ GiveUp \/ Shutdown
  BY <1>4 DEF Fail, FinishBackfill, GiveUp, Shutdown, Halt, database
<1>5. CASE Restart \/ StreamError \/ ResumeHeight \/ ReadHead \/ FetchFromPortal
  BY <1>5 DEF Restart, StreamError, ResumeHeight, ReadHead, FetchFromPortal,
              database
<1>6. CASE PortalEmpty \/ RequestSpan \/ LoopDone \/ CompleteBackfill
  BY <1>6 DEF PortalEmpty, RequestSpan, LoopDone, CompleteBackfill, database
<1>7. CASE \E i \in 1..BatchSize : AnswerHeight(i)
  BY <1>7 DEF AnswerHeight, database
<1>8. CASE DetectReorg \/ WalkDown \/ AcceptBatch \/ WriteHandler \/ RecordBlock
  BY <1>8 DEF DetectReorg, WalkDown, AcceptBatch, WriteHandler, RecordBlock,
              database
<1>9. CASE Subscribe \/ Deliver
  BY <1>9 DEF Subscribe, Deliver, database
<1> QED
  BY <1>1, <1>2, <1>3, <1>4, <1>5, <1>6, <1>7, <1>8, <1>9
     DEF Next, Backfill, Process, Follow

\* A backfill whose batches come out of one view, from a portal or one block at a
\* time, implements the abstract index: through forks, rewinds, failed batches and
\* restarts, readers see a window on one chain that grows by whole batches at the
\* top, is pruned at the bottom and is cut back to an ancestor.
THEOREM IndexImplemented == OneViewBackfill => (Spec => ImplementsIndex)
<1> SUFFICES ASSUME OneViewBackfill
             PROVE  Spec => ImplementsIndex
  OBVIOUS
<1>1. Init => IndexInv
  <2>1. Init => TxExtends
    BY DEF Init, TxExtends
  <2> QED
    BY <2>1, InitType, InitChain DEF IndexInv, SafeInv
<1>2. Init => Index!Init
  BY DEF Init, EmptyTable, Height, Index!Init, Index!EmptyTable, Index!Height
<1>3. IndexInv /\ [Next]_vars => IndexInv'
  BY TypeStep, ChainStep, TxStep DEF IndexInv, SafeInv
<1>4. IndexInv /\ [Next]_vars => [Index!Next]_rows
  BY StepImplements
<1> QED
  BY <1>1, <1>2, <1>3, <1>4, PTL DEF Spec, ImplementsIndex, Index!Spec

-----------------------------------------------------------------------------
(* What the table holds, against the node's chain and against the window.  *)

\* The forks of one network share its genesis block.
OneGenesis == \A c, d \in Chains : c[0] = d[0]

\* What may sit at height 0.
GenesisOnly ==
  /\ rows[0] \in {None, canon[0]}
  /\ tx.rows[0] \in {None, canon[0]}
  /\ \A i \in 1..Len(batch) :
       batch[i] # None /\ Number[batch[i]] = 0 => batch[i] = canon[0]

\* t holds every height below n from start_height on, except what a cursor at w,
\* None for no cursor yet, has pruned.
FilledTo(t, n, w) ==
  \A h \in Height :
    /\ StartHeight <= h /\ h < n
    /\ Retention = 0 \/ w = None \/ h + Retention >= w
    => t[h] # None

\* The highest cursor, once the open transaction commits what it has recorded.
TxHiwater ==
  IF tx.recorded = 0 THEN hiwater
  ELSE LET n == next + tx.recorded - 1
       IN  IF hiwater = None \/ hiwater < n THEN n ELSE hiwater

Window ==
  /\ ~IsEmpty(rows) => FilledTo(rows, Top(rows) + 1, hiwater)
  /\ pc \in {"head", "loop", "fetch", "check", "walk", "tx"} =>
       FilledTo(rows, next, hiwater)
  /\ pc = "tx" => FilledTo(tx.rows, next + tx.recorded, TxHiwater)

\* Everything a proof about one view may use of a state.
ViewInv == SafeInv /\ FollowInv /\ EntInv

LEMMA ViewStep ==
  ASSUME OneViewBackfill, ViewInv, [Next]_vars
  PROVE  ViewInv'
<1>1. GoesForward
  BY DEF OneViewBackfill, GoesForward
<1>2. FollowInv' /\ EntInv'
  BY <1>1, FollowStep DEF ViewInv
<1>3. SafeInv'
  BY TypeStep, ChainStep DEF ViewInv, SafeInv
<1> QED
  BY <1>2, <1>3 DEF ViewInv

LEMMA InitView == Init => ViewInv
BY InitFollow, InitEnt, InitType, InitChain DEF ViewInv, SafeInv

\* Two linked tables that hold the same block at n agree on what the first holds
\* below n, if neither has a hole there.
LEMMA SegmentsAgree ==
  ASSUME NEW t \in Tables, IsSegment(t), NEW s \in Tables, Linked(s),
         NEW n \in Height, t[n] # None, t[n] = s[n],
         \A h \in Height : h <= n => s[h] # None
  PROVE  \A h \in Height : h <= n /\ t[h] # None => t[h] = s[h]
<1> DEFINE Apart == {k \in Nat : k <= n /\ t[n - k] # None /\ t[n - k] # s[n - k]}
<1>1. MaxHeight \in Nat /\ n \in Nat /\ Height = 0..MaxHeight /\ n <= MaxHeight
  BY BlocksAssumption DEF Height
<1>2. Apart = {}
  <2> SUFFICES ASSUME Apart # {}
               PROVE  FALSE
    OBVIOUS
  <2>1. PICK k \in Apart : \A y \in Apart : k <= y
    <3>1. Apart \in SUBSET Nat
      OBVIOUS
    <3> HIDE DEF Apart
    <3> QED
      BY <3>1, LeastNat
  <2>2. k \in Nat /\ k <= n /\ t[n - k] # None /\ t[n - k] # s[n - k]
    OBVIOUS
  <2>3. k # 0
    <3> SUFFICES ASSUME k = 0
                 PROVE  FALSE
      OBVIOUS
    <3>1. n - k = n
      BY <1>1
    <3> QED
      BY <2>2, <3>1
  <2> DEFINE h == n - k + 1
  <2>4. h \in Height /\ h > 0 /\ h <= n /\ h - 1 = n - k /\ n - k \in Height
        /\ k - 1 \in Nat /\ k - 1 <= n /\ n - (k - 1) = h /\ n - k < h /\ ~ (k <= k - 1)
    BY <1>1, <2>2, <2>3
  <2> HIDE DEF h
  <2>5. t[h] # None
    <3>1. CASE h = n
      BY <3>1
    <3>2. CASE h < n
      BY <2>2, <2>4, <3>2 DEF IsSegment, Contiguous
    <3> QED
      BY <1>1, <2>4, <3>1, <3>2
  <2>6. t[h] = s[h]
    <3>1. k - 1 \notin Apart
      <4> HIDE DEF Apart
      <4> QED
        BY <2>1, <2>4
    <3> QED
      BY <2>4, <2>5, <3>1
  <2>7. Parent[t[h]] = t[h - 1]
    BY <2>2, <2>4, <2>5 DEF IsSegment, Linked
  <2>8. Parent[s[h]] = s[h - 1]
    <3>1. s[h] # None /\ s[h - 1] # None
      BY <1>1, <2>2, <2>4
    <3> QED
      BY <2>4, <3>1 DEF Linked
  <2> QED
    BY <2>2, <2>4, <2>6, <2>7, <2>8
<1>3. ASSUME NEW h \in Height, h <= n, t[h] # None
      PROVE  t[h] = s[h]
  <2>1. n - h \in Nat /\ n - h <= n /\ n - (n - h) = h
    BY <1>1, <1>3
  <2>2. n - h \notin Apart
    BY <1>2
  <2> QED
    BY <1>3, <2>1, <2>2
<1> QED
  BY <1>3

\* The same for a table and the node's chain.
LEMMA AgreesWithChain ==
  ASSUME NEW t \in Tables, IsSegment(t), NEW c \in Chains,
         NEW n \in Height, t[n] # None, t[n] = c[n]
  PROVE  \A h \in Height : h <= n /\ t[h] # None => t[h] = c[h]
<1>1. c \in Tables /\ Linked(c)
  BY ChainFacts, BlocksAssumption DEF IsChain, IsSegment
<1>2. Top(c) \in Nat /\ Height \subseteq Nat /\ \A h \in Height : c[h] # None <=> h <= Top(c)
  BY ChainHolds, BlocksAssumption DEF Height
<1>3. \A h \in Height : h <= n => c[h] # None
  BY <1>2
<1> QED
  BY <1>1, <1>3, SegmentsAgree

LEMMA ConvergesOnCommit ==
  ASSUME OneViewBackfill, ViewInv, Commit, steady, NEW h \in Height
  PROVE  rows'[h] \in {None, canon[h]}
<1> DEFINE b == batch[Len(batch)]
<1>1. /\ pc = "tx" /\ rows' = tx.rows /\ tx.recorded = Len(batch)
      /\ IsSegment(tx.rows)
  BY DEF Commit, ViewInv, SafeInv, ChainInv
<1>2. /\ Len(batch) \in 1..Len(batch) /\ Len(batch) \in Nat \ {0} /\ b # None
      /\ canon \in Chains /\ tx.rows \in Tables /\ Number[b] \in Height
      /\ Height \subseteq Nat
  BY <1>1, Basics DEF ViewInv, FollowInv, Busy
<1>3. IsTop(tx.rows, Number[b]) /\ tx.rows[Number[b]] = b
  BY <1>1, <1>2 DEF ViewInv, FollowInv, TxTop
<1>4. canon[Number[b]] = b
  BY <1>1, <1>2 DEF ViewInv, FollowInv, Canonical, Busy
<1> HIDE DEF b
<1>5. \A k \in Height : k <= Number[b] /\ tx.rows[k] # None => tx.rows[k] = canon[k]
  <2> DEFINE n == Number[b]
             t == tx.rows
  <2>1. /\ n \in Height /\ t[n] # None /\ t[n] = canon[n] /\ IsSegment(t)
        /\ t \in Tables /\ canon \in Chains
    BY <1>1, <1>2, <1>3, <1>4
  <2> HIDE DEF n, t
  <2>2. \A k \in Height : k <= n /\ t[k] # None => t[k] = canon[k]
    BY <2>1, AgreesWithChain
  <2> QED
    BY <2>2 DEF n, t
<1>6. tx.rows[h] # None => h <= Number[b]
  BY <1>2, <1>3 DEF IsTop
<1> QED
  BY <1>1, <1>5, <1>6

\* What a rewind leaves lies below the common ancestor.
LEMMA ConvergesOnRewind ==
  ASSUME OneViewBackfill, ViewInv, GenesisOnly, Rewind, steady, NEW h \in Height
  PROVE  rows'[h] \in {None, canon[h]}
<1> DEFINE w == walk.height
<1>1. /\ pc = "walk" /\ rows' = RollbackTo(rows, w) /\ AtFork
      /\ IsSegment(rows) /\ w < next
      /\ rows[w] # None \/ rows[w + 1] # None
  BY DEF Rewind, ViewInv, SafeInv, ChainInv
<1>2. /\ w \in Height /\ w \in Nat /\ Height = 0..MaxHeight /\ MaxHeight \in Nat
      /\ rows \in Tables /\ canon \in Chains /\ next \in Height /\ h \in Nat
  BY Basics DEF ViewInv, FollowInv, Height
<1>3. rows'[h] = IF h > w THEN None ELSE rows[h]
  BY <1>1 DEF RollbackTo
<1>4. CASE rows[w] = None
  <2>1. rows[w + 1] # None /\ w + 1 \in Height
    BY <1>1, <1>2, <1>4
  <2>2. h < w => rows[h] = None
    BY <1>1, <1>2, <1>4, <2>1 DEF IsSegment, Contiguous
  <2> HIDE DEF w
  <2> QED
    BY <1>2, <1>3, <1>4, <2>2
<1>5. CASE rows[w] # None /\ rows[w] = walk.hash
  <2>1. rows[w] = canon[w]
    BY <1>1, <1>5 DEF ViewInv, FollowInv, Canonical
  <2> HIDE DEF w
  <2>2. \A k \in Height : k <= w /\ rows[k] # None => rows[k] = canon[k]
    BY <1>1, <1>2, <1>5, <2>1, AgreesWithChain
  <2> QED
    BY <1>2, <1>3, <2>2
<1>6. CASE w = 0
  <2>1. h > w \/ h = 0
    BY <1>2, <1>6
  <2> QED
    BY <1>3, <1>6, <2>1 DEF GenesisOnly
<1> QED
  BY <1>1, <1>4, <1>5, <1>6 DEF AtFork, HashAt

LEMMA GenesisStep ==
  ASSUME OneGenesis, ViewInv, GenesisOnly, [Next]_vars
  PROVE  GenesisOnly'
<1>0. /\ TypeInv /\ TypeInv' /\ Height \subseteq Nat /\ 0 \in Height /\ next \in Nat
      /\ canon \in Chains /\ rows \in Tables /\ tx.rows \in Tables
  BY TypeStep, Basics DEF ViewInv, FollowInv
<1>1. canon'[0] = canon[0]
  BY <1>0 DEF TypeInv, TypeOK, OneGenesis
<1>2. NoTx.rows[0] = None
  BY <1>0 DEF NoTx, EmptyTable
<1>3. CASE FetchFromPortal
  <2>1. \A i \in 1..Len(batch') : Number[batch'[i]] = next + i - 1 /\ batch'[i] = canon[next + i - 1]
    BY <1>0, <1>3, Fetched
  <2>2. \A i \in 1..Len(batch') : Number[batch'[i]] = 0 => batch'[i] = canon[0]
    BY <2>1
  <2> QED
    BY <1>1, <1>3, <2>2 DEF FetchFromPortal, GenesisOnly, database
<1>4. CASE RequestSpan
  <2>1. \A i \in 1..Len(batch') : batch'[i] = None
    <3>1. Asked \in Nat \ {0} /\ batch' = [i \in 1..Asked |-> None]
      BY <1>0, <1>4, AskedFacts DEF RequestSpan
    <3> QED
      BY <3>1
  <2> QED
    BY <1>1, <1>4, <2>1 DEF RequestSpan, GenesisOnly, database
<1>5. ASSUME NEW i \in 1..BatchSize, AnswerHeight(i)
      PROVE  GenesisOnly'
  <2>1. BatchPlaced
    BY DEF ViewInv, FollowInv
  <2>2. /\ Len(batch') = Len(batch) /\ next + i - 1 \in Height
        /\ batch'[i] = canon[next + i - 1] /\ batch'[i] # None
        /\ i \in 1..Len(batch) /\ Number[batch'[i]] = next + i - 1
        /\ \A j \in 1..Len(batch) : j # i => batch'[j] = batch[j]
    BY <1>0, <1>5, <2>1, Answered
  <2>3. Number[batch'[i]] = 0 => batch'[i] = canon[0]
    BY <2>2
  <2> QED
    BY <1>1, <1>5, <2>2, <2>3 DEF AnswerHeight, GenesisOnly, database
<1>6. CASE Rewind
  BY <1>0, <1>1, <1>6 DEF Rewind, RollbackTo, GenesisOnly
<1>7. CASE Commit
  BY <1>1, <1>2, <1>7 DEF Commit, GenesisOnly
<1>8. CASE AcceptBatch
  <2>1. tx'.rows = rows /\ UNCHANGED <<rows, batch>>
    BY <1>8 DEF AcceptBatch, NoTx, database
  <2> QED
    BY <1>1, <2>1 DEF GenesisOnly
<1>9. CASE WriteHandler
  <2>1. tx'.rows = tx.rows /\ UNCHANGED <<rows, batch>>
    BY <1>9 DEF WriteHandler, ViewInv, FollowInv, TypeInv, TypeOK, database
  <2> QED
    BY <1>1, <2>1 DEF GenesisOnly
<1>10. CASE RecordBlock
  <2> DEFINE r == tx.recorded
             b == batch[r + 1]
  <2>1. /\ tx'.rows = SetCursor(tx.rows, b) /\ UNCHANGED <<rows, batch>>
        /\ pc = "tx" /\ r < Len(batch) /\ r \in Nat /\ Len(batch) \in Nat
    BY <1>10 DEF RecordBlock, ViewInv, FollowInv, TypeInv, TypeOK, database
  <2>2. r + 1 \in 1..Len(batch)
    BY <2>1
  <2>3. b \in Hash /\ b # None
    BY <2>1, <2>2, Basics DEF ViewInv, FollowInv, Busy
  <2>4. Number[b] = 0 => b = canon[0]
    BY <2>2, <2>3 DEF GenesisOnly
  <2> HIDE DEF b
  <2>5. tx'.rows[0] \in {None, canon[0]}
    BY <1>0, <2>1, <2>3, <2>4, SetCursorRow DEF GenesisOnly
  <2> QED
    BY <1>1, <2>1, <2>5 DEF GenesisOnly
<1>11. CASE Deliver
  <2>1. /\ batch' = <<canon[sub]>> /\ sub \in Height /\ canon[sub] # None
        /\ UNCHANGED <<rows, tx>>
    BY <1>0, <1>11 DEF Deliver, TypeInv, TypeOK, database
  <2>2. Number[canon[sub]] = sub
    BY <1>0, <2>1, ChainLinks
  <2> QED
    BY <1>1, <2>1, <2>2 DEF GenesisOnly
<1>12. CASE Fail \/ FinishBackfill \/ GiveUp \/ Shutdown
  BY <1>1, <1>2, <1>12
     DEF Fail, FinishBackfill, GiveUp, Shutdown, Halt, GenesisOnly, database
<1>13. CASE Finalize \/ Reorg \/ UNCHANGED vars
  BY <1>1, <1>13 DEF Finalize, Reorg, vars, GenesisOnly, database
<1>14. CASE Restart \/ StreamError \/ ResumeHeight \/ ReadHead \/ PortalEmpty
  BY <1>1, <1>14 DEF Restart, StreamError, ResumeHeight, ReadHead, PortalEmpty,
                     GenesisOnly, database
<1>15. CASE LoopDone \/ CompleteBackfill \/ DetectReorg \/ WalkDown \/ Subscribe
  BY <1>1, <1>15 DEF LoopDone, CompleteBackfill, DetectReorg, WalkDown, Subscribe,
                     GenesisOnly, database
<1> QED
  BY <1>3, <1>4, <1>5, <1>6, <1>7, <1>8, <1>9, <1>10, <1>11, <1>12, <1>13, <1>14,
     <1>15
     DEF Next, Backfill, Process, Follow

\* The block that is recorded fills its height, and what it prunes has left the window.
LEMMA RecordFills ==
  ASSUME OneViewBackfill, ViewInv, Window, RecordBlock
  PROVE  FilledTo(tx'.rows, next' + tx'.recorded, TxHiwater')
<1> DEFINE r == tx.recorded
           b == batch[r + 1]
           t == tx.rows
           n == next + r
           v == TxHiwater
<1>0. Height \subseteq Nat /\ None \notin Height /\ StartHeight \in Nat /\ Retention \in Nat
  BY BlocksAssumption, RetentionAssumption, ProcessorAssumption DEF Height
<1>1. /\ pc = "tx" /\ r \in Nat /\ r < Len(batch) /\ Len(batch) \in Nat
      /\ t \in Tables /\ next \in Nat /\ Fits(t, r + 1) /\ BatchInOrder
      /\ hiwater \in Height \cup {None}
  BY <1>0 DEF RecordBlock, ViewInv, SafeInv, ChainInv, TypeInv, TypeOK
<1>2. /\ tx'.rows = SetCursor(t, b) /\ tx'.recorded = r + 1
      /\ next' = next /\ hiwater' = hiwater
  BY DEF RecordBlock, ViewInv, SafeInv, TypeInv, TypeOK, locals, history
<1>3. r + 1 \in 1..Len(batch)
  BY <1>1
<1>4. b \in Hash /\ b # None /\ Number[b] \in Height
  BY <1>1, <1>3, Basics DEF ViewInv, FollowInv, Busy
<1>5. n \in Height /\ n \in Nat /\ Number[b] = n
  <2>1. Number[b] = next + (r + 1) - 1
    BY <1>1, <1>3, <1>4 DEF BatchInOrder
  <2> HIDE DEF b
  <2> QED
    BY <1>0, <1>1, <1>4, <2>1
<1>6. FilledTo(t, n, v)
  BY <1>1 DEF Window
<1>7. v \in Nat \cup {None} /\ (v # None => v \in Nat)
  <2>1. r # 0 => next + r - 1 \in Nat
    BY <1>1
  <2> QED
    BY <1>0, <1>1, <2>1 DEF TxHiwater
<1>8. TxHiwater' \in Nat /\ TxHiwater' >= n /\ (v # None => TxHiwater' >= v)
  <2>1. TxHiwater' = IF hiwater = None \/ hiwater < n THEN n ELSE hiwater
    <3>1. r + 1 # 0 /\ next + (r + 1) - 1 = n
      BY <1>1
    <3> HIDE DEF r, n
    <3> QED
      BY <1>2, <3>1 DEF TxHiwater
  <2>2. v = IF r = 0 THEN hiwater
            ELSE IF hiwater = None \/ hiwater < n - 1 THEN n - 1 ELSE hiwater
    BY <1>1 DEF TxHiwater
  <2>3. hiwater # None => hiwater \in Nat
    BY <1>0, <1>1
  <2> HIDE DEF n, v
  <2> QED
    BY <1>5, <2>1, <2>2, <2>3
<1>9. next' + tx'.recorded = n + 1
  BY <1>1, <1>2
<1> HIDE DEF n, v, b, t
<1>10. FilledTo(SetCursor(t, b), n + 1, TxHiwater')
  <2> SUFFICES ASSUME NEW h \in Height, StartHeight <= h, h < n + 1,
                      Retention = 0 \/ TxHiwater' = None \/ h + Retention >= TxHiwater'
               PROVE  SetCursor(t, b)[h] # None
    BY DEF FilledTo
  <2>1. h \in Nat /\ (h = n \/ h < n) /\ TxHiwater' # None
    <3>1. h \in Nat /\ (h = n \/ h < n)
      BY <1>0, <1>5
    <3>2. TxHiwater' # None
      <4> DEFINE m == IF hiwater = None \/ hiwater < n THEN n ELSE hiwater
      <4>1. m \in Height
        BY <1>1, <1>5
      <4>2. TxHiwater' = m
        <5>1. r + 1 # 0 /\ next + (r + 1) - 1 = n
          BY <1>1 DEF n
        <5> QED
          BY <1>2, <5>1 DEF TxHiwater
      <4> QED
        BY <1>0, <4>1, <4>2
    <3> QED
      BY <3>1, <3>2
  <2>2. Retention = 0 \/ h + Retention >= TxHiwater'
    BY <2>1
  <2>3. ~ (Retention > 0 /\ h < SatSub(n, Retention))
    BY <1>0, <1>5, <1>8, <2>1, <2>2 DEF SatSub
  <2>4. SetCursor(t, b)[h] = IF h = n THEN b ELSE t[h]
    BY <1>1, <1>4, <1>5, <2>3 DEF SetCursor, Prune, Tables
  <2>5. CASE h = n
    BY <1>4, <2>4, <2>5
  <2>6. CASE h < n
    <3>1. Retention = 0 \/ v = None \/ h + Retention >= v
      BY <1>0, <1>7, <1>8, <2>1, <2>2
    <3>2. t[h] # None
      BY <1>6, <2>6, <3>1 DEF FilledTo
    <3> QED
      BY <1>5, <2>1, <2>4, <2>6, <3>2
  <2> QED
    BY <2>1, <2>5, <2>6
<1> QED
  BY <1>2, <1>9, <1>10

LEMMA CommitFills ==
  ASSUME OneViewBackfill, ViewInv, Window, Commit
  PROVE  Window'
<1> DEFINE m == Len(batch)
           n == Number[batch[m]]
<1>0. /\ Height \subseteq Nat /\ None \notin Height /\ MaxHeight \in Nat
      /\ hiwater \in Height \cup {None} /\ next \in Nat
  BY BlocksAssumption DEF Height, ViewInv, FollowInv, TypeInv, TypeOK
<1>1. /\ pc = "tx" /\ tx.recorded = m /\ m \in Nat \ {0} /\ rows' = tx.rows
      /\ FilledTo(tx.rows, next + m, TxHiwater)
  <2>1. pc = "tx" /\ tx.recorded = m /\ rows' = tx.rows
    BY DEF Commit
  <2>2. m \in Nat \ {0}
    BY <2>1, Basics DEF ViewInv, FollowInv, Busy
  <2> QED
    BY <2>1, <2>2 DEF Window
<1>2. /\ n \in Height /\ n \in Nat /\ n < MaxHeight /\ IsTop(rows', n)
      /\ rows' \in Tables
  BY <1>0, Committed DEF ViewInv, FollowInv
<1>3. next + m = n + 1 /\ next + m - 1 = n
  <2>1. m \in 1..m /\ batch[m] # None /\ BatchInOrder
    BY <1>1, Basics DEF ViewInv, SafeInv, ChainInv, FollowInv, Busy
  <2>2. n = next + m - 1
    BY <2>1 DEF BatchInOrder
  <2> HIDE DEF n
  <2>3. m \in Nat
    BY <1>1
  <2> HIDE DEF m
  <2> QED
    BY <1>0, <1>2, <2>2, <2>3
<1>4. Top(rows') = n /\ Cursor(tx.rows) = n
  BY <1>1, <1>2, TopUnique
<1>5. TxHiwater = IF hiwater = None \/ hiwater < n THEN n ELSE hiwater
  BY <1>1, <1>3 DEF TxHiwater
<1>6. hiwater' = TxHiwater
  BY <1>4, <1>5 DEF Commit
<1>7. pc' = "loop" /\ next' = n + 1
  <2>1. ~following
    BY DEF ViewInv, SafeInv, ChainInv
  <2>2. pc' = "loop" /\ next' = SatAdd(n, 1)
    BY <2>1 DEF Commit
  <2> QED
    BY <1>0, <1>2, <2>2 DEF SatAdd
<1> HIDE DEF n, m
<1>8. FilledTo(rows', n + 1, hiwater')
  BY <1>1, <1>3, <1>6
<1> QED
  BY <1>4, <1>7, <1>8 DEF Window

LEMMA RewindFills ==
  ASSUME OneViewBackfill, ViewInv, Window, Rewind
  PROVE  Window'
<1> DEFINE w == walk.height
<1>1. /\ pc = "walk" /\ rows' = RollbackTo(rows, w) /\ w < next /\ ~following
      /\ next' = SatAdd(w, 1) /\ pc' = "loop" /\ hiwater' = hiwater
  BY DEF Rewind, ViewInv, SafeInv, ChainInv, history
<1>2. /\ w \in Nat /\ next \in Nat /\ next <= MaxHeight /\ MaxHeight \in Nat
      /\ Height \subseteq Nat /\ rows \in Tables /\ rows' \in Tables
  BY <1>1, Basics, RollbackType, BlocksAssumption DEF ViewInv, FollowInv, Height
<1>3. next' = w + 1
  BY <1>1, <1>2 DEF SatAdd
<1>4. FilledTo(rows, next, hiwater)
  BY <1>1 DEF Window
<1>5. FilledTo(rows', w + 1, hiwater')
  <2> SUFFICES ASSUME NEW h \in Height, StartHeight <= h, h < w + 1,
                      Retention = 0 \/ hiwater = None \/ h + Retention >= hiwater
               PROVE  rows'[h] # None
    BY <1>1 DEF FilledTo
  <2>1. h < next /\ ~ (h > w)
    BY <1>1, <1>2
  <2>2. rows[h] # None
    BY <1>4, <2>1 DEF FilledTo
  <2> QED
    BY <1>1, <2>1, <2>2 DEF RollbackTo
<1>6. ~IsEmpty(rows') => Top(rows') \in Nat /\ Top(rows') <= w
  <2> SUFFICES ASSUME ~IsEmpty(rows')
               PROVE  Top(rows') \in Nat /\ Top(rows') <= w
    OBVIOUS
  <2>1. Top(rows') \in Height /\ rows'[Top(rows')] # None
    BY <1>2, TopExists DEF IsTop
  <2>2. ~ (Top(rows') > w)
    BY <1>1, <2>1 DEF RollbackTo
  <2>3. Top(rows') \in Nat
    BY <1>2, <2>1
  <2> HIDE DEF w
  <2> QED
    BY <1>2, <2>2, <2>3
<1>7. ~IsEmpty(rows') => FilledTo(rows', Top(rows') + 1, hiwater')
  <2> SUFFICES ASSUME ~IsEmpty(rows'), NEW h \in Height, h < Top(rows') + 1
               PROVE  h < w + 1
    BY <1>5 DEF FilledTo
  <2> QED
    BY <1>2, <1>6
<1> QED
  BY <1>1, <1>3, <1>5, <1>7 DEF Window

LEMMA WindowStep ==
  ASSUME OneViewBackfill, ViewInv, Window, [Next]_vars
  PROVE  Window'
<1>0. /\ Height \subseteq Nat /\ None \notin Height /\ MaxHeight \in Nat
      /\ StartHeight \in Nat /\ rows \in Tables /\ next \in Nat
  BY Basics, ProcessorAssumption DEF ViewInv, FollowInv
<1>1. CASE ResumeHeight
  <2>1. /\ UNCHANGED <<rows, hiwater>> /\ pc' = "head"
        /\ next' = IF Cursor(rows) = None THEN StartHeight ELSE SatAdd(Cursor(rows), 1)
    BY <1>1 DEF ResumeHeight, database, history
  <2>2. CASE IsEmpty(rows)
    <3>1. next' = StartHeight
      BY <2>1, <2>2 DEF Cursor
    <3>2. FilledTo(rows, StartHeight, hiwater)
      BY <1>0 DEF FilledTo
    <3> QED
      BY <2>1, <2>2, <3>1, <3>2 DEF Window
  <2>3. CASE ~IsEmpty(rows)
    <3>1. Top(rows) \in Height /\ rows[Top(rows)] # None
      BY <1>0, <2>3, TopExists DEF IsTop
    <3>2. Top(rows) <= Top(canon) /\ Top(canon) \in Nat /\ Top(canon) < MaxHeight
      BY <1>0, <3>1, Basics DEF ViewInv, FollowInv, Seen
    <3>3. next' = SatAdd(Top(rows), 1)
      BY <1>0, <2>1, <2>3, <3>1 DEF Cursor
    <3>4. next' = Top(rows) + 1
      <4>1. Top(rows) \in Nat
        BY <1>0, <3>1
      <4> QED
        BY <1>0, <3>2, <3>3, <4>1 DEF SatAdd
    <3>5. FilledTo(rows, Top(rows) + 1, hiwater)
      BY <2>3 DEF Window
    <3> QED
      BY <2>1, <2>3, <3>4, <3>5 DEF Window
  <2> QED
    BY <2>2, <2>3
<1>2. CASE AcceptBatch
  <2>1. /\ tx'.rows = rows /\ tx'.recorded = 0 /\ next + 0 = next
        /\ UNCHANGED <<rows, next, hiwater>> /\ pc = "check"
    BY <1>0, <1>2 DEF AcceptBatch, NoTx, database, locals, history
  <2>2. TxHiwater' = hiwater
    BY <2>1 DEF TxHiwater
  <2> QED
    BY <2>1, <2>2 DEF Window
<1>3. CASE WriteHandler
  <2>1. /\ tx'.rows = tx.rows /\ tx'.recorded = tx.recorded
        /\ UNCHANGED <<rows, next, hiwater, pc>>
    BY <1>3 DEF WriteHandler, ViewInv, FollowInv, TypeInv, TypeOK, database, locals,
                history
  <2>2. TxHiwater' = TxHiwater
    BY <2>1 DEF TxHiwater
  <2> QED
    BY <2>1, <2>2 DEF Window
<1>4. CASE RecordBlock
  <2>1. UNCHANGED <<rows, next, hiwater, pc>>
    BY <1>4 DEF RecordBlock, database, locals, history
  <2>2. pc = "tx" /\ FilledTo(tx'.rows, next' + tx'.recorded, TxHiwater')
    BY <1>4, RecordFills DEF RecordBlock
  <2> QED
    BY <2>1, <2>2 DEF Window
<1>5. CASE Commit
  BY <1>5, CommitFills
<1>6. CASE Rewind
  BY <1>6, RewindFills
<1>7. CASE Finalize \/ Reorg \/ UNCHANGED vars
  <2>1. UNCHANGED <<rows, next, hiwater, pc, tx>>
    BY <1>7 DEF Finalize, Reorg, vars, database, locals, history
  <2>2. TxHiwater' = TxHiwater
    BY <2>1 DEF TxHiwater
  <2> QED
    BY <2>1, <2>2 DEF Window
<1>8. CASE /\ UNCHANGED <<rows, hiwater>>
           /\ \/ pc' \in Down \cup {"resume", "complete", "tip"}
              \/ /\ pc \in {"head", "loop", "fetch", "check", "walk"}
                 /\ pc' # "tx" /\ next' = next
  <2>1. pc' # "tx"
    BY <1>8 DEF Down
  <2>2. ~ (pc' \in Down \cup {"resume", "complete", "tip"}
             /\ pc' \in {"head", "loop", "fetch", "check", "walk", "tx"})
    BY DEF Down
  <2> QED
    BY <1>8, <2>1, <2>2 DEF Window
<1>9. CASE Fail \/ FinishBackfill \/ GiveUp \/ Shutdown
  BY <1>8, <1>9 DEF Fail, FinishBackfill, GiveUp, Shutdown, Halt, database, Down
<1>10. CASE Restart \/ StreamError \/ ReadHead \/ PortalEmpty \/ LoopDone
  BY <1>8, <1>10 DEF Restart, StreamError, ReadHead, PortalEmpty, LoopDone, database,
                     locals, history
<1>11. CASE FetchFromPortal \/ RequestSpan \/ DetectReorg \/ WalkDown
  BY <1>8, <1>11 DEF FetchFromPortal, RequestSpan, DetectReorg, WalkDown, database,
                     locals, history
<1>12. CASE \E i \in 1..BatchSize : AnswerHeight(i)
  BY <1>8, <1>12 DEF AnswerHeight, database, locals, history
<1>13. CASE CompleteBackfill \/ Subscribe \/ Deliver
  <2>1. FollowTip = FALSE /\ pc # "tip"
    BY DEF OneViewBackfill, ViewInv, SafeInv, ChainInv
  <2> QED
    BY <1>13, <2>1 DEF CompleteBackfill, Subscribe, Deliver
<1> QED
  BY <1>1, <1>2, <1>3, <1>4, <1>5, <1>6, <1>7, <1>9, <1>10, <1>11, <1>12, <1>13
     DEF Next, Backfill, Process, Follow

\* A walk that is not too deep is at a height of the window.
LEMMA WindowHolds ==
  ASSUME OneViewBackfill, Retention = 0 \/ MaxReorgDepth <= Retention, ViewInv, Window
  PROVE  WindowHoldsAncestor
<1> SUFFICES ASSUME pc = "walk", ~TooDeep, MaxReorgDepth # 0, Cursor(rows) = hiwater,
                    ~ (walk.height < StartHeight)
             PROVE  rows[walk.height] # None
  BY DEF WindowHoldsAncestor
<1> DEFINE w == walk.height
<1>0. /\ Height \subseteq Nat /\ None \notin Height /\ StartHeight \in Nat
      /\ Retention \in Nat /\ MaxReorgDepth \in Nat /\ rows \in Tables
      /\ w \in Height /\ next \in Height
  BY Basics, ProcessorAssumption, RetentionAssumption DEF ViewInv, FollowInv
<1>1. w < next /\ (rows[w] # None \/ rows[w + 1] # None)
  BY DEF ViewInv, SafeInv, ChainInv
<1>2. FilledTo(rows, next, hiwater)
  BY DEF Window
<1>3. ~IsEmpty(rows)
  <2>1. w + 1 \in Height
    BY <1>0, <1>1, BlocksAssumption DEF Height
  <2> QED
    BY <1>0, <1>1, <2>1 DEF IsEmpty
<1>4. hiwater = Top(rows) /\ Top(rows) \in Height
  BY <1>0, <1>3, TopExists DEF Cursor, IsTop
<1>5. ~ (SatSub(Top(rows), w) > MaxReorgDepth)
  <2>1. Cursor(rows) # None
    BY <1>0, <1>4
  <2> QED
    BY <1>4, <2>1 DEF TooDeep, WalkDepth
<1>6. w \in Nat /\ Top(rows) \in Nat /\ next \in Nat
  BY <1>0, <1>4
<1>7. Retention = 0 \/ w + Retention >= hiwater
  <2> HIDE DEF w
  <2> QED
    BY <1>0, <1>4, <1>5, <1>6 DEF SatSub
<1>8. StartHeight <= w
  BY <1>0, <1>6
<1> QED
  BY <1>0, <1>1, <1>2, <1>7, <1>8 DEF FilledTo

-----------------------------------------------------------------------------

\* A commit in such a backfill leaves canonical rows only, for every fork the node
\* went through before the batch was asked for, also while the process was down.
THEOREM CommitsConverge == OneViewBackfill => (Spec => CommitConverges)
<1> SUFFICES ASSUME OneViewBackfill
             PROVE  Spec => CommitConverges
  OBVIOUS
<1>1. ViewInv /\ [Next]_vars => ViewInv'
  BY ViewStep
<1>2. ViewInv /\ [Next]_vars
        => [Commit /\ steady => \A h \in Height : rows'[h] \in {None, canon[h]}]_vars
  BY ConvergesOnCommit
<1> QED
  BY <1>1, <1>2, InitView, PTL DEF Spec, CommitConverges

\* The rewind finds the true common ancestor: what it leaves is canonical and what it
\* drops is not.
THEOREM RewindsExact == OneViewBackfill /\ OneGenesis => (Spec => RewindExact)
<1> SUFFICES ASSUME OneViewBackfill, OneGenesis
             PROVE  Spec => RewindExact
  OBVIOUS
<1>1. Init => ViewInv /\ GenesisOnly
  <2>1. Init => GenesisOnly
    BY BlocksAssumption DEF Init, NoTx, EmptyTable, GenesisOnly, Height
  <2> QED
    BY <2>1, InitView
<1>2. ViewInv /\ GenesisOnly /\ [Next]_vars => (ViewInv /\ GenesisOnly)'
  BY ViewStep, GenesisStep
<1>3. ViewInv /\ GenesisOnly /\ [Next]_vars
        => [Rewind /\ steady =>
              \A h \in Height :
                /\ rows'[h] \in {None, canon[h]}
                /\ rows[h] # None /\ rows'[h] = None => rows[h] # canon[h]]_vars
  <2> SUFFICES ASSUME ViewInv, GenesisOnly, Rewind, steady, NEW h \in Height
               PROVE  /\ rows'[h] \in {None, canon[h]}
                      /\ rows[h] # None /\ rows'[h] = None => rows[h] # canon[h]
    OBVIOUS
  <2>1. RowsLinked
    BY DEF RowsLinked, ViewInv, SafeInv, ChainInv, IsSegment
  <2> QED
    BY <2>1, ConvergesOnRewind, CutsOrphans DEF ViewInv
<1> QED
  BY <1>1, <1>2, <1>3, PTL DEF Spec, RewindExact

\* With the window that the configuration validates, no walk that is allowed to go on
\* has run out of rows: the hash it needs has not been pruned.
THEOREM AncestorHeld ==
  OneViewBackfill /\ (Retention = 0 \/ MaxReorgDepth <= Retention)
    => (Spec => []WindowHoldsAncestor)
<1> SUFFICES ASSUME OneViewBackfill, Retention = 0 \/ MaxReorgDepth <= Retention
             PROVE  Spec => []WindowHoldsAncestor
  OBVIOUS
<1>1. Init => ViewInv /\ Window
  <2>1. Init => Window
    BY DEF Init, EmptyTable, IsEmpty, Window
  <2> QED
    BY <2>1, InitView
<1>2. ViewInv /\ Window /\ [Next]_vars => (ViewInv /\ Window)'
  BY ViewStep, WindowStep
<1>3. ViewInv /\ Window => WindowHoldsAncestor
  BY WindowHolds
<1> QED
  BY <1>1, <1>2, <1>3, PTL DEF Spec
=============================================================================
