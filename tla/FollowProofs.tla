---------------------------- MODULE FollowProofs ----------------------------
(***************************************************************************)
(* Links, rewinds and gauges, for every source, in backfill and at the     *)
(* tip: no row beside one of another fork, and what a rewind drops is gone *)
(* from the chain.                                                         *)
(***************************************************************************)
EXTENDS ProcessorProofs

\* A live subscription never goes back to a fork: the node does not redeliver, or
\* its stream is not followed.
GoesForward == ~ (FollowTip /\ Redelivers)

Busy == {"check", "walk", "tx"}

\* The node only grows: nothing that was ever taken from it lies above its head.
Seen ==
  /\ \A h \in Height : rows[h] # None => h <= Top(canon)
  /\ \A i \in 1..Len(batch) : batch[i] # None => Number[batch[i]] <= Top(canon)

\* Which loop the process is in, and the one block that a batch at the tip is.
Modes ==
  /\ pc \in Down \cup {"resume", "head", "loop", "fetch", "complete"} => ~following
  /\ pc = "tip" => following
  /\ ~following => sub = None
  /\ following => FollowTip
  /\ pc \in Busy /\ following =>
       Len(batch) = 1 /\ sub = Number[batch[1]] + 1
  /\ pc \in Busy /\ ~following => Number[batch[1]] = next

\* Nothing on record lies above the block that is processed or comes next.
OnTop ==
  /\ pc \in {"head", "loop", "fetch"} => \A h \in Height : rows[h] # None => h < next
  /\ pc \in Busy => \A h \in Height : rows[h] # None =>
       /\ h <= Number[batch[1]]
       /\ ~following => h < next
  /\ pc = "tip" /\ sub # None => \A h \in Height : rows[h] # None => h <= sub

\* The open transaction: the rows it began with, or the block recorded last on top.
TxTop ==
  pc = "tx" =>
    /\ tx.recorded <= Len(batch)
    /\ tx.recorded = 0 => tx.rows = rows
    /\ tx.recorded > 0 =>
         LET b == batch[tx.recorded]
         IN  IsTop(tx.rows, Number[b]) /\ tx.rows[Number[b]] = b
    /\ tx.recorded = 1 => tx.rows = SetCursor(rows, batch[1])

\* The check stands until the commit or the rewind: nobody else writes rows.
Checked ==
  /\ pc = "walk" => Diverged(batch[1])
  /\ pc = "tx" => ~Diverged(batch[1])

\* The gauges of a process, and none without one.
GaugesInv == GaugesMatchTable /\ (pc \in Down => gauges = NoGauges)

\* As long as the node has not forked, the batch is canonical, the walk compares
\* with canonical hashes, and the rows it has passed are not canonical.
Canonical ==
  steady =>
    /\ pc \in Busy \cup {"fetch"} =>
         \A i \in 1..Len(batch) : batch[i] # None => canon[Number[batch[i]]] = batch[i]
    /\ pc = "walk" =>
         /\ walk.height < Number[batch[1]]
         /\ walk.hash = canon[walk.height]
         /\ \A h \in Height :
              h > walk.height /\ h < Number[batch[1]] /\ rows[h] # None =>
                rows[h] # canon[h]

FollowInv ==
  /\ TypeInv /\ BatchPlaced
  /\ Seen /\ Modes /\ OnTop /\ TxTop /\ Checked /\ GaugesInv /\ Canonical

-----------------------------------------------------------------------------

\* A chain holds every height up to its head, which lies below the last height.
LEMMA ChainHolds ==
  ASSUME NEW c \in Chains
  PROVE  /\ Top(c) \in Height /\ Top(c) < MaxHeight
         /\ \A h \in Height : c[h] # None <=> h <= Top(c)
<1>1. c \in Tables /\ IsTop(c, Top(c)) /\ c[0] # None /\ Contiguous(c)
  BY ChainFacts, BlocksAssumption DEF IsChain, IsSegment
<1>2. /\ MaxHeight \in Nat /\ Top(c) \in Nat /\ Top(c) \in Height /\ 0 \in Height
      /\ Height \subseteq Nat
  BY <1>1, BlocksAssumption DEF IsTop, Height
<1>3. Top(c) < MaxHeight
  BY <1>1, ChainLinks DEF IsTop
<1>4. ASSUME NEW h \in Height, h <= Top(c)
      PROVE  c[h] # None
  <2>1. CASE h = 0 \/ h = Top(c)
    BY <1>1, <2>1 DEF IsTop
  <2>2. CASE 0 < h /\ h < Top(c)
    BY <1>1, <1>2, <2>2 DEF IsTop, Contiguous
  <2> QED
    BY <1>2, <1>4, <2>1, <2>2
<1>5. \A h \in Height : c[h] # None => h <= Top(c)
  BY <1>1, <1>2 DEF IsTop
<1> QED
  BY <1>2, <1>3, <1>4, <1>5

\* The node never shows a shorter chain.
LEMMA HeadGrows ==
  ASSUME TypeInv, Finalize \/ Reorg
  PROVE  /\ canon' \in Chains /\ canon \in Chains
         /\ Top(canon') \in Nat /\ Top(canon) \in Nat /\ Top(canon) <= Top(canon')
         /\ UNCHANGED <<rows, batch, pc, following, next, walk, tx, gauges, hiwater,
                         entities>>
<1>1. canon' \in Chains /\ canon \in Chains
  BY DEF Finalize, Reorg, TypeInv, TypeOK
<1>2. Top(canon') \in Nat /\ Top(canon) \in Nat
  BY <1>1, ChainHolds, BlocksAssumption DEF Height
<1>3. Top(canon) <= Top(canon')
  BY <1>2 DEF Finalize, Reorg, ExtendsByOne
<1> QED
  BY <1>1, <1>2, <1>3 DEF Finalize, Reorg, database, locals, history

\* What every step may rely on.
LEMMA Basics ==
  ASSUME TypeInv
  PROVE  /\ MaxHeight \in Nat \ {0} /\ Height \subseteq Nat /\ None \notin Hash
         /\ None \notin Height /\ 0 \in Height
         /\ rows \in Tables /\ tx.rows \in Tables /\ canon \in Chains
         /\ next \in Height /\ walk.height \in Height
         /\ Top(canon) \in Height /\ Top(canon) < MaxHeight
         /\ tx.recorded \in Nat
         /\ batch \in Seq(Hash \cup {None})
         /\ \A i \in 1..Len(batch) : batch[i] # None =>
              batch[i] \in Hash /\ Number[batch[i]] \in Height
         /\ pc \in Busy =>
              /\ Len(batch) \in Nat \ {0}
              /\ \A i \in 1..Len(batch) : batch[i] \in Hash /\ batch[i] # None
              /\ 1 \in 1..Len(batch) /\ Len(batch) \in 1..Len(batch)
<1>1. MaxHeight \in Nat \ {0} /\ Height \subseteq Nat /\ 0 \in Height
  BY BlocksAssumption DEF Height
<1>2. /\ rows \in Tables /\ tx.rows \in Tables /\ canon \in Chains
      /\ next \in Height /\ walk.height \in Height /\ tx.recorded \in Nat
      /\ batch \in Seq(Hash \cup {None})
  BY DEF TypeInv, TypeOK
<1>3. Top(canon) \in Height /\ Top(canon) < MaxHeight
  BY <1>2, ChainHolds
<1>4. \A i \in 1..Len(batch) : batch[i] \in Hash \cup {None}
  BY <1>2
<1>5. pc \in Busy =>
        /\ Len(batch) \in Nat \ {0}
        /\ \A i \in 1..Len(batch) : batch[i] \in Hash
  <2> SUFFICES ASSUME pc \in Busy
               PROVE  /\ Len(batch) \in Nat \ {0}
                      /\ \A i \in 1..Len(batch) : batch[i] \in Hash
    OBVIOUS
  <2>1. batch \in Seq(Hash) /\ batch # <<>>
    BY DEF TypeInv, BatchOK, Busy
  <2> QED
    BY <2>1
<1> QED
  BY <1>1, <1>2, <1>3, <1>4, <1>5, BlocksAssumption

\* A portal's response is a run of canonical blocks from `next` on.
LEMMA Fetched ==
  ASSUME TypeInv, FetchFromPortal
  PROVE  /\ Len(batch') \in Nat \ {0} /\ 1 \in 1..Len(batch')
         /\ \A i \in 1..Len(batch') :
              /\ next + i - 1 \in Height
              /\ batch'[i] = canon[next + i - 1] /\ batch'[i] # None
              /\ Number[batch'[i]] = next + i - 1
<1>1. PICK n \in 1..Asked :
        /\ \A i \in 1..n : canon[next + i - 1] # None
        /\ batch' = [i \in 1..n |-> canon[next + i - 1]]
  BY DEF FetchFromPortal
<1>2. Asked \in Nat \ {0} /\ \A i \in 1..Asked : next + i - 1 \in Height
  BY AskedFacts DEF FetchFromPortal
<1>3. n \in Nat \ {0}
  BY <1>2
<1>4. Len(batch') = n
  BY <1>1, <1>3
<1>5. \A i \in 1..n : i \in 1..Asked
  BY <1>2
<1>6. \A i \in 1..n : next + i - 1 \in Height /\ batch'[i] = canon[next + i - 1]
                      /\ batch'[i] # None
  BY <1>1, <1>2, <1>5
<1>7. ASSUME NEW i \in 1..n
      PROVE  Number[batch'[i]] = next + i - 1
  <2>1. canon \in Chains /\ next + i - 1 \in Height /\ canon[next + i - 1] # None
    BY <1>6 DEF TypeInv, TypeOK
  <2>2. Number[canon[next + i - 1]] = next + i - 1
    BY <2>1, ChainLinks
  <2> QED
    BY <1>6, <2>2
<1> QED
  BY <1>3, <1>4, <1>6, <1>7

\* An answer puts a canonical block in its place, and the rest stays.
LEMMA Answered ==
  ASSUME TypeInv, BatchPlaced, NEW i \in 1..BatchSize, AnswerHeight(i)
  PROVE  /\ pc = "fetch" /\ i \in 1..Len(batch) /\ Len(batch') = Len(batch)
         /\ next + i - 1 \in Height
         /\ batch'[i] = canon[next + i - 1] /\ batch'[i] # None
         /\ \A j \in 1..Len(batch) : j # i => batch'[j] = batch[j]
         /\ \A j \in 1..Len(batch) : batch'[j] # None =>
              Number[batch'[j]] = next + j - 1
         /\ 1 \in 1..Len(batch)
         /\ pc' = "check" => \A j \in 1..Len(batch) : batch'[j] # None
<1>1. /\ batch \in Seq(Hash \cup {None}) /\ i \in 1..Len(batch)
      /\ batch' = [batch EXCEPT ![i] = canon[next + i - 1]]
      /\ canon[next + i - 1] # None /\ pc = "fetch"
      /\ next + Len(batch) - 1 <= head /\ head \in Height /\ next \in Height
  BY DEF AnswerHeight, TypeInv, TypeOK, BatchOK
<1>2. next + i - 1 \in Height
  BY <1>1, BlocksAssumption DEF Height
<1>3. Number[canon[next + i - 1]] = next + i - 1
  BY <1>1, <1>2, ChainLinks DEF TypeInv, TypeOK
<1>4. Len(batch') = Len(batch) /\ DOMAIN batch = 1..Len(batch)
  BY <1>1
<1>5. \A j \in 1..Len(batch) :
        batch'[j] = IF j = i THEN canon[next + i - 1] ELSE batch[j]
  BY <1>1, <1>4
<1>6. \A j \in 1..Len(batch) : batch'[j] # None => Number[batch'[j]] = next + j - 1
  BY <1>1, <1>3, <1>5 DEF BatchPlaced
<1>7. pc' = "check" => \A j \in 1..Len(batch) : batch'[j] # None
  BY <1>4 DEF AnswerHeight
<1>8. 1 \in 1..Len(batch)
  BY <1>1
<1> QED
  BY <1>1, <1>2, <1>4, <1>5, <1>6, <1>7, <1>8

\* What commit_batch leaves: the last block of the batch on top.
LEMMA Committed ==
  ASSUME FollowInv, Commit
  PROVE  LET n == Number[batch[Len(batch)]]
         IN  /\ n \in Height /\ n < MaxHeight /\ IsTop(rows', n)
             /\ rows' = tx.rows /\ rows' \in Tables
             /\ following => n = Number[batch[1]] /\ Len(batch) = 1 /\ n + 1 = sub
<1> DEFINE m == Len(batch)
           n == Number[batch[m]]
<1>1. /\ pc = "tx" /\ tx.recorded = m /\ rows' = tx.rows
  BY DEF Commit
<1>2. /\ m \in Nat \ {0} /\ m \in 1..m /\ batch[m] \in Hash /\ batch[m] # None
      /\ n \in Height /\ tx.rows \in Tables
  BY <1>1, Basics DEF FollowInv, Busy
<1>3. n <= Top(canon) /\ Top(canon) \in Nat /\ Top(canon) < MaxHeight /\ n \in Nat
      /\ MaxHeight \in Nat
  BY <1>2, Basics DEF FollowInv, Seen
<1>4. IsTop(tx.rows, n)
  BY <1>1, <1>2 DEF FollowInv, TxTop
<1>5. following => m = 1 /\ Number[batch[1]] + 1 = sub
  BY <1>1 DEF FollowInv, Modes, Busy
<1> HIDE DEF n
<1>6. following => n = Number[batch[1]] /\ n + 1 = sub
  BY <1>5 DEF n
<1> QED
  BY <1>1, <1>2, <1>3, <1>4, <1>5, <1>6 DEF n
LEMMA SeenStep ==
  ASSUME FollowInv, [Next]_vars
  PROVE  Seen'
<1> USE DEF FollowInv
<1>0. /\ Height \subseteq Nat /\ Top(canon) \in Nat /\ canon \in Chains
      /\ Len(<<>>) = 0
  BY Basics
<1>1. CASE Finalize \/ Reorg
  <2>1. /\ rows' = rows /\ batch' = batch
        /\ Top(canon') \in Nat /\ Top(canon) <= Top(canon')
    BY <1>1, HeadGrows
  <2>2. \A i \in 1..Len(batch) : batch[i] # None => Number[batch[i]] \in Nat
    BY <1>0, Basics
  <2> QED
    BY <1>0, <2>1, <2>2 DEF Seen
<1>2. CASE Fail \/ FinishBackfill \/ GiveUp \/ Shutdown
  BY <1>2 DEF Fail, FinishBackfill, GiveUp, Shutdown, Halt, Seen, node, database
<1>3. CASE FetchFromPortal
  <2>1. \A i \in 1..Len(batch') : Number[batch'[i]] <= Top(canon)
    BY <1>0, <1>3, Fetched, ChainHolds
  <2> QED
    BY <1>3, <2>1 DEF FetchFromPortal, Seen, node, database
<1>4. CASE RequestSpan
  <2>1. \A i \in 1..Len(batch') : batch'[i] = None
    <3>1. Asked \in Nat \ {0} /\ batch' = [i \in 1..Asked |-> None]
      BY <1>4, AskedFacts DEF RequestSpan
    <3> QED
      BY <3>1
  <2> QED
    BY <1>4, <2>1 DEF RequestSpan, Seen, node, database
<1>5. ASSUME NEW i \in 1..BatchSize, AnswerHeight(i)
      PROVE  Seen'
  <2>1. /\ Len(batch') = Len(batch) /\ next + i - 1 \in Height
        /\ batch'[i] = canon[next + i - 1] /\ batch'[i] # None
        /\ i \in 1..Len(batch) /\ Number[batch'[i]] = next + i - 1
        /\ \A j \in 1..Len(batch) : j # i => batch'[j] = batch[j]
    BY <1>5, Answered
  <2>2. Number[batch'[i]] <= Top(canon)
    BY <1>0, <2>1, ChainHolds
  <2> QED
    BY <1>5, <2>1, <2>2 DEF AnswerHeight, Seen, node, database
<1>6. CASE Rewind
  BY <1>0, <1>6 DEF Rewind, RollbackTo, Seen, node
<1>7. CASE Commit
  <2>1. /\ pc = "tx" /\ tx.recorded = Len(batch)
    BY <1>7 DEF Commit
  <2>2. /\ Len(batch) \in 1..Len(batch) /\ batch[Len(batch)] # None
    BY <2>1, Basics DEF Busy
  <2>3. Number[batch[Len(batch)]] <= Top(canon)
    BY <2>2 DEF Seen
  <2>4. /\ IsTop(rows', Number[batch[Len(batch)]])
        /\ Number[batch[Len(batch)]] \in Height
    BY <1>7, Committed
  <2>5. \A h \in Height : rows'[h] # None => h <= Top(canon)
    BY <1>0, <2>3, <2>4 DEF IsTop
  <2> QED
    BY <1>7, <2>5 DEF Commit, Seen, node
<1>8. CASE Deliver
  <2>1. /\ batch' = <<canon[sub]>> /\ sub \in Height /\ canon[sub] # None
        /\ UNCHANGED <<rows, canon>>
    BY <1>8 DEF Deliver, TypeInv, TypeOK, node, database
  <2>2. Number[canon[sub]] <= Top(canon)
    BY <1>0, <2>1, ChainLinks, ChainHolds
  <2> QED
    BY <2>1, <2>2 DEF Seen
<1>9. CASE Restart \/ StreamError \/ ResumeHeight \/ ReadHead \/ PortalEmpty
  BY <1>9 DEF Restart, StreamError, ResumeHeight, ReadHead, PortalEmpty, Seen, node,
              database
<1>10. CASE LoopDone \/ CompleteBackfill \/ DetectReorg \/ AcceptBatch \/ WalkDown
  BY <1>10 DEF LoopDone, CompleteBackfill, DetectReorg, AcceptBatch, WalkDown, Seen,
               node, database
<1>11. CASE WriteHandler \/ RecordBlock \/ Subscribe \/ UNCHANGED vars
  BY <1>11 DEF WriteHandler, RecordBlock, Subscribe, vars, Seen, node, database
<1> QED
  BY <1>1, <1>2, <1>3, <1>4, <1>5, <1>6, <1>7, <1>8, <1>9, <1>10, <1>11
     DEF Next, Backfill, Process, Follow

LEMMA SubStays ==
  ASSUME GoesForward, FollowInv, Finalize \/ Reorg
  PROVE  sub' = sub
<1>1. sub # None => FollowTip
  BY DEF FollowInv, Modes
<1> QED
  BY <1>1 DEF Finalize, Reorg, GoesForward

LEMMA ModesStep ==
  ASSUME GoesForward, FollowInv, [Next]_vars
  PROVE  Modes'
<1> USE DEF FollowInv, Busy, Down
<1>0. /\ Height \subseteq Nat /\ canon \in Chains /\ next \in Nat
  BY Basics
<1>1. CASE Finalize \/ Reorg
  <2>1. UNCHANGED <<pc, following, next, batch>>
    BY <1>1, HeadGrows
  <2>2. sub' = sub
    BY <1>1, SubStays
  <2> QED
    BY <2>1, <2>2 DEF Modes
<1>2. CASE Fail \/ FinishBackfill \/ GiveUp \/ Shutdown
  BY <1>2 DEF Fail, FinishBackfill, GiveUp, Shutdown, Halt, Modes
<1>3. CASE FetchFromPortal
  <2>1. Number[batch'[1]] = next
    <3>1. 1 \in 1..Len(batch') /\ next + 1 - 1 = next
      BY <1>0, <1>3, Fetched
    <3> QED
      BY <1>3, <3>1, Fetched
  <2> QED
    BY <1>3, <2>1 DEF FetchFromPortal, Modes, locals
<1>4. ASSUME NEW i \in 1..BatchSize, AnswerHeight(i)
      PROVE  Modes'
  <2>1. 1 \in 1..Len(batch) /\ pc = "fetch" /\ next + 1 - 1 = next
    BY <1>0, <1>4, Answered
  <2>2. pc' = "check" => Number[batch'[1]] = next
    BY <1>4, <2>1, Answered
  <2> QED
    BY <1>4, <2>1, <2>2 DEF AnswerHeight, Modes, locals
<1>5. CASE Deliver
  <2>1. /\ batch' = <<canon[sub]>> /\ sub \in Height /\ canon[sub] # None
        /\ sub' = sub + 1 /\ pc = "tip" /\ pc' = "check"
        /\ UNCHANGED <<following, next>>
    BY <1>5 DEF Deliver, TypeInv, TypeOK
  <2>2. Number[canon[sub]] = sub
    BY <1>0, <2>1, ChainLinks
  <2> QED
    BY <2>1, <2>2 DEF Modes
<1>6. CASE Rewind \/ Commit
  BY <1>6 DEF Rewind, Commit, Modes
<1>7. CASE Restart \/ StreamError \/ ResumeHeight \/ ReadHead \/ PortalEmpty
  BY <1>7 DEF Restart, StreamError, ResumeHeight, ReadHead, PortalEmpty, Modes, locals
<1>8. CASE RequestSpan \/ LoopDone \/ CompleteBackfill \/ Subscribe
  BY <1>8 DEF RequestSpan, LoopDone, CompleteBackfill, Subscribe, Modes, locals
<1>9. CASE DetectReorg \/ AcceptBatch \/ WalkDown \/ WriteHandler \/ RecordBlock
  BY <1>9 DEF DetectReorg, AcceptBatch, WalkDown, WriteHandler, RecordBlock, Modes,
              locals
<1>10. CASE UNCHANGED vars
  BY <1>10 DEF vars, Modes
<1> QED
  BY <1>1, <1>2, <1>3, <1>4, <1>5, <1>6, <1>7, <1>8, <1>9, <1>10
     DEF Next, Backfill, Process, Follow

LEMMA OnTopStep ==
  ASSUME GoesForward, FollowInv, [Next]_vars
  PROVE  OnTop'
<1> USE DEF FollowInv, Busy
<1>0. /\ MaxHeight \in Nat /\ Height \subseteq Nat /\ canon \in Chains /\ next \in Nat
      /\ Top(canon) \in Nat /\ Top(canon) < MaxHeight /\ rows \in Tables
      /\ walk.height \in Nat /\ None \notin Height
  BY Basics
<1>1. CASE Finalize \/ Reorg
  <2>1. UNCHANGED <<rows, pc, following, next, batch>>
    BY <1>1, HeadGrows
  <2>2. sub' = sub
    BY <1>1, SubStays
  <2> QED
    BY <2>1, <2>2 DEF OnTop
<1>2. CASE Fail \/ FinishBackfill \/ GiveUp \/ Shutdown
  BY <1>2 DEF Fail, FinishBackfill, GiveUp, Shutdown, Halt, OnTop, Down
<1>3. CASE ResumeHeight
  <2>1. /\ UNCHANGED <<rows, following>> /\ pc' = "head"
        /\ next' = IF Cursor(rows) = None THEN StartHeight ELSE SatAdd(Cursor(rows), 1)
    BY <1>3 DEF ResumeHeight, database
  <2>2. ASSUME NEW h \in Height, rows[h] # None
        PROVE  h < next'
    <3>1. /\ IsTop(rows, Top(rows)) /\ Top(rows) \in Height /\ h <= Top(rows)
      BY <1>0, <2>2, TopBounds
    <3>2. Cursor(rows) = Top(rows)
      BY <1>0, <3>1, TopUnique
    <3>3. Top(rows) <= Top(canon) /\ Top(rows) \in Nat
      BY <1>0, <3>1 DEF Seen, IsTop
    <3>4. next' = SatAdd(Top(rows), 1)
      BY <1>0, <2>1, <3>1, <3>2
    <3>5. next' = Top(rows) + 1
      BY <1>0, <3>3, <3>4 DEF SatAdd
    <3> QED
      BY <1>0, <3>1, <3>3, <3>5
  <2> QED
    BY <2>1, <2>2 DEF OnTop
<1>4. CASE FetchFromPortal
  <2>1. /\ UNCHANGED <<rows, next, following>> /\ pc = "loop" /\ pc' = "check"
    BY <1>4 DEF FetchFromPortal, database, locals
  <2>2. Number[batch'[1]] = next
    <3>1. 1 \in 1..Len(batch') /\ next + 1 - 1 = next
      BY <1>0, <1>4, Fetched
    <3> QED
      BY <1>4, <3>1, Fetched
  <2>3. \A h \in Height : rows[h] # None => h < next /\ h <= next
    BY <1>0, <2>1 DEF OnTop
  <2> QED
    BY <2>1, <2>2, <2>3 DEF OnTop
<1>5. ASSUME NEW i \in 1..BatchSize, AnswerHeight(i)
      PROVE  OnTop'
  <2>1. /\ UNCHANGED <<rows, next, following>> /\ pc = "fetch"
        /\ pc' \in {"fetch", "check"}
    BY <1>5 DEF AnswerHeight, database, locals
  <2>2. pc' = "check" => Number[batch'[1]] = next
    <3>1. 1 \in 1..Len(batch) /\ next + 1 - 1 = next
      BY <1>0, <1>5, Answered
    <3> QED
      BY <1>5, <3>1, Answered
  <2>3. \A h \in Height : rows[h] # None => h < next /\ h <= next
    BY <1>0, <2>1 DEF OnTop
  <2> QED
    BY <2>1, <2>2, <2>3 DEF OnTop
<1>6. CASE Rewind
  <2>1. /\ pc = "walk" /\ rows' = RollbackTo(rows, walk.height)
        /\ next' = IF following THEN 0 ELSE SatAdd(walk.height, 1)
        /\ pc' = IF following THEN "tip" ELSE "loop"
        /\ UNCHANGED <<sub, following>>
    BY <1>6 DEF Rewind
  <2>2. \A h \in Height : rows'[h] # None =>
          h <= walk.height /\ h <= Top(canon) /\ rows[h] # None
    BY <1>0, <2>1 DEF RollbackTo, Seen
  <2>3. CASE following
    <3>1. pc' = "tip" /\ sub = Number[batch[1]] + 1 /\ Number[batch[1]] \in Nat
      BY <1>0, <2>1, <2>3, Basics DEF Modes
    <3>2. \A h \in Height : rows'[h] # None => h <= sub
      BY <1>0, <2>1, <2>2, <3>1 DEF OnTop
    <3> QED
      BY <2>1, <3>1, <3>2 DEF OnTop
  <2>4. CASE ~following
    <3>1. \A h \in Height : rows'[h] # None => h < next'
      BY <1>0, <2>1, <2>2, <2>4 DEF SatAdd
    <3> QED
      BY <2>1, <2>4, <3>1 DEF OnTop
  <2> QED
    BY <2>3, <2>4
<1>7. CASE Commit
  <2> DEFINE n == Number[batch[Len(batch)]]
  <2>1. /\ n \in Nat /\ n < MaxHeight
        /\ \A h \in Height : rows'[h] # None => h <= n
        /\ following => n + 1 = sub
    <3>1. /\ n \in Height /\ n < MaxHeight /\ IsTop(rows', n)
          /\ following => n + 1 = sub
      BY <1>7, Committed
    <3>2. \A h \in Height : rows'[h] # None => h <= n
      BY <1>0, <3>1 DEF IsTop
    <3> QED
      BY <1>0, <3>1, <3>2
  <2>2. /\ next' = IF following THEN 0 ELSE SatAdd(n, 1)
        /\ pc' = IF following THEN "tip" ELSE "loop"
        /\ UNCHANGED <<sub, following>>
    BY <1>7 DEF Commit
  <2> HIDE DEF n
  <2>3. ~following => \A h \in Height : rows'[h] # None => h < next'
    BY <1>0, <2>1, <2>2 DEF SatAdd
  <2>4. following => \A h \in Height : rows'[h] # None => h <= sub
    BY <1>0, <2>1
  <2> QED
    BY <2>2, <2>3, <2>4 DEF OnTop
<1>8. CASE Deliver
  <2>1. /\ batch' = <<canon[sub]>> /\ sub \in Height /\ canon[sub] # None
        /\ pc = "tip" /\ pc' = "check" /\ UNCHANGED <<rows, following>>
        /\ following
    BY <1>8 DEF Deliver, Modes, TypeInv, TypeOK, database
  <2>2. Number[canon[sub]] = sub /\ sub # None
    BY <1>0, <2>1, ChainLinks
  <2> QED
    BY <2>1, <2>2 DEF OnTop
<1>9. CASE Subscribe
  BY <1>9 DEF Subscribe, OnTop, Seen, database
<1>10. CASE Restart \/ StreamError \/ ReadHead \/ PortalEmpty \/ LoopDone
  BY <1>10 DEF Restart, StreamError, ReadHead, PortalEmpty, LoopDone, OnTop,
               database, locals
<1>11. CASE RequestSpan
  BY <1>11 DEF RequestSpan, OnTop, database, locals
<1>12. CASE CompleteBackfill
  BY <1>12 DEF CompleteBackfill, OnTop, Modes, database
<1>13. CASE DetectReorg \/ AcceptBatch \/ WalkDown \/ WriteHandler \/ RecordBlock
  <2>1. /\ UNCHANGED <<rows, batch, following, next>> /\ pc \in Busy /\ pc' \in Busy
    BY <1>13 DEF DetectReorg, AcceptBatch, WalkDown, WriteHandler, RecordBlock,
                 database, locals
  <2> QED
    BY <2>1 DEF OnTop
<1>14. CASE UNCHANGED vars
  BY <1>14 DEF vars, OnTop
<1> QED
  BY <1>1, <1>2, <1>3, <1>4, <1>5, <1>6, <1>7, <1>8, <1>9, <1>10, <1>11, <1>12,
     <1>13, <1>14
     DEF Next, Backfill, Process, Follow
LEMMA TxTopStep ==
  ASSUME FollowInv, [Next]_vars
  PROVE  TxTop'
<1> USE DEF FollowInv
<1>0. /\ Height \subseteq Nat /\ rows \in Tables /\ tx.rows \in Tables
      /\ tx.recorded \in Nat /\ Len(batch) \in Nat
  BY Basics
<1>1. CASE AcceptBatch
  BY <1>0, <1>1 DEF AcceptBatch, NoTx, TxTop, database
<1>2. CASE WriteHandler
  <2>1. /\ tx'.rows = tx.rows /\ tx'.recorded = tx.recorded
        /\ UNCHANGED <<rows, batch, pc>>
    BY <1>2 DEF WriteHandler, TypeInv, TypeOK, database
  <2> QED
    BY <2>1 DEF TxTop
<1>3. CASE RecordBlock
  <2> DEFINE r == tx.recorded
             b == batch[r + 1]
  <2>1. /\ pc = "tx" /\ r < Len(batch)
        /\ tx' = [tx EXCEPT !.recorded = r + 1, !.rows = SetCursor(tx.rows, b)]
        /\ UNCHANGED <<rows, batch, pc>>
    BY <1>3 DEF RecordBlock, database
  <2>2. tx'.rows = SetCursor(tx.rows, b) /\ tx'.recorded = r + 1
    BY <2>1 DEF TypeInv, TypeOK
  <2>3. r + 1 \in 1..Len(batch)
    BY <1>0, <2>1
  <2>4. b \in Hash /\ Number[b] \in Height /\ Number[b] \in Nat /\ b # None
    BY <1>0, <2>1, <2>3, Basics DEF Busy
  <2>5. \A h \in Height : h > Number[b] => tx.rows[h] = None
    <3>1. CASE r = 0
      <4>1. tx.rows = rows /\ b = batch[1]
        BY <2>1, <3>1 DEF TxTop
      <4>2. \A h \in Height : rows[h] # None => h <= Number[b]
        BY <2>1, <4>1 DEF OnTop, Busy
      <4>3. \A h \in Height : h > Number[b] => ~(h <= Number[b])
        BY <2>4, BlocksAssumption DEF Height
      <4> QED
        BY <4>1, <4>2, <4>3
    <3>2. CASE r > 0
      <4>1. IsTop(tx.rows, Number[batch[r]])
        BY <2>1, <3>2 DEF TxTop
      <4>2. r \in 1..Len(batch) /\ 1 \in 1..Len(batch)
        BY <1>0, <2>1, <3>2
      <4>3. /\ Number[batch[r]] = Number[batch[1]] + r - 1
            /\ Number[b] = Number[batch[1]] + (r + 1) - 1
        BY <2>1, <2>3, <4>2 DEF BatchPlaced
      <4>4. Number[batch[1]] \in Nat
        BY <1>0, <2>1, <4>2, Basics DEF Busy
      <4>5. Number[batch[r]] < Number[b] /\ Number[batch[r]] \in Nat
        <5>1. r \in Nat /\ r > 0
          BY <1>0, <3>2
        <5> HIDE DEF r, b
        <5> QED
          BY <4>3, <4>4, <5>1
      <4> HIDE DEF r, b
      <4>6. \A h \in Height : h > Number[b] => h > Number[batch[r]]
        BY <2>4, <4>5, BlocksAssumption DEF Height
      <4> QED
        BY <4>1, <4>6 DEF IsTop
    <3>3. r \in Nat
      BY <1>0
    <3> HIDE DEF r, b
    <3> QED
      BY <3>1, <3>2, <3>3
  <2>6. SetCursor(tx.rows, b)[Number[b]] = b
    BY <1>0, <2>4, SetCursorHolds
  <2>7. \A h \in Height : h > Number[b] => SetCursor(tx.rows, b)[h] = None
    BY <1>0, <2>4, <2>5, SetCursorRow
  <2>8. IsTop(tx'.rows, Number[b]) /\ tx'.rows[Number[b]] = b
    BY <2>2, <2>4, <2>6, <2>7 DEF IsTop
  <2>9. r + 1 = 1 => tx.rows = rows /\ b = batch[1]
    <3>1. r + 1 = 1 => r = 0
      BY <1>0
    <3> QED
      BY <2>1, <3>1 DEF TxTop
  <2>10. r + 1 # 0 /\ r + 1 > 0 /\ r + 1 <= Len(batch)
    BY <1>0, <2>1
  <2> HIDE DEF b
  <2>11. b = batch[tx'.recorded]
    BY <2>2 DEF b
  <2> HIDE DEF r
  <2> QED
    BY <2>1, <2>2, <2>8, <2>9, <2>10, <2>11 DEF TxTop
<1>4. CASE Finalize \/ Reorg \/ UNCHANGED vars
  <2>1. UNCHANGED <<rows, batch, pc, tx>>
    BY <1>4 DEF Finalize, Reorg, vars, database
  <2> QED
    BY <2>1 DEF TxTop
<1>5. CASE Fail \/ FinishBackfill \/ GiveUp \/ Shutdown
  BY <1>5 DEF Fail, FinishBackfill, GiveUp, Shutdown, Halt, TxTop
<1>6. CASE Restart \/ StreamError \/ ResumeHeight \/ ReadHead \/ FetchFromPortal
  BY <1>6 DEF Restart, StreamError, ResumeHeight, ReadHead, FetchFromPortal, TxTop
<1>7. CASE PortalEmpty \/ RequestSpan \/ LoopDone \/ CompleteBackfill
  BY <1>7 DEF PortalEmpty, RequestSpan, LoopDone, CompleteBackfill, TxTop
<1>8. CASE \E i \in 1..BatchSize : AnswerHeight(i)
  BY <1>8 DEF AnswerHeight, TxTop
<1>9. CASE DetectReorg \/ WalkDown \/ Rewind
  BY <1>9 DEF DetectReorg, WalkDown, Rewind, TxTop
<1>10. CASE Commit \/ Subscribe \/ Deliver
  BY <1>10 DEF Commit, Subscribe, Deliver, TxTop
<1> QED
  BY <1>1, <1>2, <1>3, <1>4, <1>5, <1>6, <1>7, <1>8, <1>9, <1>10
     DEF Next, Backfill, Process, Follow

LEMMA CheckedStep ==
  ASSUME FollowInv, [Next]_vars
  PROVE  Checked'
<1> USE DEF FollowInv
<1>1. CASE DetectReorg \/ AcceptBatch
  BY <1>1 DEF DetectReorg, AcceptBatch, Checked, Diverged, HashAt, database
<1>2. CASE WalkDown \/ WriteHandler \/ RecordBlock
  BY <1>2 DEF WalkDown, WriteHandler, RecordBlock, Checked, Diverged, HashAt, database
<1>3. CASE Finalize \/ Reorg \/ UNCHANGED vars
  BY <1>3 DEF Finalize, Reorg, vars, Checked, Diverged, HashAt, database
<1>4. CASE Fail \/ FinishBackfill \/ GiveUp \/ Shutdown
  BY <1>4 DEF Fail, FinishBackfill, GiveUp, Shutdown, Halt, Checked, Down
<1>5. CASE Restart \/ StreamError \/ ResumeHeight \/ ReadHead \/ FetchFromPortal
  BY <1>5 DEF Restart, StreamError, ResumeHeight, ReadHead, FetchFromPortal, Checked
<1>6. CASE PortalEmpty \/ RequestSpan \/ LoopDone \/ CompleteBackfill
  BY <1>6 DEF PortalEmpty, RequestSpan, LoopDone, CompleteBackfill, Checked
<1>7. CASE \E i \in 1..BatchSize : AnswerHeight(i)
  BY <1>7 DEF AnswerHeight, Checked
<1>8. CASE Rewind \/ Commit \/ Subscribe \/ Deliver
  BY <1>8 DEF Rewind, Commit, Subscribe, Deliver, Checked
<1> QED
  BY <1>1, <1>2, <1>3, <1>4, <1>5, <1>6, <1>7, <1>8
     DEF Next, Backfill, Process, Follow

LEMMA GaugesStep ==
  ASSUME FollowInv, [Next]_vars
  PROVE  GaugesInv'
<1> USE DEF FollowInv
<1>0. /\ Height \subseteq Nat /\ rows \in Tables /\ None \notin Height
      /\ gauges \in Gauges /\ hiwater \in Height \cup {None}
      /\ gauges.cursor \in Nat /\ gauges.head \in Nat
  BY Basics DEF TypeInv, TypeOK, Gauges
<1> DEFINE Good(g, t, w) ==
             /\ g.lag = SatSub(g.head, g.cursor)
             /\ g.cursor # 0 =>
                  /\ g.cursor <= w
                  /\ ~IsEmpty(t) => Top(t) <= g.cursor
<1>a. GaugesMatchTable <=> (pc \in Running => Good(gauges, rows, hiwater))
  BY DEF GaugesMatchTable
<1>b. GaugesMatchTable' <=> (pc' \in Running => Good(gauges', rows', hiwater'))
  BY DEF GaugesMatchTable
<1>c. Running \cap Down = {} /\ pc \in Running \cup Down
  BY DEF Running, Down, TypeInv, TypeOK
<1>d. Good(NoGauges, rows, hiwater)
  BY DEF NoGauges, SatSub
<1>e. ASSUME NEW h \in Height, Good(gauges, rows, hiwater)
      PROVE  Good(OnHead(gauges, h), rows, hiwater)
  <2>1. /\ OnHead(gauges, h).cursor = gauges.cursor
        /\ OnHead(gauges, h).head = h
        /\ OnHead(gauges, h).lag = SatSub(h, gauges.cursor)
    BY <1>0 DEF OnHead, PublishLag, Gauges
  <2> QED
    BY <1>e, <2>1
<1> HIDE DEF Good
<1>1. CASE Fail \/ FinishBackfill \/ GiveUp \/ Shutdown
  <2>1. pc' \in Down /\ gauges' = NoGauges
    BY <1>1 DEF Fail, FinishBackfill, GiveUp, Shutdown, Halt, Down
  <2> QED
    BY <1>c, <2>1 DEF GaugesInv, GaugesMatchTable
<1>2. CASE Restart
  <2>1. pc \in Down /\ gauges = NoGauges /\ pc' = "resume"
        /\ UNCHANGED <<gauges, rows, hiwater>>
    BY <1>2 DEF Restart, GaugesInv, database, locals, history
  <2> QED
    BY <1>b, <1>c, <1>d, <2>1 DEF GaugesInv, Down
<1>3. CASE ReadHead \/ Deliver
  <2>1. PICK h \in Height : gauges' = OnHead(gauges, h)
    <3>1. ASSUME ReadHead
          PROVE  gauges' = OnHead(gauges, head') /\ head' \in Height
      <4>1. head' \in 0..Top(canon)
        BY <1>0, <3>1, Basics DEF ReadHead, FinalizedHeads
      <4>2. Top(canon) \in Nat /\ Top(canon) < MaxHeight /\ MaxHeight \in Nat
        BY Basics
      <4> QED
        BY <3>1, <4>1, <4>2 DEF ReadHead, Height
    <3>2. ASSUME Deliver
          PROVE  gauges' = OnHead(gauges, sub) /\ sub \in Height
      BY <3>2 DEF Deliver, TypeInv, TypeOK
    <3> QED
      BY <1>3, <3>1, <3>2
  <2>2. UNCHANGED <<rows, hiwater>> /\ pc \in Running /\ pc' \in Running
    BY <1>3 DEF ReadHead, Deliver, Running, database, history
  <2>3. Good(gauges, rows, hiwater)
    BY <1>a, <2>2 DEF GaugesInv
  <2>4. Good(OnHead(gauges, h), rows, hiwater)
    BY <1>e, <2>3
  <2>5. Good(gauges', rows', hiwater')
    BY <2>1, <2>2, <2>4
  <2> QED
    BY <1>b, <1>c, <2>2, <2>5 DEF GaugesInv
<1>4. CASE Rewind
  <2>1. /\ pc \in Running /\ pc' \in Running /\ UNCHANGED <<gauges, hiwater>>
        /\ rows' = RollbackTo(rows, walk.height)
    BY <1>4 DEF Rewind, OnReorg, Running, history
  <2>2. ASSUME ~IsEmpty(rows')
        PROVE  /\ ~IsEmpty(rows) /\ Top(rows') <= Top(rows)
               /\ Top(rows) \in Nat /\ Top(rows') \in Nat
    <3>1. rows' \in Tables
      BY <1>0, <2>1, RollbackType
    <3>2. Top(rows') \in Height /\ rows'[Top(rows')] # None
      BY <2>2, <3>1, TopExists DEF IsTop
    <3>3. rows[Top(rows')] # None
      BY <2>1, <3>2 DEF RollbackTo
    <3> QED
      BY <1>0, <3>2, <3>3, TopBounds
  <2>3. Good(gauges, rows', hiwater)
    BY <1>0, <1>a, <2>1, <2>2 DEF Good, GaugesInv
  <2> QED
    BY <1>b, <1>c, <2>1, <2>3 DEF GaugesInv
<1>5. CASE Commit
  <2> DEFINE n == Number[batch[Len(batch)]]
  <2>1. n \in Height /\ IsTop(rows', n) /\ rows' = tx.rows /\ rows' \in Tables
    BY <1>5, Committed
  <2>2. Top(rows') = n /\ Cursor(tx.rows) = n
    BY <2>1, TopUnique
  <2>3. /\ gauges' = OnBatchCommitted(gauges, n)
        /\ hiwater' = IF hiwater = None \/ hiwater < Cursor(tx.rows)
                      THEN Cursor(tx.rows) ELSE hiwater
        /\ pc' \in Running
    BY <1>5 DEF Commit, Running
  <2> HIDE DEF n
  <2>4. gauges'.cursor = n /\ gauges'.lag = SatSub(gauges'.head, n)
    BY <1>0, <2>1, <2>3 DEF OnBatchCommitted, PublishLag, Gauges
  <2>5. n <= hiwater'
    BY <1>0, <2>1, <2>2, <2>3
  <2>6. n <= n
    BY <1>0, <2>1
  <2>7. Good(gauges', rows', hiwater')
    BY <2>2, <2>4, <2>5, <2>6 DEF Good
  <2> QED
    BY <1>b, <1>c, <2>3, <2>7 DEF GaugesInv
<1>6. CASE /\ UNCHANGED <<gauges, rows, hiwater>>
           /\ (pc \in Running /\ pc' \in Running) \/ pc' = pc
  BY <1>6, <1>a, <1>b, <1>c DEF GaugesInv
<1>7. CASE Finalize \/ Reorg \/ UNCHANGED vars
  BY <1>6, <1>7 DEF Finalize, Reorg, vars, database, locals, history
<1>8. CASE StreamError \/ ResumeHeight \/ FetchFromPortal \/ PortalEmpty \/ RequestSpan
  BY <1>6, <1>8 DEF StreamError, ResumeHeight, FetchFromPortal, PortalEmpty,
                    RequestSpan, Running, database, locals, history
<1>9. CASE (\E i \in 1..BatchSize : AnswerHeight(i)) \/ LoopDone \/ CompleteBackfill
  BY <1>6, <1>9 DEF AnswerHeight, LoopDone, CompleteBackfill, Running, database,
                    locals, history
<1>10. CASE DetectReorg \/ AcceptBatch \/ WalkDown \/ WriteHandler \/ RecordBlock
  BY <1>6, <1>10 DEF DetectReorg, AcceptBatch, WalkDown, WriteHandler, RecordBlock,
                     Running, database, locals, history
<1>11. CASE Subscribe
  BY <1>6, <1>11 DEF Subscribe, database, locals, history
<1> QED
  BY <1>1, <1>2, <1>3, <1>4, <1>5, <1>7, <1>8, <1>9, <1>10, <1>11
     DEF Next, Backfill, Process, Follow
LEMMA CanonicalStep ==
  ASSUME FollowInv, [Next]_vars
  PROVE  Canonical'
<1> USE DEF FollowInv
<1>0. /\ Height \subseteq Nat /\ canon \in Chains /\ next \in Nat
      /\ Top(canon) \in Nat /\ Top(canon) < MaxHeight /\ rows \in Tables
      /\ walk.height \in Height /\ None \notin Height /\ MaxHeight \in Nat
      /\ Height = 0..MaxHeight
  BY Basics DEF Height
<1>1. CASE Finalize
  <2>1. /\ UNCHANGED <<rows, batch, pc, walk, steady>>
        /\ \A h \in 0..Top(canon) : canon'[h] = canon[h]
    BY <1>1 DEF Finalize, ExtendsByOne, database, locals, history
  <2>2. \A i \in 1..Len(batch) : batch[i] # None =>
          canon'[Number[batch[i]]] = canon[Number[batch[i]]]
    <3> SUFFICES ASSUME NEW i \in 1..Len(batch), batch[i] # None
                 PROVE  Number[batch[i]] \in 0..Top(canon)
      BY <2>1
    <3>1. Number[batch[i]] <= Top(canon)
      BY DEF Seen
    <3>2. Number[batch[i]] \in Height
      BY Basics
    <3> QED
      BY <1>0, <3>1, <3>2
  <2>3. ASSUME steady, pc = "walk"
        PROVE  \A h \in Height : h < Number[batch[1]] => canon'[h] = canon[h]
    <3> SUFFICES ASSUME NEW h \in Height, h < Number[batch[1]]
                 PROVE  h \in 0..Top(canon)
      BY <2>1
    <3>1. 1 \in 1..Len(batch) /\ batch[1] # None /\ Number[batch[1]] \in Nat
      BY <1>0, <2>3, Basics DEF Busy
    <3>2. Number[batch[1]] <= Top(canon)
      BY <3>1 DEF Seen
    <3> QED
      BY <1>0, <3>1, <3>2
  <2> QED
    BY <1>0, <2>1, <2>2, <2>3 DEF Canonical
<1>2. CASE FetchFromPortal
  <2>1. \A i \in 1..Len(batch') : canon[Number[batch'[i]]] = batch'[i]
    BY <1>2, Fetched
  <2> QED
    BY <1>2, <2>1 DEF FetchFromPortal, Canonical, node
<1>3. CASE RequestSpan
  <2>1. \A i \in 1..Len(batch') : batch'[i] = None
    <3>1. Asked \in Nat \ {0} /\ batch' = [i \in 1..Asked |-> None]
      BY <1>3, AskedFacts DEF RequestSpan
    <3> QED
      BY <3>1
  <2> QED
    BY <1>3, <2>1 DEF RequestSpan, Canonical
<1>4. ASSUME NEW i \in 1..BatchSize, AnswerHeight(i)
      PROVE  Canonical'
  <2>1. /\ Len(batch') = Len(batch) /\ next + i - 1 \in Height /\ pc = "fetch"
        /\ batch'[i] = canon[next + i - 1] /\ batch'[i] # None
        /\ i \in 1..Len(batch) /\ Number[batch'[i]] = next + i - 1
        /\ \A j \in 1..Len(batch) : j # i => batch'[j] = batch[j]
    BY <1>4, Answered
  <2>2. UNCHANGED <<canon, steady>> /\ pc' \in {"fetch", "check"}
    BY <1>4 DEF AnswerHeight, node, history
  <2> QED
    BY <2>1, <2>2 DEF Canonical, Busy
<1>5. CASE DetectReorg
  <2>1. /\ pc = "check" /\ pc' = "walk" /\ UNCHANGED <<canon, rows, batch, steady>>
        /\ walk' = [height |-> Number[batch[1]] - 1, hash |-> Parent[batch[1]]]
        /\ Number[batch[1]] > 0
    BY <1>5 DEF DetectReorg, Diverged, node, database, history
  <2>2. 1 \in 1..Len(batch) /\ batch[1] # None /\ Number[batch[1]] \in Height
    BY <2>1, Basics DEF Busy
  <2> DEFINE n == Number[batch[1]]
  <2>3. n \in Nat /\ n \in Height /\ n - 1 \in Height /\ n > 0
    BY <1>0, <2>1, <2>2
  <2>4. steady => canon[n] = batch[1] /\ canon[n - 1] # None
    <3> SUFFICES ASSUME steady
                 PROVE  canon[n] = batch[1] /\ canon[n - 1] # None
      OBVIOUS
    <3>1. canon[n] = batch[1]
      BY <2>1, <2>2 DEF Canonical, Busy
    <3>2. n <= Top(canon)
      BY <2>2 DEF Seen
    <3> HIDE DEF n
    <3>3. n - 1 <= Top(canon)
      BY <1>0, <2>3, <3>2
    <3> QED
      BY <1>0, <2>3, <3>1, <3>3, ChainHolds
  <2>5. steady => Parent[batch[1]] = canon[n - 1]
    <3> HIDE DEF n
    <3> QED
      BY <1>0, <2>2, <2>3, <2>4, ChainLinks
  <2>6. \A h \in Height : ~ (h > n - 1 /\ h < n)
    <3> HIDE DEF n
    <3> QED
      BY <1>0, <2>3
  <2>7. n - 1 < n
    BY <2>3
  <2> QED
    BY <2>1, <2>5, <2>6, <2>7 DEF Canonical, Busy
<1>6. CASE WalkDown
  <2>1. /\ pc = "walk" /\ UNCHANGED <<canon, rows, batch, steady, pc>>
        /\ walk' = [height |-> walk.height - 1, hash |-> canon[walk.height - 1]]
        /\ rows[walk.height] # walk.hash /\ walk.height # 0
    BY <1>6 DEF WalkDown, AtFork, HashAt, node, database, history
  <2>2. /\ walk'.height = walk.height - 1 /\ walk'.hash = canon[walk.height - 1]
    BY <2>1
  <2>3. steady => rows[walk.height] # canon[walk.height]
    BY <2>1 DEF Canonical
  <2>4. /\ walk.height \in Nat /\ walk.height > 0
        /\ Number[batch[1]] \in Nat
    BY <1>0, <2>1, Basics DEF Busy
  <2>5. ASSUME steady
        PROVE  /\ walk.height - 1 < Number[batch[1]]
               /\ \A h \in Height :
                    h > walk.height - 1 /\ h < Number[batch[1]] /\ rows[h] # None =>
                      rows[h] # canon[h]
    <3>1. walk.height < Number[batch[1]]
      BY <2>1, <2>5 DEF Canonical
    <3>2. \A h \in Height : h > walk.height - 1 => h = walk.height \/ h > walk.height
      BY <1>0, <2>4
    <3> QED
      BY <2>1, <2>3, <2>4, <2>5, <3>1, <3>2 DEF Canonical
  <2> QED
    BY <2>1, <2>2, <2>5 DEF Canonical, Busy
<1>7. CASE AcceptBatch \/ WriteHandler \/ RecordBlock
  BY <1>7 DEF AcceptBatch, WriteHandler, RecordBlock, Canonical, Busy, node, history
<1>8. CASE Deliver
  <2>1. /\ batch' = <<canon[sub]>> /\ sub \in Height /\ canon[sub] # None
        /\ pc' = "check" /\ canon' = canon
    BY <1>8 DEF Deliver, TypeInv, TypeOK, node
  <2>2. Number[canon[sub]] = sub
    BY <1>0, <2>1, ChainLinks
  <2> QED
    BY <2>1, <2>2 DEF Canonical
<1>9. CASE Reorg \/ Fail \/ FinishBackfill \/ GiveUp \/ Shutdown
  BY <1>9 DEF Reorg, Fail, FinishBackfill, GiveUp, Shutdown, Halt, Canonical
<1>10. CASE Restart \/ StreamError \/ ResumeHeight \/ ReadHead \/ PortalEmpty
  BY <1>10 DEF Restart, StreamError, ResumeHeight, ReadHead, PortalEmpty, Canonical,
               Busy
<1>11. CASE LoopDone \/ CompleteBackfill \/ Rewind \/ Commit \/ Subscribe
  BY <1>11 DEF LoopDone, CompleteBackfill, Rewind, Commit, Subscribe, Canonical, Busy
<1>12. CASE UNCHANGED vars
  BY <1>12 DEF vars, Canonical
<1> QED
  BY <1>1, <1>2, <1>3, <1>4, <1>5, <1>6, <1>7, <1>8, <1>9, <1>10, <1>11, <1>12
     DEF Next, Backfill, Process, Follow

LEMMA InitFollow == Init => FollowInv
<1> SUFFICES ASSUME Init PROVE FollowInv
  OBVIOUS
<1>1. TypeInv /\ BatchPlaced
  BY InitType, InitEnt DEF EntInv
<1>2. \A h \in Height : rows[h] = None
  BY DEF Init, EmptyTable
<1>3. Seen
  BY <1>2 DEF Init, Seen
<1>4. Modes /\ OnTop /\ TxTop /\ Checked /\ Canonical
  BY DEF Init, Modes, OnTop, TxTop, Checked, Canonical, Busy, Down
<1>5. GaugesInv
  BY DEF Init, GaugesInv, GaugesMatchTable, NoGauges, SatSub, Down
<1> QED
  BY <1>1, <1>3, <1>4, <1>5 DEF FollowInv

LEMMA FollowStep ==
  ASSUME GoesForward, FollowInv, EntInv, [Next]_vars
  PROVE  FollowInv' /\ EntInv'
<1>1. TypeInv' /\ EntInv'
  BY TypeStep, EntStep DEF FollowInv
<1>2. Seen' /\ Modes' /\ OnTop' /\ TxTop'
  BY SeenStep, ModesStep, OnTopStep, TxTopStep
<1>3. Checked' /\ GaugesInv' /\ Canonical'
  BY CheckedStep, GaugesStep, CanonicalStep
<1> QED
  BY <1>1, <1>2, <1>3 DEF FollowInv, EntInv

-----------------------------------------------------------------------------

\* One block on top, whose stored parent was compared, leaves linked rows linked.
LEMMA LinksOnTop ==
  ASSUME FollowInv, Commit, following, RowsLinked
  PROVE  RowsLinked'
<1> DEFINE b == batch[1]
           n == Number[b]
<1>1. /\ pc = "tx" /\ rows' = tx.rows /\ tx.recorded = Len(batch)
      /\ Len(batch) = 1
  BY DEF Commit, FollowInv, Modes, Busy
<1>2. rows' = SetCursor(rows, b)
  BY <1>1 DEF FollowInv, TxTop
<1>3. /\ b \in Hash /\ n \in Height /\ rows \in Tables /\ Height \subseteq Nat
      /\ None \notin Hash /\ n \in Nat /\ Height = 0..MaxHeight /\ MaxHeight \in Nat
  BY <1>1, Basics, BlocksAssumption DEF FollowInv, Busy, Height
<1>4. \A h \in Height : rows[h] # None => h <= n
  BY <1>1 DEF FollowInv, OnTop, Busy
<1>5. n > 0 /\ rows[n - 1] # None => rows[n - 1] = Parent[b]
  BY <1>1 DEF FollowInv, Checked, Diverged, HashAt
<1>6. \A h \in Height : \/ rows'[h] = None
                        \/ h = n /\ rows'[h] = b
                        \/ h < n /\ rows'[h] = rows[h]
  <2> SUFFICES ASSUME NEW h \in Height, rows'[h] # None
               PROVE  (h = n /\ rows'[h] = b) \/ (h < n /\ rows'[h] = rows[h])
    OBVIOUS
  <2>0. n = Number[b]
    OBVIOUS
  <2>2. rows[h] # None => h <= n
    BY <1>4
  <2>3. h \in Nat
    BY <1>3
  <2> HIDE DEF n, b
  <2>1. (h = n /\ rows'[h] = b) \/ (h # n /\ rows'[h] = rows[h])
    BY <1>2, <1>3, <2>0, SetCursorRow
  <2> QED
    BY <1>3, <2>1, <2>2, <2>3
<1>7. InPlace(rows) /\ Linked(rows)
  BY DEF RowsLinked
<1>8. InPlace(rows')
  BY <1>6, <1>7 DEF InPlace
<1>9. Linked(rows')
  <2> SUFFICES ASSUME NEW h \in Height, h > 0, rows'[h] # None, rows'[h-1] # None
               PROVE  Parent[rows'[h]] = rows'[h-1]
    BY DEF Linked
  <2>1. h - 1 \in Height /\ h \in Nat
    BY <1>3
  <2>2. CASE h = n
    <3>1. rows'[h] = b
      <4> HIDE DEF n, b
      <4> QED
        BY <1>3, <1>6, <2>2
    <3>2. rows'[h-1] = rows[h-1]
      <4>1. h - 1 # n
        BY <2>1, <2>2
      <4> HIDE DEF n, b
      <4> QED
        BY <1>6, <2>1, <4>1
    <3>3. rows[n - 1] # None /\ n > 0 /\ rows[n - 1] = rows'[h - 1]
      BY <2>2, <3>2
    <3> QED
      BY <1>5, <3>1, <3>3
  <2>3. CASE h # n
    <3> HIDE DEF n, b
    <3>1. h < n /\ rows'[h] = rows[h]
      BY <1>6, <2>3
    <3>2. h - 1 # n
      BY <1>3, <2>1, <3>1
    <3>3. rows'[h-1] = rows[h-1]
      BY <1>6, <2>1, <3>2
    <3> QED
      BY <1>7, <3>1, <3>3 DEF Linked
  <2> QED
    BY <2>2, <2>3
<1> QED
  BY <1>8, <1>9 DEF RowsLinked

\* What the rewind cuts is off the chain: the walk passed it, or it is the block at
\* the arriving one's height, on top of a parent that is not the arriving one's.
LEMMA CutsOrphans ==
  ASSUME FollowInv, Rewind, steady, RowsLinked,
         NEW h \in Height, rows[h] # None, rows'[h] = None
  PROVE  rows[h] # canon[h]
<1> DEFINE b == batch[1]
           n == Number[b]
<1>1. pc = "walk" /\ rows' = RollbackTo(rows, walk.height)
  BY DEF Rewind
<1>2. h > walk.height
  BY <1>1 DEF RollbackTo
<1>3. /\ b \in Hash /\ b # None /\ n \in Nat /\ h \in Nat /\ n \in Height
      /\ 1 \in 1..Len(batch)
  BY <1>1, Basics DEF FollowInv, Busy
<1>4. h <= n
  BY <1>1 DEF FollowInv, OnTop, Busy
<1>5. CASE h < n
  BY <1>1, <1>2, <1>5 DEF FollowInv, Canonical
<1>6. CASE h = n
  <2>1. n > 0 /\ rows[n - 1] # None /\ rows[n - 1] # Parent[b]
    BY <1>1 DEF FollowInv, Checked, Diverged, HashAt
  <2>2. Parent[rows[h]] = rows[h - 1]
    BY <1>6, <2>1 DEF RowsLinked, Linked
  <2>3. rows[h - 1] = rows[n - 1]
    BY <1>6
  <2>4. rows[h] # b
    BY <2>1, <2>2, <2>3
  <2>5. canon[n] = b
    BY <1>1, <1>3 DEF FollowInv, Canonical, Busy
  <2> QED
    BY <1>6, <2>4, <2>5
<1> HIDE DEF n, b
<1> QED
  BY <1>3, <1>4, <1>5, <1>6

-----------------------------------------------------------------------------

\* The gauges an operator watches never show less than a restart would resume from,
\* nor more than was ever committed, from any source and in either phase.
THEOREM GaugesAgree == GoesForward => (Spec => []GaugesMatchTable)
<1> SUFFICES ASSUME GoesForward
             PROVE  Spec => []GaugesMatchTable
  OBVIOUS
<1>1. Init => FollowInv /\ EntInv
  BY InitFollow, InitEnt
<1>2. FollowInv /\ EntInv /\ [Next]_vars => (FollowInv /\ EntInv)'
  BY FollowStep
<1>3. FollowInv => GaugesMatchTable
  BY DEF FollowInv, GaugesInv
<1> QED
  BY <1>1, <1>2, <1>3, PTL DEF Spec

\* At the tip a commit never puts a row next to one of another fork, for a node whose
\* stream does not go back after a fork.
THEOREM LinksKept == GoesForward => (Spec => TipKeepsLinks)
<1> SUFFICES ASSUME GoesForward
             PROVE  Spec => TipKeepsLinks
  OBVIOUS
<1>1. Init => FollowInv /\ EntInv
  BY InitFollow, InitEnt
<1>2. FollowInv /\ EntInv /\ [Next]_vars => (FollowInv /\ EntInv)'
  BY FollowStep
<1>3. FollowInv /\ EntInv /\ [Next]_vars
        => [Commit /\ following /\ RowsLinked => RowsLinked']_vars
  BY LinksOnTop
<1> QED
  BY <1>1, <1>2, <1>3, PTL DEF Spec, TipKeepsLinks

\* A rewind, from either loop and over any holes in the table, drops no block that
\* is on the chain, if the node has not forked since the batch was asked for and no
\* earlier batch was fetched across a fork.
THEOREM OrphansOnly == GoesForward => (Spec => RewindDropsOrphansOnly)
<1> SUFFICES ASSUME GoesForward
             PROVE  Spec => RewindDropsOrphansOnly
  OBVIOUS
<1>1. Init => FollowInv /\ EntInv
  BY InitFollow, InitEnt
<1>2. FollowInv /\ EntInv /\ [Next]_vars => (FollowInv /\ EntInv)'
  BY FollowStep
<1>3. FollowInv /\ EntInv /\ [Next]_vars
        => [Rewind /\ steady /\ RowsLinked =>
              \A h \in Height :
                rows[h] # None /\ rows'[h] = None => rows[h] # canon[h]]_vars
  BY CutsOrphans
<1> QED
  BY <1>1, <1>2, <1>3, PTL DEF Spec, RewindDropsOrphansOnly
=============================================================================
