-------------------------- MODULE ProcessorProofs ---------------------------
(***************************************************************************)
(* The engine's invariants, proved for every value of the constants.       *)
(***************************************************************************)
EXTENDS Processor, WellFoundedInduction, TLAPS

-----------------------------------------------------------------------------
(* The tables of Blocks and the store operations of BlockTable.            *)

\* A non-empty set of naturals has a least element.
LEMMA LeastNat ==
  ASSUME NEW S \in SUBSET Nat, S # {}
  PROVE  \E x \in S : \A y \in S : x <= y
<1> DEFINE Less == OpToRel(<, Nat)
<1>1. \A x, y \in Nat : y < x => <<y, x>> \in Less
  BY DEF OpToRel
<1>2. IsWellFoundedOn(Less, Nat)
  BY NatLessThanWellFounded
<1> HIDE DEF Less
<1>3. PICK x \in S : \A y \in S : ~ (<<y, x>> \in Less)
  BY <1>2, WFMin
<1>4. \A y \in S : ~ (y < x)
  BY <1>1, <1>3
<1> QED
  BY <1>3, <1>4

\* A table with a row has a highest row.
LEMMA TopExists ==
  ASSUME NEW t \in Tables, ~IsEmpty(t)
  PROVE  IsTop(t, Top(t))
<1> DEFINE Above == {n \in Nat : n <= MaxHeight /\ t[MaxHeight - n] # None}
<1>1. MaxHeight \in Nat
  BY BlocksAssumption
<1>2. PICK h \in Height : t[h] # None
  BY DEF IsEmpty
<1>3. MaxHeight - h \in Above
  BY <1>1, <1>2 DEF Height
<1>4. PICK x \in Above : \A y \in Above : x <= y
  BY <1>3, LeastNat
<1>5. IsTop(t, MaxHeight - x)
  <2>1. MaxHeight - x \in Height /\ t[MaxHeight - x] # None
    BY <1>1, <1>4 DEF Height
  <2>2. ASSUME NEW k \in Height, k > MaxHeight - x, t[k] # None
        PROVE  FALSE
    <3>1. MaxHeight - k \in Above
      BY <1>1, <2>2 DEF Height
    <3> QED
      BY <1>1, <1>4, <2>2, <3>1 DEF Height
  <2> QED
    BY <2>1, <2>2 DEF IsTop
<1>6. \E n \in Height : IsTop(t, n)
  <2> HIDE DEF Above
  <2> QED
    BY <1>5 DEF IsTop
<1> QED
  BY <1>6 DEF Top

\* Two chains that diverge have a lowest difference.
LEMMA FirstDifferenceExists ==
  ASSUME NEW c \in Tables, NEW d \in Tables, Diverge(c, d)
  PROVE  FirstDifference(c, d) \in Height
<1> DEFINE Apart == {n \in Height : c[n] # d[n]}
<1>1. MaxHeight \in Nat
  BY BlocksAssumption
<1>2. Apart \in SUBSET Nat /\ Apart # {}
  BY <1>1 DEF Diverge, Height
<1>3. PICK x \in Apart : \A y \in Apart : x <= y
  <2> HIDE DEF Apart
  <2> QED
    BY <1>2, LeastNat
<1>4. \A k \in 0..(x-1) : c[k] = d[k]
  BY <1>1, <1>3 DEF Height
<1>5. \E h \in Height : c[h] # d[h] /\ \A k \in 0..(h-1) : c[k] = d[k]
  BY <1>3, <1>4
<1> QED
  BY <1>5 DEF FirstDifference

\* The store operations return tables, and a cursor is a height.
LEMMA CursorType ==
  ASSUME NEW t \in Tables
  PROVE  Cursor(t) \in Height \cup {None}
BY TopExists DEF Cursor, IsTop

LEMMA SetCursorType ==
  ASSUME NEW t \in Tables, NEW b \in Hash
  PROVE  SetCursor(t, b) \in Tables
BY BlocksAssumption DEF SetCursor, Prune, Tables

LEMMA RollbackType ==
  ASSUME NEW t \in Tables, NEW f
  PROVE  RollbackTo(t, f) \in Tables
BY DEF RollbackTo, Tables

LEMMA SatAddType ==
  ASSUME NEW a \in Nat, NEW b \in Nat
  PROVE  SatAdd(a, b) \in Height
BY BlocksAssumption DEF SatAdd, Height

LEMMA SatSubType ==
  ASSUME NEW a \in Height, NEW b \in Nat
  PROVE  SatSub(a, b) \in Height
BY BlocksAssumption DEF SatSub, Height

\* n is the height the next block on top of t has; any height will do for an
\* empty table.
Awaits(t, n) == IsEmpty(t) \/ (n > 0 /\ IsTop(t, n-1))

\* set_cursor keeps a segment one, for a block of the awaited height whose
\* parent is the top, if the top is held.
LEMMA SetCursorExtends ==
  ASSUME NEW t \in Tables, IsSegment(t), NEW b \in Hash, Awaits(t, Number[b]),
         Number[b] > 0 /\ t[Number[b]-1] # None => t[Number[b]-1] = Parent[b]
  PROVE  /\ IsSegment(SetCursor(t, b))
         /\ Awaits(SetCursor(t, b), Number[b] + 1)
<1> DEFINE n == Number[b]
           s == SetCursor(t, b)
<1>1. /\ MaxHeight \in Nat /\ Retention \in Nat /\ n \in Height
      /\ None \notin Hash /\ Height \subseteq Nat
  BY BlocksAssumption, RetentionAssumption DEF Height
<1>2. \A h \in Height :
        s[h] = IF Retention > 0 /\ h < SatSub(n, Retention) THEN None
                    ELSE IF h = n THEN b ELSE t[h]
  BY <1>1 DEF SetCursor, Prune, Tables
<1>3. \A h \in Height : h >= n => t[h] = None
  BY <1>1 DEF Awaits, IsEmpty, IsTop, Height
<1>4. \A h \in Height : t[h] # None => n > 0 /\ t[n-1] # None /\ n-1 \in Height
  BY <1>1 DEF Awaits, IsEmpty, IsTop
<1> HIDE DEF n, s
<1>5. s[n] = b
  <2>1. n \in Nat /\ ~ (n < SatSub(n, Retention))
    BY <1>1 DEF SatSub
  <2> QED
    BY <1>1, <1>2, <2>1
<1>6. \A h \in Height : h > n => s[h] = None
  BY <1>1, <1>2, <1>3
<1>7. \A h \in Height : h < n => s[h] \in {None, t[h]}
  <2>1. \A h \in Height : h < n => h # n
    BY <1>1
  <2> QED
    BY <1>2, <2>1
<1>8. SatSub(n, Retention) \in Int
  BY <1>1 DEF SatSub
<1>9. \A i, j \in Height : i < j /\ j < n /\ s[i] # None => s[j] = t[j]
  BY <1>1, <1>2, <1>8
<1>10. Awaits(s, n + 1)
  BY <1>1, <1>5, <1>6 DEF Awaits, IsTop
<1>11. InPlace(s)
  BY <1>1, <1>5, <1>6, <1>7 DEF n, InPlace, IsSegment, Height
<1>12. Linked(s)
  <2> SUFFICES ASSUME NEW h \in Height, h > 0, s[h] # None, s[h-1] # None
               PROVE  Parent[s[h]] = s[h-1]
    BY DEF Linked
  <2>1. h - 1 \in Height
    BY <1>1 DEF Height
  <2>2. CASE h = n
    BY <1>1, <1>5, <1>7, <2>1, <2>2 DEF n
  <2>3. CASE h < n
    BY <1>1, <1>7, <2>1, <2>3 DEF IsSegment, Linked
  <2> QED
    BY <1>1, <1>6, <2>2, <2>3
<1>13. Contiguous(s)
  <2> SUFFICES ASSUME NEW i \in Height, NEW j \in Height, NEW k \in Height,
                      i < j, j < k, s[i] # None, s[k] # None
               PROVE  s[j] # None
    BY DEF Contiguous
  <2>1. k <= n /\ i < n /\ j < n
    BY <1>1, <1>6
  <2>2. t[i] # None /\ s[j] = t[j]
    BY <1>7, <1>9, <2>1
  <2>3. n - 1 \in Height /\ t[n-1] # None
    BY <1>4, <2>2
  <2> QED
    BY <1>1, <2>1, <2>2, <2>3 DEF IsSegment, Contiguous
<1> QED
  BY <1>10, <1>11, <1>12, <1>13 DEF n, s, IsSegment

\* The row just written is held.
LEMMA SetCursorHolds ==
  ASSUME NEW t \in Tables, NEW b \in Hash
  PROVE  SetCursor(t, b)[Number[b]] = b
<1>1. Number[b] \in Height /\ Number[b] \in Nat /\ Retention \in Nat
  BY BlocksAssumption, RetentionAssumption DEF Height
<1>2. ~ (Number[b] < SatSub(Number[b], Retention))
  BY <1>1 DEF SatSub
<1> QED
  BY <1>1, <1>2 DEF SetCursor, Prune, Tables

\* rollback_to keeps a segment one.  If it cut above a row, or below all of
\* them, the next block is the one above the cut.
LEMMA RollbackKeeps ==
  ASSUME NEW t \in Tables, IsSegment(t), NEW f \in Height,
         t[f] # None \/ \E h \in Height : h > f /\ t[h] # None
  PROVE  /\ IsSegment(RollbackTo(t, f))
         /\ Awaits(RollbackTo(t, f), f + 1)
<1> DEFINE s == RollbackTo(t, f)
<1>1. MaxHeight \in Nat /\ Height \subseteq Nat
  BY BlocksAssumption DEF Height
<1>2. \A h \in Height : s[h] = IF h > f THEN None ELSE t[h]
  BY DEF RollbackTo
<1> HIDE DEF s
<1>3. InPlace(s)
  BY <1>2 DEF IsSegment, InPlace
<1>4. Linked(s)
  BY <1>1, <1>2 DEF IsSegment, Linked, Height
<1>5. Contiguous(s)
  <2> SUFFICES ASSUME NEW i \in Height, NEW j \in Height, NEW k \in Height,
                      i < j, j < k, s[i] # None, s[k] # None
               PROVE  s[j] # None
    BY DEF Contiguous
  <2>1. ~(k > f) /\ t[i] # None /\ t[k] # None
    BY <1>2
  <2>2. ~(j > f)
    BY <1>1, <2>1
  <2>3. t[j] # None
    BY <2>1 DEF IsSegment, Contiguous
  <2> QED
    BY <1>2, <2>2, <2>3
<1>6. Awaits(s, f + 1)
  <2>1. CASE t[f] # None
    BY <1>1, <1>2, <2>1 DEF Awaits, IsTop
  <2>2. CASE t[f] = None
    <3>1. PICK h \in Height : h > f /\ t[h] # None
      BY <2>2
    <3>2. \A k \in Height : k < f => t[k] = None
      BY <2>2, <3>1 DEF IsSegment, Contiguous
    <3> QED
      BY <1>1, <1>2, <2>2, <3>2 DEF Awaits, IsEmpty
  <2> QED
    BY <2>1, <2>2
<1> QED
  BY <1>3, <1>4, <1>5, <1>6 DEF s, IsSegment

\* The top of a table is the only one, and its cursor.
LEMMA TopUnique ==
  ASSUME NEW t \in Tables, NEW n, IsTop(t, n)
  PROVE  ~IsEmpty(t) /\ Top(t) = n /\ Cursor(t) = n
<1>1. n \in Height /\ t[n] # None /\ Height \subseteq Nat
  BY BlocksAssumption DEF IsTop, Height
<1>2. ~IsEmpty(t)
  BY <1>1 DEF IsEmpty
<1>3. IsTop(t, Top(t))
  BY <1>2, TopExists
<1>4. Top(t) \in Nat /\ n \in Nat /\ ~ (n > Top(t)) /\ ~ (Top(t) > n)
  BY <1>1, <1>3 DEF IsTop
<1> QED
  BY <1>2, <1>4 DEF Cursor

\* No row lies above it.
LEMMA TopBounds ==
  ASSUME NEW t \in Tables, NEW h \in Height, t[h] # None
  PROVE  IsTop(t, Top(t)) /\ Top(t) \in Height /\ h <= Top(t) /\ ~IsEmpty(t)
<1>1. ~IsEmpty(t)
  BY DEF IsEmpty
<1>2. IsTop(t, Top(t)) /\ Top(t) \in Height
  BY <1>1, TopExists DEF IsTop
<1>3. Top(t) \in Nat /\ h \in Nat /\ ~ (h > Top(t))
  BY <1>2, BlocksAssumption DEF IsTop, Height
<1> QED
  BY <1>1, <1>2, <1>3

-----------------------------------------------------------------------------
(* The engine.                                                             *)

\* What TypeOK needs to be inductive: an answer of the node or the portal
\* stays below the head it was asked up to, and a batch that is processed is
\* complete.
BatchOK ==
  /\ pc = "fetch" => batch # <<>> /\ next + Len(batch) - 1 <= head
  /\ pc \in {"check", "walk", "tx"} => batch \in Seq(Hash) /\ batch # <<>>

TypeInv == TypeOK /\ BatchOK

\* A chain the node presents, and its heights.
LEMMA ChainFacts ==
  ASSUME NEW c \in Chains
  PROVE  /\ c \in Tables
         /\ c[MaxHeight] = None
         /\ Top(c) \in Height
         /\ IsTop(c, Top(c))
<1>1. IsChain(c)
  BY BlocksAssumption
<1>2. ~IsEmpty(c)
  BY <1>1 DEF IsChain, IsEmpty, IsTop
<1> QED
  BY <1>1, <1>2, TopExists DEF IsChain, IsTop

\* A transaction stays one when one of its parts is written.
LEMMA TxWithRow ==
  ASSUME NEW t \in [rows : Tables, entities : [Handlers -> Tables],
                    written : 0..NHandlers, recorded : Nat],
         NEW r \in Tables
  PROVE  [t EXCEPT !.recorded = @ + 1, !.rows = r]
           \in [rows : Tables, entities : [Handlers -> Tables],
               written : 0..NHandlers, recorded : Nat]
<1>1. t.recorded + 1 \in Nat
  OBVIOUS
<1>2. [t EXCEPT !.recorded = @ + 1]
        \in [rows : Tables, entities : [Handlers -> Tables],
            written : 0..NHandlers, recorded : Nat]
  BY <1>1
<1> QED
  BY <1>2

LEMMA TxWithHandler ==
  ASSUME NEW t \in [rows : Tables, entities : [Handlers -> Tables],
                    written : 0..NHandlers, recorded : Nat],
         NEW h \in Handlers, NEW e \in Tables
  PROVE  [t EXCEPT !.written = h, !.entities[h] = e]
           \in [rows : Tables, entities : [Handlers -> Tables],
               written : 0..NHandlers, recorded : Nat]
<1>1. h \in 0..NHandlers
  BY ProcessorAssumption DEF Handlers
<1>2. [t.entities EXCEPT ![h] = e] \in [Handlers -> Tables]
  OBVIOUS
<1> QED
  BY <1>1, <1>2

\* A non-empty run of blocks is a batch that can be processed.
LEMMA BatchOfHashes ==
  ASSUME NEW s \in Seq(Hash \cup {None}), Len(s) > 0,
         \A j \in 1..Len(s) : s[j] \in Hash
  PROVE  s \in Seq(Hash) /\ s # <<>>
OBVIOUS

LEMMA NoTxType ==
  NoTx \in [rows : Tables, entities : [Handlers -> Tables],
            written : 0..NHandlers, recorded : Nat]
BY ProcessorAssumption DEF NoTx, EmptyTable, Tables

LEMMA WrittenType ==
  ASSUME NEW t \in Tables, NEW clause, batch \in Seq(Hash)
  PROVE  Written(t, clause) \in Tables
BY DEF Written, Tables

\* What backfill asks for is not empty and stays in 0..head.
LEMMA AskedFacts ==
  ASSUME TypeInv, next <= head
  PROVE  /\ Asked \in Nat \ {0}
         /\ Asked <= BatchSize
         /\ next + Asked - 1 <= head
         /\ \A i \in 1..Asked : next + i - 1 \in Height
<1>1. next \in Height /\ head \in Height /\ MaxHeight \in Nat
  BY BlocksAssumption DEF TypeInv, TypeOK
<1>2. BatchSize \in Nat \ {0}
  BY ProcessorAssumption
<1> QED
  BY <1>1, <1>2 DEF Asked, Least, SatAdd, Height

\* A complete batch is a batch.
LEMMA SeqOfHashes ==
  ASSUME NEW s \in Seq(Hash)
  PROVE  s \in Seq(Hash \cup {None})
OBVIOUS

\* The observer's hooks.
LEMMA GaugesType ==
  /\ NoGauges \in Gauges
  /\ \A g \in Gauges, h \in Height :
       OnHead(g, h) \in Gauges /\ OnBatchCommitted(g, h) \in Gauges
<1>1. NoGauges \in Gauges
  BY BlocksAssumption DEF NoGauges, Gauges, Height
<1>2. ASSUME NEW g \in Gauges, NEW h \in Height
      PROVE  OnHead(g, h) \in Gauges /\ OnBatchCommitted(g, h) \in Gauges
  <2>1. /\ [g EXCEPT !.head = h] \in Gauges
        /\ [g EXCEPT !.cursor = h] \in Gauges
    BY DEF Gauges
  <2>2. ASSUME NEW d \in Gauges
        PROVE  PublishLag(d) \in Gauges
    <3>1. d.head \in Height /\ d.cursor \in Nat
      BY BlocksAssumption DEF Gauges, Height
    <3>2. SatSub(d.head, d.cursor) \in Height
      BY <3>1, SatSubType
    <3> QED
      BY <3>2 DEF PublishLag, Gauges
  <2> QED
    BY <2>1, <2>2 DEF OnHead, OnBatchCommitted
<1> QED
  BY <1>1, <1>2

LEMMA InitType == Init => TypeInv
<1> SUFFICES ASSUME Init PROVE TypeInv
  OBVIOUS
<1>1. EmptyTable \in Tables /\ 0 \in Height
  BY BlocksAssumption DEF EmptyTable, Tables, Height
<1>2. NoWalk \in [height : Height, hash : Hash \cup {None}]
  BY <1>1 DEF NoWalk
<1>3. TypeOK
  <2> USE DEF Init
  <2>1. canon \in Chains /\ reorgs \in 0..MaxReorgs
    BY ProcessorAssumption
  <2>2. rows \in Tables /\ entities \in [Handlers -> Tables]
    BY <1>1
  <2>3. pc \in Running \cup Down
    BY DEF Running
  <2>4. following \in BOOLEAN /\ steady \in BOOLEAN
    OBVIOUS
  <2>5. next \in Height /\ head \in Height
    BY <1>1
  <2>6. batch \in Seq(Hash \cup {None})
    OBVIOUS
  <2>7. walk \in [height : Height, hash : Hash \cup {None}]
    BY <1>2
  <2>8. tx \in [rows : Tables, entities : [Handlers -> Tables],
               written : 0..NHandlers, recorded : Nat]
    BY NoTxType
  <2>9. sub \in Height \cup {None} /\ restarts \in 0..MaxRestarts
    BY ProcessorAssumption
  <2>10. hiwater \in Height \cup {None} /\ gauges \in Gauges
    BY GaugesType
  <2> QED
    BY <2>1, <2>2, <2>3, <2>4, <2>5, <2>6, <2>7, <2>8, <2>9, <2>10 DEF TypeOK
<1>4. BatchOK
  BY DEF Init, BatchOK
<1> QED
  BY <1>3, <1>4 DEF TypeInv

LEMMA HaltType ==
  ASSUME TypeInv, NEW o \in Down, Halt(o)
  PROVE  TypeInv'
<1>1. 0 \in Height
  BY BlocksAssumption DEF Height
<1>2. NoWalk \in [height : Height, hash : Hash \cup {None}]
  BY <1>1 DEF NoWalk
<1>3. TypeOK'
  <2> USE DEF TypeInv, TypeOK, Halt
  <2>1. (canon \in Chains /\ reorgs \in 0..MaxReorgs)'
    BY DEF node
  <2>2. (rows \in Tables /\ entities \in [Handlers -> Tables])'
    BY DEF database
  <2>3. (pc \in Running \cup Down)'
    OBVIOUS
  <2>4. (following \in BOOLEAN /\ steady \in BOOLEAN)'
    OBVIOUS
  <2>5. (next \in Height /\ head \in Height)'
    BY <1>1
  <2>6. (batch \in Seq(Hash \cup {None}))'
    OBVIOUS
  <2>7. (walk \in [height : Height, hash : Hash \cup {None}])'
    BY <1>2
  <2>8. (tx \in [rows : Tables, entities : [Handlers -> Tables],
                 written : 0..NHandlers, recorded : Nat])'
    BY NoTxType
  <2>9. (sub \in Height \cup {None} /\ restarts \in 0..MaxRestarts)'
    OBVIOUS
  <2>10. (hiwater \in Height \cup {None} /\ gauges \in Gauges)'
    BY GaugesType
  <2> QED
    BY <2>1, <2>2, <2>3, <2>4, <2>5, <2>6, <2>7, <2>8, <2>9, <2>10
<1>4. BatchOK'
  BY DEF Halt, BatchOK, Down
<1> QED
  BY <1>3, <1>4 DEF TypeInv

LEMMA TypeStep == TypeInv /\ [Next]_vars => TypeInv'
<1> SUFFICES ASSUME TypeInv, [Next]_vars
             PROVE  TypeInv'
  OBVIOUS
<1> USE DEF TypeInv
<1>0. 0 \in Height /\ MaxHeight \in Nat /\ Height \subseteq Nat
  BY BlocksAssumption DEF Height
<1>1. CASE Finalize
  BY <1>1 DEF Finalize, TypeOK, BatchOK, database, locals, history
<1>2. CASE Reorg
  <2>1. PICK c \in Chains : /\ Diverge(c, canon)
                            /\ canon' = c
                            /\ sub' = IF sub # None /\ Redelivers
                                      THEN Least(sub, FirstDifference(c, canon))
                                      ELSE sub
    BY <1>2 DEF Reorg
  <2>2. FirstDifference(c, canon) \in Height
    BY <2>1, ChainFacts, FirstDifferenceExists DEF TypeOK
  <2>3. sub' \in Height \cup {None}
    BY <2>1, <2>2 DEF TypeOK, Least
  <2>4. reorgs' \in 0..MaxReorgs
    BY <1>2, ProcessorAssumption DEF Reorg, TypeOK
  <2> QED
    BY <1>2, <2>1, <2>3, <2>4
       DEF Reorg, TypeOK, BatchOK, database, locals
<1>3. CASE Fail
  BY <1>3, HaltType DEF Fail, Down
<1>4. CASE Restart
  <2>1. restarts' \in 0..MaxRestarts
    BY <1>4, ProcessorAssumption DEF Restart, TypeOK
  <2> QED
    BY <1>4, <2>1
       DEF Restart, TypeOK, BatchOK, Running, node, database, locals, history
<1>5. CASE StreamError
  BY <1>5 DEF StreamError, TypeOK, BatchOK, node, database, locals, history
<1>6. CASE Shutdown
  BY <1>6, HaltType DEF Shutdown, Down
<1>7. CASE ResumeHeight
  <2>1. next' \in Height
    BY <1>0, <1>7, CursorType, SatAddType, ProcessorAssumption
       DEF ResumeHeight, TypeOK
  <2> QED
    BY <1>7, <2>1
       DEF ResumeHeight, TypeOK, BatchOK, Running, node, database, history
<1>8. CASE ReadHead
  <2>1. head' \in Height
    BY <1>0, <1>8, ChainFacts DEF ReadHead, FinalizedHeads, TypeOK, Height
  <2>2. gauges' \in Gauges
    BY <1>8, <2>1, GaugesType DEF ReadHead, TypeOK
  <2> QED
    BY <1>8, <2>1, <2>2
       DEF ReadHead, TypeOK, BatchOK, Running, node, database, history
<1>9. CASE FetchFromPortal
  <2>1. PICK n \in 1..Asked :
          /\ \A i \in 1..n : canon[next + i - 1] # None
          /\ batch' = [i \in 1..n |-> canon[next + i - 1]]
    BY <1>9 DEF FetchFromPortal
  <2>2. n \in Nat \ {0} /\ \A i \in 1..n : next + i - 1 \in Height
    <3>1. Asked \in Nat \ {0} /\ \A i \in 1..Asked : next + i - 1 \in Height
      BY <1>9, AskedFacts DEF FetchFromPortal
    <3> QED
      BY <3>1
  <2>3. \A i \in 1..n : canon[next + i - 1] \in Hash
    BY <2>1, <2>2, ChainFacts DEF TypeOK, Tables
  <2>4. batch' \in Seq(Hash) /\ Len(batch') = n
    BY <2>1, <2>2, <2>3
  <2>5. batch' # <<>> /\ batch' \in Seq(Hash \cup {None})
    BY <2>2, <2>4, SeqOfHashes
  <2> QED
    BY <1>9, <2>4, <2>5
       DEF FetchFromPortal, TypeOK, BatchOK, Running, node, database, locals
<1>10. CASE PortalEmpty
  BY <1>10 DEF PortalEmpty, TypeOK, BatchOK, Running, node, database, locals,
               history
<1>11. CASE RequestSpan
  <2>1. batch' = [i \in 1..Asked |-> None] /\ next <= head
    BY <1>11 DEF RequestSpan
  <2>2. Asked \in Nat \ {0} /\ next + Asked - 1 <= head
    BY <2>1, AskedFacts
  <2>3. batch' \in Seq(Hash \cup {None}) /\ Len(batch') = Asked
    BY <2>1, <2>2
  <2>4. TypeOK'
    BY <1>11, <2>3
       DEF RequestSpan, TypeOK, Running, node, database, locals
  <2>5. BatchOK'
    BY <1>11, <2>2, <2>3 DEF RequestSpan, BatchOK, locals
  <2> QED
    BY <2>4, <2>5
<1>12. ASSUME NEW i \in 1..BatchSize, AnswerHeight(i)
       PROVE  TypeInv'
  <2>1. /\ batch \in Seq(Hash \cup {None}) /\ i \in 1..Len(batch)
        /\ batch' = [batch EXCEPT ![i] = canon[next + i - 1]]
        /\ canon[next + i - 1] # None
        /\ next + Len(batch) - 1 <= head
        /\ next \in Height /\ head \in Height
    BY <1>12 DEF AnswerHeight, TypeOK, BatchOK
  <2>2. next + i - 1 \in Height
    BY <1>0, <2>1 DEF Height
  <2>3. canon[next + i - 1] \in Hash
    BY <2>1, <2>2, ChainFacts DEF TypeOK, Tables
  <2>4. batch' \in Seq(Hash \cup {None}) /\ Len(batch') = Len(batch)
    BY <2>1, <2>3
  <2>5. TypeOK'
    BY <1>12, <2>4
       DEF AnswerHeight, TypeOK, Running, node, database, locals, history
  <2>6. CASE pc' = "fetch"
    <3>1. BatchOK'
      BY <1>12, <2>1, <2>4, <2>6 DEF AnswerHeight, BatchOK, locals
    <3> QED
      BY <2>5, <3>1
  <2>7. CASE pc' = "check"
    <3>1. \A j \in 1..Len(batch') : batch'[j] \in Hash
      BY <1>12, <2>4, <2>7 DEF AnswerHeight
    <3>2. Len(batch') > 0
      BY <2>1, <2>4
    <3>3. batch' \in Seq(Hash) /\ batch' # <<>>
      BY <2>4, <3>1, <3>2, BatchOfHashes
    <3>4. BatchOK'
      BY <2>7, <3>3 DEF BatchOK
    <3> QED
      BY <2>5, <3>4
  <2> QED
    BY <1>12, <2>6, <2>7 DEF AnswerHeight
<1>13. CASE LoopDone
  BY <1>13 DEF LoopDone, TypeOK, BatchOK, Running, node, database, locals,
               history
<1>14. CASE CompleteBackfill
  BY <1>0, <1>14
     DEF CompleteBackfill, TypeOK, BatchOK, Running, node, database, history
<1>15. CASE FinishBackfill
  BY <1>15, HaltType DEF FinishBackfill, Down
<1>16. CASE DetectReorg
  <2>1. batch[1] \in Hash
    BY <1>16 DEF DetectReorg, BatchOK
  <2>2. walk' \in [height : Height, hash : Hash \cup {None}]
    BY <1>0, <1>16, <2>1, BlocksAssumption DEF DetectReorg, Diverged, Height
  <2> QED
    BY <1>16, <2>2
       DEF DetectReorg, TypeOK, BatchOK, Running, node, database, locals,
           history
<1>17. CASE AcceptBatch
  <2>1. tx' \in [rows : Tables, entities : [Handlers -> Tables],
                 written : 0..NHandlers, recorded : Nat]
    BY <1>17, NoTxType DEF AcceptBatch, TypeOK
  <2> QED
    BY <1>17, <2>1
       DEF AcceptBatch, TypeOK, BatchOK, Running, node, database, locals,
           history
<1>18. CASE GiveUp
  BY <1>18, HaltType DEF GiveUp, Down
<1>19. CASE WalkDown
  <2>1. walk' \in [height : Height, hash : Hash \cup {None}]
    BY <1>0, <1>19, ChainFacts DEF WalkDown, TypeOK, AtFork, Height, Tables
  <2> QED
    BY <1>19, <2>1
       DEF WalkDown, TypeOK, BatchOK, node, database, locals, history
<1>20. CASE Rewind
  <2>1. rows' \in Tables
    BY <1>20, RollbackType DEF Rewind, TypeOK
  <2>2. next' \in Height
    BY <1>0, <1>20, SatAddType DEF Rewind, TypeOK
  <2>3. /\ walk' \in [height : Height, hash : Hash \cup {None}]
        /\ gauges' \in Gauges
    BY <1>0, <1>20 DEF Rewind, NoWalk, OnReorg, TypeOK
  <2> QED
    BY <1>20, <2>1, <2>2, <2>3
       DEF Rewind, TypeOK, BatchOK, Running, node, history
<1>21. CASE WriteHandler
  <2>1. /\ tx.written + 1 \in Handlers
        /\ tx' = [tx EXCEPT !.written = tx.written + 1,
                            !.entities[tx.written + 1] =
                               Written(tx.entities[tx.written + 1],
                                       OnConflict[tx.written + 1])]
    BY <1>21 DEF WriteHandler
  <2>2. Written(tx.entities[tx.written + 1], OnConflict[tx.written + 1])
          \in Tables
    BY <1>21, <2>1, WrittenType DEF WriteHandler, TypeOK, BatchOK
  <2>3. tx' \in [rows : Tables, entities : [Handlers -> Tables],
                 written : 0..NHandlers, recorded : Nat]
    BY <2>1, <2>2, TxWithHandler DEF TypeOK
  <2> QED
    BY <1>21, <2>3
       DEF WriteHandler, TypeOK, BatchOK, node, database, locals, history
<1>22. CASE RecordBlock
  <2>1. /\ tx.recorded < Len(batch)
        /\ batch \in Seq(Hash)
        /\ tx' = [tx EXCEPT !.recorded = @ + 1,
                            !.rows = SetCursor(tx.rows,
                                               batch[tx.recorded + 1])]
    BY <1>22 DEF RecordBlock, BatchOK
  <2>2. batch[tx.recorded + 1] \in Hash
    BY <2>1 DEF TypeOK
  <2>3. SetCursor(tx.rows, batch[tx.recorded + 1]) \in Tables
    BY <2>2, SetCursorType DEF TypeOK
  <2>4. tx' \in [rows : Tables, entities : [Handlers -> Tables],
                 written : 0..NHandlers, recorded : Nat]
    BY <2>1, <2>3, TxWithRow DEF TypeOK
  <2> QED
    BY <1>22, <2>4
       DEF RecordBlock, TypeOK, BatchOK, node, database, locals, history
<1>23. CASE Commit
  <2>1. rows' \in Tables /\ entities' \in [Handlers -> Tables]
    BY <1>23 DEF Commit, TypeOK
  <2>2. batch[Len(batch)] \in Hash
    BY <1>23 DEF Commit, BatchOK
  <2>3. next' \in Height /\ gauges' \in Gauges
    <3>1. Number[batch[Len(batch)]] \in Height
      BY <2>2, BlocksAssumption
    <3> QED
      BY <1>0, <1>23, <3>1, SatAddType, GaugesType DEF Commit, TypeOK
  <2>4. hiwater' \in Height \cup {None}
    BY <1>23, CursorType DEF Commit, TypeOK
  <2> QED
    BY <1>23, <2>1, <2>3, <2>4, NoTxType
       DEF Commit, TypeOK, BatchOK, Running, node
<1>24. CASE Subscribe
  BY <1>24, ChainFacts
     DEF Subscribe, TypeOK, BatchOK, node, database, locals, history
<1>25. CASE Deliver
  <2>1. sub \in Height /\ canon[sub] \in Hash /\ sub # MaxHeight
    BY <1>25, ChainFacts DEF Deliver, TypeOK, Tables
  <2>2. batch' \in Seq(Hash) /\ batch' # <<>>
    BY <1>25, <2>1 DEF Deliver
  <2>3. sub' \in Height /\ gauges' \in Gauges
    BY <1>0, <1>25, <2>1, GaugesType DEF Deliver, TypeOK, Height
  <2> QED
    BY <1>25, <2>2, <2>3, SeqOfHashes
       DEF Deliver, TypeOK, BatchOK, Running, node, database, locals
<1>26. CASE UNCHANGED vars
  BY <1>26 DEF vars, TypeOK, BatchOK
<1> QED
  BY <1>1, <1>2, <1>3, <1>4, <1>5, <1>6, <1>7, <1>8, <1>9, <1>10, <1>11,
     <1>12, <1>13, <1>14, <1>15, <1>16, <1>17, <1>18, <1>19, <1>20, <1>21,
     <1>22, <1>23, <1>24, <1>25, <1>26
     DEF Next, Backfill, Process, Follow

\* Every variable keeps its type: heights stay in range although the code adds
\* to them, and no batch is processed that is empty or incomplete.
THEOREM TypeCorrect == Spec => []TypeOK
<1>1. TypeInv => TypeOK
  BY DEF TypeInv
<1> QED
  BY <1>1, InitType, TypeStep, PTL DEF Spec

-----------------------------------------------------------------------------
(* RowsFormChain, for a backfill whose batches come out of one view of the *)
(* chain: from a portal, or one block at a time from the node.             *)

OneViewBackfill == FollowTip = FALSE /\ (Source # "subxt" \/ BatchSize = 1)

\* The batch is a run of blocks from `next` on, each the parent of the next.
BatchInOrder ==
  /\ \A i \in 1..Len(batch) : batch[i] # None =>
       /\ Number[batch[i]] = next + i - 1
       /\ next + i - 1 < MaxHeight
  /\ \A i \in 2..Len(batch) : Parent[batch[i]] = batch[i-1]

\* Block number i of the batch may go on top of table t: it has the awaited
\* height, and its parent is the row below it, if there is one.
Fits(t, i) ==
  /\ Awaits(t, next + i - 1)
  /\ i <= Len(batch) /\ next + i - 1 > 0 /\ t[next + i - 2] # None =>
       Parent[batch[i]] = t[next + i - 2]

\* The strengthening of RowsFormChain that every step preserves.
ChainInv ==
  /\ IsSegment(rows) /\ rows[MaxHeight] = None
  /\ ~following /\ pc # "tip"
  /\ pc \in {"head", "loop", "fetch", "check", "walk", "tx"} =>
       Awaits(rows, next)
  /\ pc = "fetch" => Len(batch) = 1
  /\ pc \in {"fetch", "check", "walk", "tx"} => BatchInOrder
  /\ pc = "walk" => /\ walk.height < next
                    /\ \/ rows[walk.height] # None
                       \/ rows[walk.height + 1] # None
  /\ pc = "tx" => /\ IsSegment(tx.rows) /\ tx.rows[MaxHeight] = None
                  /\ tx.recorded <= Len(batch)
                  /\ Fits(tx.rows, tx.recorded + 1)

SafeInv == TypeInv /\ ChainInv

\* Two neighbouring blocks of a chain.
LEMMA ChainLinks ==
  ASSUME NEW c \in Chains, NEW h \in Height, c[h] # None
  PROVE  /\ c[h] \in Hash /\ Number[c[h]] = h /\ h < MaxHeight
         /\ h > 0 /\ c[h-1] # None => Parent[c[h]] = c[h-1]
<1>1. c \in Tables /\ c[MaxHeight] = None /\ IsSegment(c)
  BY BlocksAssumption DEF IsChain
<1>2. c[h] \in Hash
  BY <1>1 DEF Tables
<1>3. Number[c[h]] = h
  BY <1>1 DEF IsSegment, InPlace
<1>4. h < MaxHeight
  <2>1. h # MaxHeight
    BY <1>1
  <2> QED
    BY <2>1, BlocksAssumption DEF Height
<1>5. h > 0 /\ c[h-1] # None => Parent[c[h]] = c[h-1]
  BY <1>1 DEF IsSegment, Linked
<1> QED
  BY <1>2, <1>3, <1>4, <1>5

LEMMA InitChain == Init => ChainInv
<1> SUFFICES ASSUME Init PROVE ChainInv
  OBVIOUS
<1>1. \A h \in Height : rows[h] = None
  BY DEF Init, EmptyTable
<1>2. MaxHeight \in Height
  BY BlocksAssumption DEF Height
<1>3. IsSegment(rows)
  BY <1>1 DEF IsSegment, InPlace, Linked, Contiguous
<1> QED
  BY <1>1, <1>2, <1>3 DEF Init, ChainInv

\* The first block of a batch has the height `next`.
LEMMA FirstInOrder ==
  ASSUME TypeInv, BatchInOrder, pc = "check"
  PROVE  Number[batch[1]] = next
<1>1. next \in Nat /\ 1 \in 1..Len(batch) /\ batch[1] \in Hash
  BY BlocksAssumption DEF TypeInv, TypeOK, BatchOK, Height
<1>2. Number[batch[1]] = next + 1 - 1
  BY <1>1, BlocksAssumption DEF BatchInOrder
<1> QED
  BY <1>1, <1>2

LEMMA HaltChain ==
  ASSUME ChainInv, NEW o \in Down, Halt(o)
  PROVE  ChainInv'
BY DEF ChainInv, Halt, Down, database

LEMMA ChainStep ==
  ASSUME OneViewBackfill, SafeInv, [Next]_vars
  PROVE  ChainInv'
<1> USE DEF SafeInv
<1>0. /\ MaxHeight \in Nat \ {0} /\ Height \subseteq Nat /\ None \notin Hash
      /\ next \in Height /\ rows \in Tables
  BY BlocksAssumption DEF Height, TypeInv, TypeOK
<1>1. CASE Finalize
  BY <1>1 DEF Finalize, ChainInv, BatchInOrder, Fits, database, locals
<1>2. CASE Reorg
  BY <1>2 DEF Reorg, ChainInv, BatchInOrder, Fits, database, locals
<1>3. CASE Fail
  BY <1>3, HaltChain DEF Fail, Down
<1>4. CASE Restart
  BY <1>4 DEF Restart, ChainInv, database, locals
<1>5. CASE StreamError
  BY <1>5 DEF StreamError, ChainInv
<1>6. CASE Shutdown
  BY <1>6 DEF Shutdown, ChainInv
<1>7. CASE ResumeHeight
  <2>1. CASE IsEmpty(rows)
    BY <1>7, <2>1 DEF ResumeHeight, ChainInv, Awaits, IsEmpty, database
  <2>2. CASE ~IsEmpty(rows)
    <3>1. Cursor(rows) = Top(rows) /\ IsTop(rows, Top(rows))
      BY <1>0, <2>2, TopExists DEF Cursor
    <3>2. Top(rows) \in Height /\ Top(rows) < MaxHeight
      <4>1. Top(rows) \in 0..MaxHeight /\ rows[Top(rows)] # None
        BY <3>1 DEF IsTop, Height
      <4>2. Top(rows) # MaxHeight
        BY <4>1 DEF ChainInv
      <4> QED
        BY <1>0, <4>1, <4>2 DEF Height
    <3>3. next' = Top(rows) + 1
      <4>1. Cursor(rows) # None
        BY <3>1, <3>2, BlocksAssumption
      <4>2. next' = SatAdd(Top(rows), 1)
        BY <1>7, <3>1, <4>1 DEF ResumeHeight
      <4>3. Top(rows) \in Nat /\ MaxHeight \in Nat /\ Top(rows) < MaxHeight
        BY <1>0, <3>2
      <4> QED
        BY <4>2, <4>3 DEF SatAdd
    <3>4. Awaits(rows, next')
      <4>1. Top(rows) \in Nat
        BY <1>0, <3>2
      <4>2. next' > 0 /\ next' - 1 = Top(rows)
        BY <3>3, <4>1
      <4> QED
        BY <3>1, <4>2 DEF Awaits
    <3> QED
      BY <1>7, <3>4 DEF ResumeHeight, ChainInv, Awaits, IsEmpty, database
  <2> QED
    BY <2>1, <2>2
<1>8. CASE ReadHead
  BY <1>8 DEF ReadHead, ChainInv, database
<1>9. CASE FetchFromPortal
  <2>1. PICK n \in 1..Asked :
          /\ \A i \in 1..n : canon[next + i - 1] # None
          /\ batch' = [i \in 1..n |-> canon[next + i - 1]]
    BY <1>9 DEF FetchFromPortal
  <2>2. /\ Asked \in Nat \ {0}
        /\ \A i \in 1..Asked : next + i - 1 \in Height
    BY <1>9, AskedFacts DEF FetchFromPortal
  <2>3. n \in Nat /\ Len(batch') = n /\ next' = next
    BY <1>9, <2>1, <2>2 DEF FetchFromPortal, locals
  <2>4. ASSUME NEW i \in 1..n
        PROVE  /\ Number[canon[next + i - 1]] = next + i - 1
               /\ next + i - 1 < MaxHeight
               /\ i > 1 => Parent[canon[next + i - 1]] = canon[next + i - 2]
    <3>1. next + i - 1 \in Height /\ canon[next + i - 1] # None
      BY <2>1, <2>2
    <3>2. canon \in Chains /\ next \in Nat /\ i \in Nat
      BY <1>0 DEF TypeInv, TypeOK
    <3>3. i > 1 => canon[next + i - 2] # None /\ next + i - 1 > 0
      <4> SUFFICES ASSUME i > 1
                   PROVE  canon[next + i - 2] # None /\ next + i - 1 > 0
        OBVIOUS
      <4>1. i - 1 \in 1..n /\ next + (i - 1) - 1 = next + i - 2
        BY <2>3, <3>2
      <4>2. canon[next + (i - 1) - 1] # None
        BY <2>1, <4>1
      <4> QED
        BY <3>2, <4>1, <4>2
    <3>4. (next + i - 1) - 1 = next + i - 2
      BY <3>2
    <3> QED
      BY <3>1, <3>2, <3>3, <3>4, ChainLinks
  <2>5. BatchInOrder'
    BY <2>1, <2>3, <2>4 DEF BatchInOrder
  <2> QED
    BY <1>9, <2>5 DEF FetchFromPortal, ChainInv, database, locals
<1>10. CASE PortalEmpty
  BY <1>10 DEF PortalEmpty, ChainInv, database, locals
<1>11. CASE RequestSpan
  <2>1. Asked = 1
    <3>1. next <= head /\ BatchSize = 1
      BY <1>11 DEF RequestSpan, OneViewBackfill
    <3>2. Asked \in Nat \ {0} /\ Asked <= 1
      BY <3>1, AskedFacts
    <3> QED
      BY <3>2
  <2>2. Len(batch') = 1 /\ batch'[1] = None
    BY <1>11, <2>1 DEF RequestSpan
  <2>3. BatchInOrder'
    BY <2>2 DEF BatchInOrder
  <2> QED
    BY <1>11, <2>2, <2>3 DEF RequestSpan, ChainInv, database, locals
<1>12. ASSUME NEW i \in 1..BatchSize, AnswerHeight(i)
       PROVE  ChainInv'
  <2>1. /\ batch \in Seq(Hash \cup {None}) /\ Len(batch) = 1 /\ i = 1
        /\ batch' = [batch EXCEPT ![i] = canon[next + i - 1]]
        /\ canon[next + i - 1] # None
    BY <1>12 DEF AnswerHeight, ChainInv, TypeInv, TypeOK
  <2>2. Len(batch') = 1 /\ batch'[1] = canon[next] /\ canon[next] # None
    BY <1>0, <2>1
  <2>3. Number[batch'[1]] = next /\ next < MaxHeight
    BY <1>0, <2>2, ChainLinks DEF TypeInv, TypeOK
  <2>4. next' = next
    BY <1>12 DEF AnswerHeight, locals
  <2>5. BatchInOrder'
    BY <1>0, <2>2, <2>3, <2>4 DEF BatchInOrder
  <2> QED
    BY <1>12, <2>2, <2>5
       DEF AnswerHeight, ChainInv, database, locals
<1>13. CASE LoopDone
  BY <1>13 DEF LoopDone, ChainInv, database, locals
<1>14. CASE CompleteBackfill
  BY <1>14 DEF CompleteBackfill, OneViewBackfill
<1>15. CASE FinishBackfill
  BY <1>15, HaltChain DEF FinishBackfill, Down
<1>16. CASE DetectReorg
  <2>1. Number[batch[1]] = next
    BY <1>0, <1>16, FirstInOrder DEF DetectReorg, ChainInv, TypeInv
  <2>2. next > 0 /\ rows[next - 1] # None
    BY <1>16, <2>1 DEF DetectReorg, Diverged, HashAt
  <2>3. walk'.height = next - 1
    BY <1>16, <2>1 DEF DetectReorg
  <2> QED
    BY <1>0, <1>16, <2>2, <2>3
       DEF DetectReorg, ChainInv, BatchInOrder, database, locals
<1>17. CASE AcceptBatch
  <2>1. Number[batch[1]] = next
    BY <1>0, <1>17, FirstInOrder DEF AcceptBatch, ChainInv, TypeInv
  <2>2. /\ tx'.rows = rows /\ tx'.recorded = 0
        /\ batch' = batch /\ next' = next
    BY <1>17 DEF AcceptBatch, NoTx, locals
  <2>3. next > 0 /\ rows[next - 1] # None => Parent[batch[1]] = rows[next - 1]
    BY <1>17, <2>1 DEF AcceptBatch, Diverged, HashAt
  <2>4. Awaits(rows, next)
    BY <1>17 DEF AcceptBatch, ChainInv
  <2>5. Fits(tx.rows, tx.recorded + 1)'
    <3>1. next + 1 - 1 = next /\ next + 1 - 2 = next - 1 /\ 0 + 1 = 1
      BY <1>0
    <3> QED
      BY <2>2, <2>3, <2>4, <3>1 DEF Fits
  <2>6. 0 <= Len(batch)
    BY DEF TypeInv, TypeOK
  <2> QED
    BY <1>17, <2>2, <2>5, <2>6
       DEF AcceptBatch, ChainInv, BatchInOrder, database, locals
<1>18. CASE GiveUp
  BY <1>18, HaltChain DEF GiveUp, Down
<1>19. CASE WalkDown
  <2>1. rows[walk.height] # None /\ walk.height # 0
    BY <1>19 DEF WalkDown, AtFork, HashAt
  <2>2. walk'.height = walk.height - 1 /\ walk.height \in Nat
    BY <1>0, <1>19 DEF WalkDown, TypeInv, TypeOK
  <2>3. walk'.height < next /\ walk'.height + 1 = walk.height
    BY <1>0, <1>19, <2>2 DEF WalkDown, ChainInv
  <2> QED
    BY <1>19, <2>1, <2>3
       DEF WalkDown, ChainInv, BatchInOrder, database, locals
<1>20. CASE Rewind
  <2>1. /\ walk.height \in Height /\ walk.height < next
        /\ rows[walk.height] # None \/ rows[walk.height + 1] # None
    BY <1>20 DEF Rewind, ChainInv, TypeInv, TypeOK
  <2>2. walk.height + 1 \in Height /\ walk.height + 1 > walk.height
    BY <1>0, <2>1 DEF Height
  <2>3. /\ IsSegment(RollbackTo(rows, walk.height))
        /\ Awaits(RollbackTo(rows, walk.height), walk.height + 1)
    BY <1>0, <1>20, <2>1, <2>2, RollbackKeeps DEF ChainInv
  <2>4. rows' = RollbackTo(rows, walk.height) /\ next' = walk.height + 1
    BY <1>0, <1>20, <2>2 DEF Rewind, ChainInv, SatAdd, Height
  <2>5. rows'[MaxHeight] = None
    BY <1>0, <1>20, <2>4 DEF RollbackTo, ChainInv, Height
  <2> QED
    BY <1>20, <2>3, <2>4, <2>5 DEF Rewind, ChainInv
<1>21. CASE WriteHandler
  BY <1>21 DEF WriteHandler, ChainInv, BatchInOrder, Fits, database, locals
<1>22. CASE RecordBlock
  <2> DEFINE r == tx.recorded
             b == batch[r + 1]
             t == tx.rows
  <2>1. /\ r \in Nat /\ r < Len(batch) /\ t \in Tables /\ IsSegment(t)
        /\ t[MaxHeight] = None /\ Fits(t, r + 1) /\ BatchInOrder
        /\ batch \in Seq(Hash)
    BY <1>22 DEF RecordBlock, ChainInv, TypeInv, TypeOK, BatchOK
  <2>2. r + 1 \in 1..Len(batch) /\ b \in Hash
    BY <2>1
  <2>3. Number[b] = next + r /\ next + r < MaxHeight
    BY <1>0, <2>1, <2>2 DEF BatchInOrder
  <2>4. /\ Awaits(t, Number[b])
        /\ Number[b] > 0 /\ t[Number[b] - 1] # None
             => t[Number[b] - 1] = Parent[b]
    <3>1. next + (r + 1) - 1 = Number[b] /\ next + (r + 1) - 2 = Number[b] - 1
      <4>1. r \in Nat /\ next \in Nat /\ Number[b] = next + r
        BY <1>0, <2>1, <2>3
      <4> HIDE DEF r, b
      <4> QED
        BY <4>1
    <3>2. Fits(t, r + 1) /\ r + 1 <= Len(batch)
      BY <2>1, <2>2
    <3> QED
      BY <3>1, <3>2 DEF Fits
  <2>5. IsSegment(SetCursor(t, b)) /\ Awaits(SetCursor(t, b), Number[b] + 1)
    BY <2>1, <2>2, <2>4, SetCursorExtends
  <2>6. SetCursor(t, b)[MaxHeight] = None
    BY <1>0, <2>1, <2>3 DEF SetCursor, Prune, Height, Tables
  <2>7. /\ tx'.rows = SetCursor(t, b) /\ tx'.recorded = r + 1
        /\ batch' = batch /\ next' = next
    BY <1>22 DEF RecordBlock, TypeInv, TypeOK, locals
  <2>8. Fits(tx.rows, tx.recorded + 1)'
    <3>1. SetCursor(t, b)[Number[b]] = b
      BY <2>1, <2>2, SetCursorHolds
    <3>2. r + 2 <= Len(batch) => Parent[batch[r + 2]] = batch[r + 1]
      BY <2>1 DEF BatchInOrder
    <3> QED
      <4>1. r + 1 + 1 = r + 2 /\ next + (r + 2) - 1 = Number[b] + 1
            /\ next + (r + 2) - 2 = Number[b]
        <5>1. r \in Nat /\ next \in Nat /\ Number[b] = next + r
          BY <1>0, <2>1, <2>3
        <5> HIDE DEF r, b
        <5> QED
          BY <5>1
      <4>2. Fits(tx.rows, tx.recorded + 1)'
              <=> /\ Awaits(SetCursor(t, b), Number[b] + 1)
                  /\ r + 2 <= Len(batch) /\ Number[b] + 1 > 0
                       /\ SetCursor(t, b)[Number[b]] # None
                     => Parent[batch[r + 2]] = SetCursor(t, b)[Number[b]]
        BY <2>7, <4>1 DEF Fits
      <4> QED
        BY <2>5, <3>1, <3>2, <4>2
  <2> QED
    BY <1>22, <2>1, <2>5, <2>6, <2>7, <2>8
       DEF RecordBlock, ChainInv, BatchInOrder, database, locals
<1>23. CASE Commit
  <2> DEFINE m == Len(batch)
  <2>1. /\ tx.recorded = m /\ IsSegment(tx.rows) /\ tx.rows[MaxHeight] = None
        /\ Fits(tx.rows, m + 1) /\ BatchInOrder
        /\ batch \in Seq(Hash) /\ batch # <<>>
    BY <1>23 DEF Commit, ChainInv, TypeInv, BatchOK
  <2>2. m \in Nat \ {0} /\ batch[m] \in Hash
    BY <2>1
  <2>3. Number[batch[m]] = next + m - 1 /\ next + m - 1 < MaxHeight
    BY <1>0, <2>1, <2>2 DEF BatchInOrder
  <2>4. next' = next + m
    BY <1>0, <1>23, <2>2, <2>3 DEF Commit, ChainInv, SatAdd
  <2>5. Awaits(rows', next')
    BY <1>0, <1>23, <2>1, <2>2, <2>4 DEF Commit, Fits
  <2> QED
    BY <1>23, <2>1, <2>5 DEF Commit, ChainInv
<1>24. CASE Subscribe
  BY <1>24 DEF Subscribe, ChainInv
<1>25. CASE Deliver
  BY <1>25 DEF Deliver, ChainInv
<1>26. CASE UNCHANGED vars
  BY <1>26 DEF vars, ChainInv, BatchInOrder, Fits
<1> QED
  BY <1>1, <1>2, <1>3, <1>4, <1>5, <1>6, <1>7, <1>8, <1>9, <1>10, <1>11,
     <1>12, <1>13, <1>14, <1>15, <1>16, <1>17, <1>18, <1>19, <1>20, <1>21,
     <1>22, <1>23, <1>24, <1>25, <1>26
     DEF Next, Backfill, Process, Follow

\* Whatever forks the node shows and however often the process dies, the rows
\* stay one hole-free segment of one chain, as long as each batch is one view.
THEOREM ChainKept == OneViewBackfill => (Spec => []RowsFormChain)
<1> SUFFICES ASSUME OneViewBackfill
             PROVE  Spec => []RowsFormChain
  OBVIOUS
<1>1. Init => SafeInv
  BY InitType, InitChain DEF SafeInv
<1>2. SafeInv /\ [Next]_vars => SafeInv'
  BY TypeStep, ChainStep DEF SafeInv
<1>3. SafeInv => RowsFormChain
  BY DEF SafeInv, ChainInv, RowsFormChain
<1> QED
  BY <1>1, <1>2, <1>3, PTL DEF Spec

-----------------------------------------------------------------------------
(* EntitiesCoverRows and EntitiesAppearWithRow, for every number of        *)
(* handlers, every source and every pattern of forks, torn batches,        *)
(* redeliveries and crashes.                                               *)

\* The batch as a run of heights; while it is fetched, as far as it is there.
BatchPlaced ==
  /\ pc = "fetch" =>
       \A i \in 1..Len(batch) : batch[i] # None => Number[batch[i]] = next + i - 1
  /\ pc \in {"check", "walk", "tx"} =>
       \A i \in 1..Len(batch) : Number[batch[i]] = Number[batch[1]] + i - 1

\* A table of handler k has a row for block b, the block's own if the handler
\* updates on conflict.
Covers(table, k, b) ==
  /\ table[Number[b]] # None
  /\ OnConflict[k] = "update" => table[Number[b]] = b

\* A block of the batch waits to be recorded at height h.
Waiting(h) == \E i \in 1..Len(batch) : i > tx.recorded /\ Number[batch[i]] = h

\* Handler k in the open transaction: where it has written and the record is still
\* to come, it has the new block's row, and elsewhere the recorded block's.
TxRow(k, h) ==
  tx.rows[h] \in HasEvents =>
    /\ tx.entities[k][h] # None
    /\ OnConflict[k] = "update" =>
         tx.entities[k][h] = tx.rows[h] \/ (k <= tx.written /\ Waiting(h))

TxCovers ==
  pc = "tx" =>
    /\ tx.recorded > 0 => tx.written = NHandlers
    /\ \A k \in Handlers : k <= tx.written =>
         \A i \in 1..Len(batch) :
           batch[i] \in HasEvents => Covers(tx.entities[k], k, batch[i])
    /\ \A k \in Handlers, h \in Height : TxRow(k, h)

EntInv == EntitiesCoverRows /\ BatchPlaced /\ TxCovers

-----------------------------------------------------------------------------

\* set_cursor leaves a row alone, drops it, or puts the block there.
LEMMA SetCursorRow ==
  ASSUME NEW t \in Tables, NEW b \in Hash, NEW h \in Height
  PROVE  \/ SetCursor(t, b)[h] = None
         \/ h = Number[b] /\ SetCursor(t, b)[h] = b
         \/ h # Number[b] /\ SetCursor(t, b)[h] = t[h]
BY BlocksAssumption DEF SetCursor, Prune, Tables

\* A handler's write gives every block of the batch its row, by the handler's
\* clause, and leaves the rest of the table alone.
LEMMA WrittenRow ==
  ASSUME TypeInv, BatchPlaced, pc = "tx",
         NEW t \in Tables, NEW clause, NEW h \in Height
  PROVE  LET w == Written(t, clause)[h]
         IN  \/ /\ w = t[h]
                /\ \A i \in 1..Len(batch) :
                     Number[batch[i]] = h /\ batch[i] \in HasEvents =>
                       clause # "update" /\ t[h] # None
             \/ \E i \in 1..Len(batch) :
                  Number[batch[i]] = h /\ w = batch[i] /\ w \in Hash
<1> DEFINE i == h - Number[batch[1]] + 1
<1>1. batch \in Seq(Hash) /\ 1 \in 1..Len(batch)
  BY DEF TypeInv, TypeOK, BatchOK
<1>2. Number[batch[1]] \in Nat /\ h \in Nat
  BY <1>1, BlocksAssumption DEF Height
<1>3. \A j \in 1..Len(batch) :
        Number[batch[j]] = Number[batch[1]] + j - 1 /\ batch[j] \in Hash
  BY <1>1 DEF BatchPlaced
<1>4. \A j \in 1..Len(batch) : Number[batch[j]] = h <=> j = i
  BY <1>2, <1>3
<1>5. Written(t, clause)[h] =
        IF i \in DOMAIN batch /\ batch[i] \in HasEvents
             /\ (clause = "update" \/ t[h] = None)
        THEN batch[i] ELSE t[h]
  BY DEF Written
<1>6. DOMAIN batch = 1..Len(batch)
  BY <1>1
<1> HIDE DEF i
<1> QED
  BY <1>3, <1>4, <1>5, <1>6

\* The same facts as the invariant needs them.
LEMMA WrittenCovers ==
  ASSUME TypeInv, BatchPlaced, pc = "tx", NEW t \in Tables, NEW k \in Handlers,
         NEW i \in 1..Len(batch), batch[i] \in HasEvents
  PROVE  Covers(Written(t, OnConflict[k]), k, batch[i])
<1>1. batch[i] \in Hash /\ Number[batch[i]] \in Height /\ None \notin Hash
  BY BlocksAssumption DEF TypeInv, TypeOK, BatchOK
<1>2. \A j \in 1..Len(batch) : Number[batch[j]] = Number[batch[i]] => j = i
  <2>1. \A j \in 1..Len(batch) : Number[batch[j]] = Number[batch[1]] + j - 1
    BY DEF BatchPlaced
  <2>2. Number[batch[1]] \in Nat
    BY BlocksAssumption DEF TypeInv, TypeOK, BatchOK, Height
  <2> QED
    BY <2>1, <2>2
<1> QED
  BY <1>1, <1>2, WrittenRow DEF Covers

LEMMA HaltEnt ==
  ASSUME EntInv, NEW o \in Down, Halt(o)
  PROVE  EntInv'
BY DEF EntInv, EntitiesCoverRows, BatchPlaced, TxCovers, Halt, Down, database

LEMMA InitEnt == Init => EntInv
<1> SUFFICES ASSUME Init PROVE EntInv
  OBVIOUS
<1>1. \A h \in Height : rows[h] \notin HasEvents
  BY BlocksAssumption, ProcessorAssumption DEF Init, EmptyTable
<1> QED
  BY <1>1 DEF Init, EntInv, EntitiesCoverRows, BatchPlaced, TxCovers

-----------------------------------------------------------------------------
LEMMA EntStep ==
  ASSUME TypeInv, EntInv, [Next]_vars
  PROVE  EntInv'
<1> USE DEF EntInv
<1>0. /\ MaxHeight \in Nat \ {0} /\ Height \subseteq Nat /\ None \notin Hash
      /\ next \in Height /\ rows \in Tables /\ None \notin HasEvents
  BY BlocksAssumption, ProcessorAssumption DEF Height, TypeInv, TypeOK
<1> DEFINE Same == EntitiesCoverRows' /\ TxCovers'
<1>a. ASSUME UNCHANGED database, pc' # "tx"
      PROVE  Same
  BY <1>a DEF database, EntitiesCoverRows, TxCovers
<1>b. ASSUME UNCHANGED <<database, pc, batch, tx>>
      PROVE  Same
  BY <1>b DEF database, EntitiesCoverRows, TxCovers, TxRow, Waiting
<1>1. CASE Finalize
  BY <1>1, <1>b DEF Finalize, BatchPlaced, locals
<1>2. CASE Reorg
  BY <1>2, <1>b DEF Reorg, BatchPlaced, locals
<1>3. CASE Fail
  BY <1>3, HaltEnt DEF Fail, Down
<1>4. CASE Restart
  BY <1>4, <1>a DEF Restart, BatchPlaced
<1>5. CASE StreamError
  BY <1>5, <1>b DEF StreamError, BatchPlaced, locals
<1>6. CASE Shutdown
  BY <1>6, HaltEnt DEF Shutdown, Down
<1>7. CASE ResumeHeight
  BY <1>7, <1>a DEF ResumeHeight, BatchPlaced
<1>8. CASE ReadHead
  BY <1>8, <1>a DEF ReadHead, BatchPlaced
<1>9. CASE FetchFromPortal
  <2>1. PICK n \in 1..Asked :
          /\ \A i \in 1..n : canon[next + i - 1] # None
          /\ batch' = [i \in 1..n |-> canon[next + i - 1]]
    BY <1>9 DEF FetchFromPortal
  <2>2. /\ Asked \in Nat \ {0} /\ n \in Nat \ {0} /\ Len(batch') = n
        /\ \A i \in 1..n : next + i - 1 \in Height
    <3>1. Asked \in Nat \ {0} /\ \A i \in 1..Asked : next + i - 1 \in Height
      BY <1>9, AskedFacts DEF FetchFromPortal
    <3>2. n \in Nat \ {0}
      BY <3>1
    <3>3. Len(batch') = n
      BY <2>1, <3>2
    <3> QED
      BY <3>1, <3>2, <3>3
  <2>3. \A i \in 1..n : Number[canon[next + i - 1]] = next + i - 1
    BY <2>1, <2>2, ChainLinks DEF TypeInv, TypeOK
  <2>4. 1 \in 1..n /\ next + 1 - 1 = next
    BY <1>0, <2>2
  <2>5. \A i \in 1..Len(batch') : Number[batch'[i]] = Number[batch'[1]] + i - 1
    <3>1. \A i \in 1..n : batch'[i] = canon[next + i - 1]
      BY <2>1
    <3>2. \A i \in 1..n : Number[batch'[i]] = next + i - 1
      BY <2>3, <3>1
    <3>3. Number[batch'[1]] = next
      BY <2>4, <3>2
    <3> QED
      BY <2>2, <3>2, <3>3
  <2> QED
    BY <1>9, <1>a, <2>5 DEF FetchFromPortal, BatchPlaced
<1>10. CASE PortalEmpty
  BY <1>10, <1>a DEF PortalEmpty, BatchPlaced
<1>11. CASE RequestSpan
  <2>1. \A i \in 1..Len(batch') : batch'[i] = None
    <3>1. Asked \in Nat \ {0} /\ batch' = [i \in 1..Asked |-> None]
      BY <1>11, AskedFacts DEF RequestSpan
    <3> QED
      BY <3>1
  <2> QED
    BY <1>11, <1>a, <2>1 DEF RequestSpan, BatchPlaced
<1>12. ASSUME NEW i \in 1..BatchSize, AnswerHeight(i)
       PROVE  EntInv'
  <2>1. /\ batch \in Seq(Hash \cup {None}) /\ i \in 1..Len(batch)
        /\ batch' = [batch EXCEPT ![i] = canon[next + i - 1]]
        /\ canon[next + i - 1] # None
        /\ next + Len(batch) - 1 <= head /\ head \in Height /\ next' = next
    BY <1>12 DEF AnswerHeight, TypeInv, TypeOK, BatchOK, locals
  <2>2. next + i - 1 \in Height
    BY <1>0, <2>1 DEF Height
  <2>3. Number[canon[next + i - 1]] = next + i - 1
    BY <2>1, <2>2, ChainLinks DEF TypeInv, TypeOK
  <2>4. /\ Len(batch') = Len(batch)
        /\ \A j \in 1..Len(batch) :
             batch'[j] # None => Number[batch'[j]] = next + j - 1
    BY <1>12, <2>1, <2>3 DEF AnswerHeight, BatchPlaced
  <2>5. CASE pc' = "fetch"
    BY <1>12, <1>a, <2>1, <2>4, <2>5 DEF AnswerHeight, BatchPlaced
  <2>6. CASE pc' = "check"
    <3>1. \A j \in 1..Len(batch) : Number[batch'[j]] = next + j - 1
      BY <1>12, <2>1, <2>4, <2>6 DEF AnswerHeight
    <3>2. 1 \in 1..Len(batch) /\ Number[batch'[1]] = next
      <4>1. 1 \in 1..Len(batch) /\ next + 1 - 1 = next
        BY <1>0, <2>1
      <4> QED
        BY <3>1, <4>1
    <3>3. BatchPlaced'
      BY <2>4, <2>6, <3>1, <3>2 DEF BatchPlaced
    <3> QED
      BY <1>12, <1>a, <2>6, <3>3 DEF AnswerHeight
  <2> QED
    BY <1>12, <2>5, <2>6 DEF AnswerHeight
<1>13. CASE LoopDone
  BY <1>13, <1>a DEF LoopDone, BatchPlaced
<1>14. CASE CompleteBackfill
  BY <1>14, <1>a DEF CompleteBackfill, BatchPlaced
<1>15. CASE FinishBackfill
  BY <1>15, HaltEnt DEF FinishBackfill, Down
<1>16. CASE DetectReorg
  BY <1>16, <1>a DEF DetectReorg, BatchPlaced
<1>17. CASE AcceptBatch
  <2>1. /\ tx'.rows = rows /\ tx'.entities = entities
        /\ tx'.written = 0 /\ tx'.recorded = 0
    BY <1>17 DEF AcceptBatch, NoTx
  <2>2. \A k \in Handlers : ~ (k <= 0)
    BY ProcessorAssumption DEF Handlers
  <2>3. TxCovers'
    BY <2>1, <2>2 DEF TxCovers, TxRow, EntitiesCoverRows
  <2> QED
    BY <1>17, <2>3 DEF AcceptBatch, EntitiesCoverRows, BatchPlaced, database
<1>18. CASE GiveUp
  BY <1>18, HaltEnt DEF GiveUp, Down
<1>19. CASE WalkDown
  BY <1>19, <1>a DEF WalkDown, BatchPlaced
<1>20. CASE Rewind
  <2>1. \A h \in Height : rows'[h] \in HasEvents => rows'[h] = rows[h]
    BY <1>0, <1>20 DEF Rewind, RollbackTo
  <2> QED
    BY <1>20, <2>1 DEF Rewind, EntitiesCoverRows, BatchPlaced, TxCovers
<1>21. CASE WriteHandler
  <2> DEFINE n == tx.written + 1
             w == Written(tx.entities[n], OnConflict[n])
  <2>1. /\ pc = "tx" /\ n \in Handlers /\ tx.written \in Nat
        /\ tx.entities \in [Handlers -> Tables]
        /\ tx' = [tx EXCEPT !.written = n, !.entities[n] = w]
        /\ UNCHANGED <<database, batch, pc>>
    BY <1>21 DEF WriteHandler, TypeInv, TypeOK
  <2>2. /\ tx'.written = n /\ tx'.rows = tx.rows /\ tx'.recorded = tx.recorded
        /\ tx'.entities = [tx.entities EXCEPT ![n] = w]
    BY <2>1 DEF TypeInv, TypeOK
  <2>3. tx.recorded = 0
    <3>1. tx.recorded \in Nat /\ n <= NHandlers
      BY <2>1 DEF Handlers, TypeInv, TypeOK
    <3> QED
      BY <2>1, <3>1, ProcessorAssumption DEF TxCovers
  <2>4. Handlers \subseteq Nat
    BY ProcessorAssumption DEF Handlers
  <2>5. \A h \in Height : Waiting(h)' <=> Waiting(h)
    BY <2>1, <2>2 DEF Waiting
  <2> HIDE DEF w, n
  <2>6. ASSUME NEW k \in Handlers, k <= n,
               NEW i \in 1..Len(batch), batch[i] \in HasEvents
        PROVE  Covers(tx'.entities[k], k, batch[i])
    <3>1. CASE k = n
      <4>1. tx'.entities[k] = w /\ w = Written(tx.entities[k], OnConflict[k])
        BY <2>1, <2>2, <3>1 DEF w
      <4> QED
        BY <2>1, <2>6, <4>1, WrittenCovers
    <3>2. CASE k # n
      <4>1. k <= tx.written
        BY <2>1, <2>4, <2>6, <3>2 DEF n
      <4> QED
        BY <2>1, <2>2, <2>6, <3>2, <4>1 DEF TxCovers
    <3> QED
      BY <3>1, <3>2
  <2>7. ASSUME NEW k \in Handlers, NEW h \in Height
        PROVE  TxRow(k, h)'
    <3>0. TxRow(k, h)
      BY <2>1 DEF TxCovers
    <3>1. CASE k = n
      <4>1. tx'.entities[k] = w /\ w = Written(tx.entities[k], OnConflict[k])
        BY <2>1, <2>2, <3>1 DEF w
      <4>2. ~ (k <= tx.written)
        BY <2>1, <3>1 DEF n
      <4>3. CASE w[h] = tx.entities[k][h]
        BY <2>2, <3>0, <4>1, <4>2, <4>3 DEF TxRow
      <4>4. CASE \E i \in 1..Len(batch) :
                   Number[batch[i]] = h /\ w[h] = batch[i] /\ w[h] \in Hash
        <5>1. Waiting(h)
          <6>1. \A i \in 1..Len(batch) : i > 0
            OBVIOUS
          <6> QED
            BY <2>3, <4>4, <6>1 DEF Waiting
        <5>2. k <= tx'.written
          BY <2>2, <2>4, <3>1
        <5> QED
          BY <1>0, <2>2, <2>5, <4>1, <4>4, <5>1, <5>2 DEF TxRow
      <4> QED
        BY <2>1, <4>1, <4>3, <4>4, WrittenRow
    <3>2. CASE k # n
      <4>1. k <= tx.written => k <= tx'.written
        BY <2>1, <2>2, <2>4 DEF n
      <4>2. tx'.entities[k] = tx.entities[k]
        BY <2>1, <2>2, <3>2
      <4> QED
        BY <2>2, <2>5, <3>0, <4>1, <4>2 DEF TxRow
    <3> QED
      BY <3>1, <3>2
  <2>8. TxCovers'
    BY <2>1, <2>2, <2>3, <2>6, <2>7 DEF TxCovers
  <2> QED
    BY <2>1, <2>8 DEF EntitiesCoverRows, BatchPlaced, database
<1>22. CASE RecordBlock
  <2> DEFINE r == tx.recorded
             b == batch[r + 1]
  <2>1. /\ pc = "tx" /\ tx.written = NHandlers /\ r < Len(batch) /\ r \in Nat
        /\ batch \in Seq(Hash) /\ tx.rows \in Tables
        /\ tx' = [tx EXCEPT !.recorded = r + 1, !.rows = SetCursor(tx.rows, b)]
        /\ UNCHANGED <<database, batch, pc>>
    BY <1>22 DEF RecordBlock, TypeInv, TypeOK, BatchOK
  <2>2. /\ tx'.written = NHandlers /\ tx'.entities = tx.entities
        /\ tx'.rows = SetCursor(tx.rows, b) /\ tx'.recorded = r + 1
    BY <2>1 DEF TypeInv, TypeOK
  <2>3. r + 1 \in 1..Len(batch) /\ b \in Hash
    BY <2>1
  <2>4. \A k \in Handlers : k <= NHandlers
    BY ProcessorAssumption DEF Handlers
  <2>5. ASSUME NEW k \in Handlers, NEW h \in Height
        PROVE  TxRow(k, h)'
    <3>0. TxRow(k, h)
      BY <2>1 DEF TxCovers
    <3>1. CASE tx'.rows[h] = None
      BY <1>0, <3>1 DEF TxRow
    <3>2. CASE h = Number[b] /\ tx'.rows[h] = b
      <4>1. b \in HasEvents => Covers(tx.entities[k], k, b)
        BY <2>1, <2>3, <2>4 DEF TxCovers
      <4> QED
        BY <2>2, <3>2, <4>1 DEF TxRow, Covers
    <3>3. CASE h # Number[b] /\ tx'.rows[h] = tx.rows[h]
      <4>1. Waiting(h) => Waiting(h)'
        <5> SUFFICES ASSUME NEW i \in 1..Len(batch), i > r, Number[batch[i]] = h
                     PROVE  i > r + 1
          BY <2>1, <2>2 DEF Waiting
        <5>1. i # r + 1
          BY <3>3
        <5> QED
          BY <2>1, <5>1
      <4> QED
        BY <2>1, <2>2, <3>0, <3>3, <4>1 DEF TxRow
    <3> QED
      BY <2>1, <2>2, <2>3, <3>1, <3>2, <3>3, SetCursorRow
  <2> HIDE DEF b, r
  <2>6. TxCovers'
    BY <2>1, <2>2, <2>5 DEF TxCovers
  <2> QED
    BY <2>1, <2>6 DEF EntitiesCoverRows, BatchPlaced, database
<1>23. CASE Commit
  <2>1. /\ pc = "tx" /\ rows' = tx.rows /\ entities' = tx.entities
        /\ tx.recorded = Len(batch) /\ pc' \in {"tip", "loop"}
    BY <1>23 DEF Commit
  <2>2. \A h \in Height : ~Waiting(h)
    BY <2>1 DEF Waiting
  <2>3. EntitiesCoverRows'
    BY <2>1, <2>2 DEF EntitiesCoverRows, TxCovers, TxRow
  <2> QED
    BY <2>1, <2>3 DEF BatchPlaced, TxCovers
<1>24. CASE Subscribe
  BY <1>24, <1>b DEF Subscribe, BatchPlaced, locals
<1>25. CASE Deliver
  <2>1. Len(batch') = 1 /\ batch'[1] = canon[sub]
    BY <1>25 DEF Deliver
  <2>2. Number[batch'[1]] \in Nat
    BY <1>0, <1>25, <2>1, ChainLinks DEF Deliver, TypeInv, TypeOK
  <2>3. \A i \in 1..Len(batch') : Number[batch'[i]] = Number[batch'[1]] + i - 1
    BY <2>1, <2>2
  <2> QED
    BY <1>25, <1>a, <2>3 DEF Deliver, BatchPlaced
<1>26. CASE UNCHANGED vars
  BY <1>26, <1>b DEF vars, BatchPlaced, database
<1> QED
  BY <1>1, <1>2, <1>3, <1>4, <1>5, <1>6, <1>7, <1>8, <1>9, <1>10, <1>11,
     <1>12, <1>13, <1>14, <1>15, <1>16, <1>17, <1>18, <1>19, <1>20, <1>21,
     <1>22, <1>23, <1>24, <1>25, <1>26
     DEF Next, Backfill, Process, Follow

\* Every block that is on record has its handler rows, by every handler, and one
\* that updates on conflict holds that very block's row.
THEOREM RowsHaveEntities == Spec => []EntitiesCoverRows
<1>1. Init => TypeInv /\ EntInv
  BY InitType, InitEnt
<1>2. TypeInv /\ EntInv /\ [Next]_vars => (TypeInv /\ EntInv)'
  BY TypeStep, EntStep
<1>3. TypeInv /\ EntInv => EntitiesCoverRows
  BY DEF EntInv
<1> QED
  BY <1>1, <1>2, <1>3, PTL DEF Spec

-----------------------------------------------------------------------------
(* EntitiesAppearWithRow.                                                  *)

\* What the open transaction has written is the batch's, and what it has recorded
\* is on record or below the window of its last block.
NewRows ==
  pc = "tx" =>
    /\ \A k \in Handlers, h \in Height :
         \/ tx.entities[k][h] = entities[k][h]
         \/ \E i \in 1..Len(batch) :
              Number[batch[i]] = h /\ tx.entities[k][h] = batch[i]
    /\ tx.recorded <= Len(batch)
    /\ \A i \in 1..tx.recorded :
         \/ tx.rows[Number[batch[i]]] = batch[i]
         \/ /\ Retention > 0
            /\ Number[batch[i]] < SatSub(Number[batch[tx.recorded]], Retention)

RowInv == TypeInv /\ EntInv /\ NewRows

LEMMA RecordNewRows ==
  ASSUME RowInv, RecordBlock
  PROVE  NewRows'
<1> DEFINE r == tx.recorded
           b == batch[r + 1]
           N(i) == Number[batch[i]]
<1>1. /\ pc = "tx" /\ r \in Nat /\ r < Len(batch) /\ batch \in Seq(Hash)
      /\ tx.rows \in Tables
      /\ tx' = [tx EXCEPT !.recorded = r + 1, !.rows = SetCursor(tx.rows, b)]
      /\ UNCHANGED <<entities, batch, pc>>
  BY DEF RecordBlock, RowInv, TypeInv, TypeOK, BatchOK, database
<1>2. /\ tx'.rows = SetCursor(tx.rows, b) /\ tx'.recorded = r + 1
      /\ tx'.entities = tx.entities
  BY <1>1 DEF RowInv, TypeInv, TypeOK
<1>3. Retention \in Nat /\ Height \subseteq Nat
  BY RetentionAssumption, BlocksAssumption DEF Height
<1>4. \A i \in 1..Len(batch) :
        batch[i] \in Hash /\ N(i) \in Height /\ N(i) = N(1) + i - 1
  BY <1>1, BlocksAssumption DEF RowInv, EntInv, BatchPlaced
<1>5. r + 1 \in 1..Len(batch) /\ 1 \in 1..Len(batch)
  BY <1>1
<1> HIDE DEF r, N
<1>6. ASSUME NEW i \in 1..(r + 1)
      PROVE  \/ tx'.rows[N(i)] = batch[i]
             \/ Retention > 0 /\ N(i) < SatSub(N(r + 1), Retention)
  <2>0. i \in 1..Len(batch) /\ i \in Nat /\ r \in Nat
    BY <1>1, <1>5
  <2>1. CASE i = r + 1
    BY <1>1, <1>2, <1>4, <1>5, <2>1, SetCursorHolds DEF N
  <2>2. CASE i # r + 1
    <3>1. i \in 1..r /\ N(i) \in Nat /\ N(i) \in Height
      <4>1. N(i) \in Height
        BY <1>4, <2>0
      <4>2. i \in 1..r
        BY <2>0, <2>2
      <4> QED
        BY <1>3, <4>1, <4>2
    <3>2. N(i) < N(r + 1) /\ N(r) <= N(r + 1) /\ N(r) \in Nat /\ N(r + 1) \in Nat
      <4>1. r \in 1..Len(batch)
        BY <1>5, <2>0, <3>1
      <4>2. N(i) = N(1) + i - 1 /\ N(r + 1) = N(1) + (r + 1) - 1
            /\ N(r) = N(1) + r - 1 /\ N(1) \in Nat
        BY <1>3, <1>4, <1>5, <2>0, <4>1
      <4> QED
        BY <2>0, <3>1, <4>2
    <3>3. SatSub(N(r), Retention) <= SatSub(N(r + 1), Retention)
      BY <1>3, <3>2 DEF SatSub
    <3>4. CASE Retention > 0 /\ N(i) < SatSub(N(r), Retention)
      <4>1. SatSub(N(r), Retention) \in Int /\ SatSub(N(r + 1), Retention) \in Int
        BY <1>3, <3>2 DEF SatSub
      <4> QED
        BY <3>1, <3>3, <3>4, <4>1
    <3>5. CASE tx.rows[N(i)] = batch[i]
      <4>1. tx'.rows[N(i)] =
              IF Retention > 0 /\ N(i) < SatSub(N(r + 1), Retention)
              THEN None ELSE tx.rows[N(i)]
        BY <1>1, <1>2, <3>1, <3>2 DEF SetCursor, Prune, N, Tables
      <4> QED
        BY <3>5, <4>1
    <3>6. \/ tx.rows[N(i)] = batch[i]
          \/ Retention > 0 /\ N(i) < SatSub(N(r), Retention)
      BY <1>1, <3>1 DEF RowInv, NewRows, N, r
    <3> QED
      BY <3>4, <3>5, <3>6
  <2> QED
    BY <2>1, <2>2
<1>7. r + 1 <= Len(batch)
  BY <1>5
<1> QED
  BY <1>1, <1>2, <1>6, <1>7 DEF RowInv, NewRows, N, r

LEMMA WriteNewRows ==
  ASSUME RowInv, WriteHandler
  PROVE  NewRows'
<1> DEFINE n == tx.written + 1
           w == Written(tx.entities[n], OnConflict[n])
<1>1. /\ pc = "tx" /\ n \in Handlers
      /\ tx.entities \in [Handlers -> Tables]
      /\ tx' = [tx EXCEPT !.written = n, !.entities[n] = w]
      /\ UNCHANGED <<entities, batch, pc>>
  BY DEF WriteHandler, RowInv, TypeInv, TypeOK, database
<1>2. /\ tx'.rows = tx.rows /\ tx'.recorded = tx.recorded
      /\ tx'.entities = [tx.entities EXCEPT ![n] = w]
  BY <1>1 DEF RowInv, TypeInv, TypeOK
<1>3. \A h \in Height :
        \/ w[h] = tx.entities[n][h]
        \/ \E i \in 1..Len(batch) : Number[batch[i]] = h /\ w[h] = batch[i]
  BY <1>1, WrittenRow DEF RowInv, EntInv
<1> HIDE DEF w, n
<1>4. ASSUME NEW k \in Handlers, NEW h \in Height
      PROVE  \/ tx'.entities[k][h] = entities[k][h]
             \/ \E i \in 1..Len(batch) :
                  Number[batch[i]] = h /\ tx'.entities[k][h] = batch[i]
  <2>1. tx'.entities[k] = IF k = n THEN w ELSE tx.entities[k]
    BY <1>1, <1>2
  <2>2. \/ tx.entities[k][h] = entities[k][h]
        \/ \E i \in 1..Len(batch) :
             Number[batch[i]] = h /\ tx.entities[k][h] = batch[i]
    BY <1>1 DEF RowInv, NewRows
  <2> QED
    BY <1>3, <2>1, <2>2
<1> QED
  BY <1>1, <1>2, <1>4 DEF RowInv, NewRows

LEMMA NewRowsStep ==
  ASSUME RowInv, [Next]_vars
  PROVE  NewRows'
<1>1. CASE AcceptBatch
  <2>1. tx'.entities = entities /\ tx'.recorded = 0 /\ UNCHANGED <<entities, batch>>
    BY <1>1 DEF AcceptBatch, NoTx, database
  <2>2. Len(batch) \in Nat
    BY DEF RowInv, TypeInv, TypeOK
  <2> QED
    BY <2>1, <2>2 DEF NewRows
<1>2. CASE WriteHandler
  BY <1>2, WriteNewRows
<1>3. CASE RecordBlock
  BY <1>3, RecordNewRows
<1>4. CASE Finalize \/ Reorg \/ UNCHANGED vars
  <2>1. UNCHANGED <<pc, tx, batch, entities>>
    BY <1>4 DEF Finalize, Reorg, vars, database
  <2> QED
    BY <2>1 DEF RowInv, NewRows
<1>5. CASE Fail \/ FinishBackfill \/ GiveUp \/ Shutdown
  BY <1>5 DEF Fail, FinishBackfill, GiveUp, Shutdown, Halt, NewRows
<1>6. CASE Restart \/ StreamError \/ ResumeHeight \/ ReadHead \/ FetchFromPortal
  BY <1>6 DEF Restart, StreamError, ResumeHeight, ReadHead, FetchFromPortal,
              NewRows
<1>7. CASE PortalEmpty \/ RequestSpan \/ LoopDone \/ CompleteBackfill
  BY <1>7 DEF PortalEmpty, RequestSpan, LoopDone, CompleteBackfill, NewRows
<1>8. CASE \E i \in 1..BatchSize : AnswerHeight(i)
  BY <1>8 DEF AnswerHeight, NewRows
<1>9. CASE DetectReorg \/ WalkDown \/ Rewind
  BY <1>9 DEF DetectReorg, WalkDown, Rewind, NewRows
<1>10. CASE Commit \/ Subscribe \/ Deliver
  BY <1>10 DEF Commit, Subscribe, Deliver, NewRows
<1> QED
  BY <1>1, <1>2, <1>3, <1>4, <1>5, <1>6, <1>7, <1>8, <1>9, <1>10
     DEF Next, Backfill, Process, Follow

\* The step of EntitiesAppearWithRow, for one row.
AppearsWithRow(k, h) ==
  entities'[k][h] # entities[k][h] =>
    \/ rows'[h] = entities'[k][h]
    \/ Retention > 0 /\ ~IsEmpty(rows') /\ h < Top(rows') - Retention

LEMMA CommitAppears ==
  ASSUME RowInv, Commit, NEW k \in Handlers, NEW h \in Height
  PROVE  AppearsWithRow(k, h)
<1> DEFINE m == Len(batch)
<1>1. /\ pc = "tx" /\ rows' = tx.rows /\ entities' = tx.entities
      /\ tx.recorded = m /\ tx.rows \in Tables /\ batch \in Seq(Hash)
      /\ m \in Nat \ {0}
  BY DEF Commit, RowInv, TypeInv, TypeOK, BatchOK
<1> SUFFICES ASSUME tx.entities[k][h] # entities[k][h]
             PROVE  \/ tx.rows[h] = tx.entities[k][h]
                    \/ /\ Retention > 0 /\ ~IsEmpty(tx.rows)
                       /\ h < Top(tx.rows) - Retention
  BY <1>1 DEF AppearsWithRow
<1>2. PICK i \in 1..m : Number[batch[i]] = h /\ tx.entities[k][h] = batch[i]
  BY <1>1 DEF RowInv, NewRows
<1>3. \A j \in 1..m : \/ tx.rows[Number[batch[j]]] = batch[j]
                      \/ /\ Retention > 0
                         /\ Number[batch[j]] < SatSub(Number[batch[m]], Retention)
  BY <1>1 DEF RowInv, NewRows
<1>4. CASE tx.rows[h] = batch[i]
  BY <1>2, <1>4
<1>5. CASE Retention > 0 /\ h < SatSub(Number[batch[m]], Retention)
  <2> DEFINE n == Number[batch[m]]
  <2>1. /\ m \in 1..m /\ batch[m] \in Hash /\ n \in Height /\ n \in Nat
        /\ Retention \in Nat /\ h \in Nat /\ None \notin Hash
    BY <1>1, BlocksAssumption, RetentionAssumption DEF Height
  <2>2. tx.rows[n] = batch[m]
    <3>1. ~ (n < SatSub(n, Retention))
      BY <2>1 DEF SatSub
    <3> QED
      BY <1>3, <2>1, <3>1
  <2>3. ~IsEmpty(tx.rows)
    BY <2>1, <2>2 DEF IsEmpty
  <2>4. Top(tx.rows) >= n /\ Top(tx.rows) \in Nat
    <3>1. IsTop(tx.rows, Top(tx.rows))
      BY <1>1, <2>3, TopExists
    <3>2. Top(tx.rows) \in Nat
      BY <3>1, BlocksAssumption DEF IsTop, Height
    <3>3. ~ (n > Top(tx.rows))
      BY <2>1, <2>2, <3>1 DEF IsTop
    <3> QED
      BY <2>1, <3>2, <3>3
  <2>5. h < n - Retention
    BY <1>5, <2>1 DEF SatSub
  <2> HIDE DEF n
  <2> QED
    BY <1>5, <2>1, <2>3, <2>4, <2>5
<1> QED
  BY <1>2, <1>3, <1>4, <1>5

\* Only a commit writes entities, and each row it shows comes with the record of
\* its block, unless that record is below the window already.
THEOREM EntitiesAppear == Spec => EntitiesAppearWithRow
<1>1. Init => RowInv
  BY InitType, InitEnt DEF RowInv, Init, NewRows
<1>2. RowInv /\ [Next]_vars => RowInv'
  BY TypeStep, EntStep, NewRowsStep DEF RowInv
<1>3. RowInv /\ [Next]_vars
        => [\A k \in Handlers, h \in Height : AppearsWithRow(k, h)]_vars
  <2> SUFFICES ASSUME RowInv, [Next]_vars, NEW k \in Handlers, NEW h \in Height
               PROVE  AppearsWithRow(k, h)
    OBVIOUS
  <2>1. CASE Commit
    BY <2>1, CommitAppears
  <2>2. CASE entities' = entities
    BY <2>2 DEF AppearsWithRow
  <2>3. Commit \/ entities' = entities
    BY DEF Next, Backfill, Process, Follow, vars, database, Finalize, Reorg, Fail,
           Halt, Restart, StreamError, Shutdown, ResumeHeight, ReadHead,
           FetchFromPortal, PortalEmpty, RequestSpan, AnswerHeight, LoopDone,
           CompleteBackfill, FinishBackfill, DetectReorg, AcceptBatch, GiveUp,
           WalkDown, Rewind, WriteHandler, RecordBlock, Subscribe, Deliver
  <2> QED
    BY <2>1, <2>2, <2>3
<1> QED
  BY <1>1, <1>2, <1>3, PTL DEF Spec, EntitiesAppearWithRow, AppearsWithRow
=============================================================================
