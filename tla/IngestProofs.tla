---------------------------- MODULE IngestProofs ----------------------------
(***************************************************************************)
(* What fetch_batch hands to the engine, for any chain, batch size, number *)
(* of requests in flight, retry budget and order of the answers.           *)
(***************************************************************************)
EXTENDS Ingest, FiniteSetTheorems, TLAPS

Heights == 0..Tip

Requests == [height : Heights, tries : 0..MaxRetries,
             state : {"asked", "answered", "error"}]

\* The blocks that one source or the other can make of the chain.
Fetchable ==
  {MapBlock(Raw(h), h, cfg) : h \in {k \in Heights : MapBlock(Raw(k), k, cfg) # None}}
    \cup
  {MapPortalBlock(PortalLine(Raw(h), h, cfg), cfg.prefix) : h \in Heights}

Types ==
  /\ chain \in Histories
  /\ cfg \in Configs
  /\ DOMAIN tables = Handlers
  /\ next \in 0..Len(chain)
  /\ pc \in Ended \cup {"loop", "rpc", "portal", "write"}
  /\ wanted \in Seq(Heights)
  /\ flying \in Seq(Requests) /\ Len(flying) <= Concurrency
  /\ tries \in 0..MaxRetries
  /\ batch \in Seq(Fetchable)
  /\ runs \in 1..MaxRuns
  /\ covered \subseteq Heights

\* Fetched, in flight and wanted are one run of heights that starts at `next`.
InOrder ==
  /\ \A i \in 1..Len(batch) :
       batch[i].number = next + i - 1
  /\ \A i \in 1..Len(flying) :
       flying[i].height = next + Len(batch) + i - 1
  /\ \A i \in 1..Len(wanted) :
       wanted[i] = next + Len(batch) + Len(flying) + i - 1

\* An answer that waits for its turn was decoded.
Answered ==
  \A i \in 1..Len(flying) : flying[i].state = "answered" =>
    MapBlock(Raw(flying[i].height), flying[i].height, cfg) # None

\* What is there at each stage of a batch.
Staged ==
  /\ pc \in Ended \cup {"loop"} => wanted = <<>> /\ flying = <<>> /\ batch = <<>>
  /\ pc = "portal" => wanted # <<>> /\ flying = <<>> /\ batch = <<>>
  /\ pc = "rpc" => wanted # <<>> \/ flying # <<>> \/ batch # <<>>
  /\ pc = "write" => wanted = <<>> /\ flying = <<>> /\ batch # <<>>

IngestInv == Types /\ InOrder /\ Answered /\ Staged

\* Both mappings keep the height.
LEMMA MapNumber ==
  ASSUME NEW raw, NEW h, NEW c, MapBlock(raw, h, c) # None
  PROVE  MapBlock(raw, h, c).number = h
BY DEF MapBlock

LEMMA PortalNumber ==
  ASSUME NEW raw, NEW h, NEW c, NEW prefix
  PROVE  MapPortalBlock(PortalLine(raw, h, c), prefix).number = h
BY DEF MapPortalBlock, PortalLine

LEMMA Numbers ==
  ASSUME Types
  PROVE  /\ Len(chain) \in Nat /\ Tip \in Int /\ next \in Nat
         /\ Heights \subseteq Nat
         /\ \A h \in Heights : h <= Tip /\ h + 1 <= Len(chain)
<1>1. Len(chain) \in Nat
  BY IngestAssumption DEF Types
<1> QED
  BY <1>1 DEF Types, Tip, Heights

\* The run is over: nothing is held any more.
LEMMA HaltStep ==
  ASSUME IngestInv, NEW outcome \in Ended, Halt(outcome)
  PROVE  IngestInv'
<1>1. Types'
  BY IngestAssumption
     DEF IngestInv, Types, Halt, Ended, Heights, Tip, Requests, Fetchable, Raw,
         database
<1> QED
  BY <1>1 DEF IngestInv, InOrder, Answered, Staged, Halt, Ended

\* The sets that the types are made of do not change while a run lasts.
LEMMA SameSets ==
  ASSUME chain' = chain, cfg' = cfg
  PROVE  /\ Heights' = Heights /\ Requests' = Requests
         /\ Fetchable' = Fetchable /\ Len(chain)' = Len(chain)
BY DEF Heights, Tip, Requests, Fetchable, Raw

LEMMA AskStep ==
  ASSUME IngestInv, AskBatch
  PROVE  IngestInv'
<1> DEFINE end == IF next + BatchSize - 1 < Tip THEN next + BatchSize - 1 ELSE Tip
           n == end - next + 1
<1>1. /\ wanted' = [i \in 1..n |-> next + i - 1]
      /\ pc' = cfg.source /\ next <= Tip /\ pc = "loop"
      /\ UNCHANGED <<chain, tables, next, covered, cfg, flying, tries, batch, runs>>
  BY DEF AskBatch, database
<1>2. next \in Nat /\ Tip \in Int /\ BatchSize \in Nat \ {0}
  BY Numbers, IngestAssumption DEF IngestInv
<1>3. n \in Nat \ {0} /\ next + n - 1 <= Tip
  BY <1>1, <1>2
<1> HIDE DEF n
<1>4. /\ wanted' \in Seq(Heights) /\ Len(wanted') = n
      /\ \A i \in 1..n : wanted'[i] = next + i - 1
  <2>1. \A i \in 1..n : next + i - 1 \in Heights
    BY <1>2, <1>3 DEF Heights
  <2> QED
    BY <1>1, <1>3, <2>1
<1>5. flying = <<>> /\ batch = <<>> /\ wanted' # <<>>
  BY <1>1, <1>3, <1>4 DEF IngestInv, Staged
<1>6. Types'
  <2>1. cfg.source \in {"rpc", "portal"}
    BY IngestAssumption DEF IngestInv, Types
  <2> QED
    BY <1>1, <1>4, <2>1, SameSets DEF IngestInv, Types
<1>7. InOrder'
  <2>1. batch' = <<>> /\ flying' = <<>> /\ next' = next
    BY <1>1, <1>5
  <2>2. Len(batch') = 0 /\ Len(flying') = 0
    BY <2>1
  <2>3. \A i \in 1..Len(wanted') :
          wanted'[i] = next' + Len(batch') + Len(flying') + i - 1
    BY <1>2, <1>3, <1>4, <2>1, <2>2
  <2> QED
    BY <2>2, <2>3 DEF InOrder
<1>8. Answered' /\ Staged'
  <2>1. cfg.source \in {"rpc", "portal"}
    BY IngestAssumption DEF IngestInv, Types
  <2> QED
    BY <1>1, <1>5, <2>1 DEF Answered, Staged, Ended
<1> QED
  BY <1>6, <1>7, <1>8 DEF IngestInv

LEMMA LaunchStep ==
  ASSUME IngestInv, Launch
  PROVE  IngestInv'
<1> DEFINE r == [height |-> Head(wanted), tries |-> 0, state |-> "asked"]
<1>1. /\ pc = "rpc" /\ wanted # <<>> /\ Len(flying) < Concurrency
      /\ flying' = Append(flying, r) /\ wanted' = Tail(wanted)
      /\ UNCHANGED <<chain, tables, next, covered, cfg, pc, tries, batch, runs>>
  BY DEF Launch, database
<1>2. /\ wanted \in Seq(Heights) /\ flying \in Seq(Requests)
      /\ next \in Nat /\ Len(batch) \in Nat /\ Concurrency \in Nat
      /\ Heights \subseteq Nat
  BY Numbers, IngestAssumption DEF IngestInv, Types
<1>3. r \in Requests /\ r.height = wanted[1] /\ r.state = "asked"
  <2>1. Head(wanted) \in Heights /\ Head(wanted) = wanted[1]
    BY <1>1, <1>2
  <2> QED
    BY <2>1, IngestAssumption DEF Requests
<1> HIDE DEF r
<1>4. /\ Len(flying') = Len(flying) + 1 /\ flying' \in Seq(Requests)
      /\ \A i \in 1..Len(flying) : flying'[i] = flying[i]
      /\ flying'[Len(flying) + 1] = r /\ Len(flying) \in Nat
  BY <1>1, <1>2, <1>3
<1>5. /\ Len(wanted') = Len(wanted) - 1 /\ wanted' \in Seq(Heights)
      /\ Len(wanted) \in Nat \ {0}
      /\ \A i \in 1..Len(wanted') : wanted'[i] = wanted[i + 1]
  BY <1>1, <1>2
<1>6. Types'
  BY <1>1, <1>2, <1>4, <1>5, SameSets DEF IngestInv, Types
<1>7. InOrder'
  <2>1. \A i \in 1..Len(flying') : flying'[i].height = next + Len(batch) + i - 1
    <3> SUFFICES ASSUME NEW i \in 1..Len(flying')
                 PROVE  flying'[i].height = next + Len(batch) + i - 1
      OBVIOUS
    <3>1. CASE i <= Len(flying)
      BY <1>4, <3>1 DEF IngestInv, InOrder
    <3>2. CASE i = Len(flying) + 1
      <4>1. wanted[1] = next + Len(batch) + Len(flying) + 1 - 1
        BY <1>5 DEF IngestInv, InOrder
      <4> QED
        BY <1>2, <1>3, <1>4, <3>2, <4>1
    <3> QED
      BY <1>4, <3>1, <3>2
  <2>2. \A i \in 1..Len(wanted') :
          wanted'[i] = next + Len(batch) + Len(flying') + i - 1
    <3> SUFFICES ASSUME NEW i \in 1..Len(wanted')
                 PROVE  wanted'[i] = next + Len(batch) + Len(flying') + i - 1
      OBVIOUS
    <3>1. i + 1 \in 1..Len(wanted) /\ i \in Nat
      BY <1>5
    <3>2. wanted[i + 1] = next + Len(batch) + Len(flying) + (i + 1) - 1
      BY <3>1 DEF IngestInv, InOrder
    <3> QED
      BY <1>2, <1>4, <1>5, <3>1, <3>2
  <2> QED
    BY <1>1, <2>1, <2>2 DEF IngestInv, InOrder
<1>8. Answered'
  <2> SUFFICES ASSUME NEW i \in 1..Len(flying'), flying'[i].state = "answered"
               PROVE  MapBlock(Raw(flying'[i].height), flying'[i].height, cfg)
                        # None
    BY <1>1 DEF Answered, Raw
  <2>1. i \in 1..Len(flying) /\ flying'[i] = flying[i]
    BY <1>3, <1>4
  <2> QED
    BY <2>1 DEF IngestInv, Answered
<1>9. Staged'
  BY <1>1, <1>4 DEF IngestInv, Staged, Ended
<1> QED
  BY <1>6, <1>7, <1>8, <1>9 DEF IngestInv

LEMMA TakeStep ==
  ASSUME IngestInv, Take
  PROVE  IngestInv'
<1> DEFINE h == flying[1].height
           b == MapBlock(Raw(h), h, cfg)
<1>1. /\ pc = "rpc" /\ flying # <<>> /\ flying[1].state = "answered"
      /\ batch' = Append(batch, b) /\ flying' = Tail(flying)
      /\ UNCHANGED <<chain, tables, next, covered, cfg, pc, wanted, tries, runs>>
  BY DEF Take, database
<1>2. /\ flying \in Seq(Requests) /\ batch \in Seq(Fetchable)
      /\ next \in Nat /\ Heights \subseteq Nat /\ Concurrency \in Nat
      /\ Len(wanted) \in Nat /\ Len(flying) <= Concurrency
  BY Numbers, IngestAssumption DEF IngestInv, Types
<1>3. 1 \in 1..Len(flying) /\ h \in Heights
  <2>1. 1 \in 1..Len(flying)
    BY <1>1, <1>2
  <2>2. flying[1] \in Requests
    BY <1>2, <2>1
  <2> QED
    BY <2>1, <2>2 DEF Requests
<1>4. b # None /\ b.number = h /\ b \in Fetchable
  <2>1. b # None
    BY <1>1, <1>3 DEF IngestInv, Answered
  <2> QED
    BY <1>3, <2>1, MapNumber DEF Fetchable
<1>5. h = next + Len(batch)
  <2>1. flying[1].height = next + Len(batch) + 1 - 1
    BY <1>3 DEF IngestInv, InOrder
  <2> QED
    BY <1>2, <2>1
<1> HIDE DEF b, h
<1>6. /\ Len(batch') = Len(batch) + 1 /\ batch' \in Seq(Fetchable)
      /\ \A i \in 1..Len(batch) : batch'[i] = batch[i]
      /\ batch'[Len(batch) + 1] = b /\ Len(batch) \in Nat
  BY <1>1, <1>2, <1>4
<1>7. /\ Len(flying') = Len(flying) - 1 /\ flying' \in Seq(Requests)
      /\ Len(flying) \in Nat \ {0}
      /\ \A i \in 1..Len(flying') : flying'[i] = flying[i + 1]
  BY <1>1, <1>2
<1>8. Types'
  BY <1>1, <1>2, <1>6, <1>7, SameSets DEF IngestInv, Types
<1>9. InOrder'
  <2>1. ASSUME NEW i \in 1..Len(batch')
        PROVE  batch'[i].number = next + i - 1
    <3>1. CASE i <= Len(batch)
      BY <1>6, <3>1 DEF IngestInv, InOrder
    <3>2. CASE i = Len(batch) + 1
      BY <1>2, <1>4, <1>5, <1>6, <3>2
    <3> QED
      BY <1>6, <3>1, <3>2
  <2>2. ASSUME NEW i \in 1..Len(flying')
        PROVE  flying'[i].height = next + Len(batch') + i - 1
    <3>1. i + 1 \in 1..Len(flying) /\ i \in Nat
      BY <1>7
    <3>2. flying[i + 1].height = next + Len(batch) + (i + 1) - 1
      BY <3>1 DEF IngestInv, InOrder
    <3> QED
      BY <1>2, <1>6, <1>7, <3>1, <3>2
  <2>3. ASSUME NEW i \in 1..Len(wanted)
        PROVE  wanted[i] = next + Len(batch') + Len(flying') + i - 1
    <3>1. wanted[i] = next + Len(batch) + Len(flying) + i - 1
      BY DEF IngestInv, InOrder
    <3> QED
      BY <1>2, <1>6, <1>7, <3>1
  <2> QED
    BY <1>1, <2>1, <2>2, <2>3 DEF InOrder
<1>10. Answered'
  <2> SUFFICES ASSUME NEW i \in 1..Len(flying'), flying'[i].state = "answered"
               PROVE  MapBlock(Raw(flying'[i].height), flying'[i].height, cfg)
                        # None
    BY <1>1 DEF Answered, Raw
  <2>1. i + 1 \in 1..Len(flying) /\ flying'[i] = flying[i + 1]
    BY <1>7
  <2> QED
    BY <2>1 DEF IngestInv, Answered
<1>11. Staged'
  <2>1. batch' # <<>>
    BY <1>6
  <2> QED
    BY <1>1, <2>1 DEF Staged, Ended
<1> QED
  BY <1>8, <1>9, <1>10, <1>11 DEF IngestInv

\* A request of the pipeline changes its state or its number of retries only.
LEMMA FlyingStep ==
  ASSUME IngestInv, pc = "rpc", NEW i \in DOMAIN flying, NEW r \in Requests,
         flying' = [flying EXCEPT ![i] = r], r.height = flying[i].height,
         r.state = "answered" => MapBlock(Raw(r.height), r.height, cfg) # None,
         UNCHANGED <<chain, database, cfg, pc, wanted, tries, batch, runs>>
  PROVE  IngestInv'
<1>1. flying \in Seq(Requests) /\ i \in 1..Len(flying)
  BY DEF IngestInv, Types
<1>2. /\ flying' \in Seq(Requests) /\ Len(flying') = Len(flying)
      /\ \A j \in 1..Len(flying) : flying'[j] = IF j = i THEN r ELSE flying[j]
  BY <1>1
<1>3. Types'
  BY <1>2, SameSets DEF IngestInv, Types, database
<1>4. InOrder'
  <2>1. \A j \in 1..Len(flying) : flying'[j].height = flying[j].height
    BY <1>2
  <2> QED
    BY <1>2, <2>1 DEF IngestInv, InOrder, database
<1>5. Answered'
  BY <1>2 DEF IngestInv, Answered, Raw
<1>6. Staged'
  <2>1. flying' # <<>>
    BY <1>1, <1>2
  <2> QED
    BY <2>1 DEF Staged, Ended
<1> QED
  BY <1>3, <1>4, <1>5, <1>6 DEF IngestInv

LEMMA AnswerStep ==
  ASSUME IngestInv, NEW i \in DOMAIN flying, Answer(i) \/ RequestFails(i)
  PROVE  IngestInv'
<1>1. flying \in Seq(Requests) /\ flying[i] \in Requests /\ MaxRetries \in Nat
  BY IngestAssumption DEF IngestInv, Types
<1>2. CASE Answer(i)
  <2> DEFINE h == flying[i].height
             s == IF MapBlock(Raw(h), h, cfg) = None THEN "error" ELSE "answered"
             r == [flying[i] EXCEPT !.state = s]
  <2>1. /\ r \in Requests /\ r.height = h
        /\ r.state = "answered" => MapBlock(Raw(h), h, cfg) # None
    BY <1>1 DEF Requests
  <2>2. /\ flying' = [flying EXCEPT ![i] = r] /\ pc = "rpc"
        /\ UNCHANGED <<chain, database, cfg, pc, wanted, tries, batch, runs>>
    BY <1>2 DEF Answer
  <2> HIDE DEF r
  <2> QED
    BY <2>1, <2>2, FlyingStep
<1>3. CASE RequestFails(i)
  <2> DEFINE r == IF flying[i].tries < MaxRetries
                  THEN [flying[i] EXCEPT !.tries = @ + 1]
                  ELSE [flying[i] EXCEPT !.state = "error"]
  <2>1. /\ r \in Requests /\ r.height = flying[i].height
    BY <1>1 DEF Requests
  <2>2. r.state # "answered"
    BY <1>1, <1>3 DEF RequestFails, Requests
  <2>3. flying' = [flying EXCEPT ![i] = r]
    <3>1. CASE flying[i].tries < MaxRetries
      BY <1>3, <3>1 DEF RequestFails
    <3>2. CASE ~ (flying[i].tries < MaxRetries)
      BY <1>3, <3>2 DEF RequestFails
    <3> QED
      BY <3>1, <3>2
  <2>4. /\ pc = "rpc"
        /\ UNCHANGED <<chain, database, cfg, pc, wanted, tries, batch, runs>>
    BY <1>3 DEF RequestFails
  <2> HIDE DEF r
  <2> QED
    BY <2>1, <2>2, <2>3, <2>4, FlyingStep
<1> QED
  BY <1>2, <1>3

LEMMA PortalStep ==
  ASSUME IngestInv, PortalAnswers
  PROVE  IngestInv'
<1> DEFINE b(i) == MapPortalBlock(PortalLine(Raw(wanted[i]), wanted[i], cfg),
                                  cfg.prefix)
<1>1. PICK n \in 1..Len(wanted) : batch' = [i \in 1..n |-> b(i)]
  BY DEF PortalAnswers
<1>2. /\ pc = "portal" /\ pc' = "write" /\ wanted' = <<>> /\ tries' = 0
      /\ UNCHANGED <<chain, tables, next, covered, cfg, flying, runs>>
  BY DEF PortalAnswers, database
<1>3. /\ wanted \in Seq(Heights) /\ n \in Nat \ {0} /\ n <= Len(wanted)
      /\ next \in Nat /\ MaxRetries \in Nat
  BY <1>1, Numbers, IngestAssumption DEF IngestInv, Types
<1>4. flying = <<>> /\ batch = <<>>
  BY <1>2 DEF IngestInv, Staged
<1>5. \A i \in 1..n : wanted[i] \in Heights /\ wanted[i] = next + i - 1
  <2>1. Len(batch) = 0 /\ Len(flying) = 0
    BY <1>4
  <2> SUFFICES ASSUME NEW i \in 1..n
               PROVE  wanted[i] \in Heights /\ wanted[i] = next + i - 1
    OBVIOUS
  <2>2. i \in 1..Len(wanted) /\ i \in Nat
    BY <1>3
  <2>3. wanted[i] = next + Len(batch) + Len(flying) + i - 1
    BY <2>2 DEF IngestInv, InOrder
  <2> QED
    BY <1>3, <2>1, <2>2, <2>3
<1>6. \A i \in 1..n : b(i) \in Fetchable /\ b(i).number = next + i - 1
  BY <1>5, PortalNumber DEF Fetchable
<1> HIDE DEF b
<1>7. /\ batch' \in Seq(Fetchable) /\ Len(batch') = n /\ batch' # <<>>
      /\ \A i \in 1..n : batch'[i] = b(i)
  BY <1>1, <1>3, <1>6
<1>8. Types'
  BY <1>2, <1>3, <1>4, <1>7, SameSets DEF IngestInv, Types
<1>9. InOrder'
  <2>1. flying' = <<>> /\ wanted' = <<>> /\ next' = next
    BY <1>2, <1>4
  <2>2. Len(flying') = 0 /\ Len(wanted') = 0
    BY <2>1
  <2>3. \A i \in 1..n : batch'[i].number = next + i - 1
    BY <1>6, <1>7
  <2> QED
    BY <1>7, <2>1, <2>2, <2>3 DEF InOrder
<1>10. Answered' /\ Staged'
  BY <1>2, <1>4, <1>7 DEF Answered, Staged, Ended
<1> QED
  BY <1>8, <1>9, <1>10 DEF IngestInv

LEMMA WriteStep ==
  ASSUME IngestInv, Write
  PROVE  IngestInv'
<1>1. /\ pc = "write" /\ pc' = "loop" /\ batch' = <<>>
      /\ tables' = [k \in Handlers |-> Inserted(k)]
      /\ next' = batch[Len(batch)].number + 1
      /\ covered' = IF cfg.events
                    THEN covered \cup {batch[i].number : i \in DOMAIN batch}
                    ELSE covered
      /\ UNCHANGED <<chain, cfg, wanted, flying, tries, runs>>
  BY DEF Write
<1>2. wanted = <<>> /\ flying = <<>> /\ batch # <<>> /\ batch \in Seq(Fetchable)
  BY <1>1 DEF IngestInv, Staged, Types
<1>3. \A i \in DOMAIN batch : batch[i].number \in Heights
  <2> SUFFICES ASSUME NEW i \in 1..Len(batch)
               PROVE  batch[i].number \in Heights
    BY <1>2
  <2>1. batch[i] \in Fetchable
    BY <1>2
  <2>2. CASE \E h \in Heights : /\ MapBlock(Raw(h), h, cfg) # None
                               /\ batch[i] = MapBlock(Raw(h), h, cfg)
    BY <2>1, <2>2, MapNumber
  <2>3. CASE \E h \in Heights :
               batch[i] = MapPortalBlock(PortalLine(Raw(h), h, cfg), cfg.prefix)
    BY <2>3, PortalNumber
  <2> QED
    BY <2>1, <2>2, <2>3 DEF Fetchable
<1>4. next' \in 0..Len(chain)
  <2>1. Len(batch) \in DOMAIN batch
    BY <1>2
  <2>2. batch[Len(batch)].number \in Heights
    BY <1>3, <2>1
  <2> QED
    BY <1>1, <2>2, Numbers DEF IngestInv
<1>5. Types'
  <2>1. covered' \subseteq Heights
    BY <1>1, <1>3 DEF IngestInv, Types
  <2>2. batch' \in Seq(Fetchable) /\ DOMAIN tables' = Handlers
    BY <1>1
  <2> QED
    BY <1>1, <1>4, <2>1, <2>2, SameSets DEF IngestInv, Types
<1>6. InOrder' /\ Answered' /\ Staged'
  BY <1>1, <1>2 DEF InOrder, Answered, Staged, Ended
<1> QED
  BY <1>5, <1>6 DEF IngestInv

LEMMA IngestStep ==
  ASSUME IngestInv, [Next]_vars
  PROVE  IngestInv'
<1>1. CASE AskBatch \/ Launch \/ Take \/ PortalAnswers \/ Write
  BY <1>1, AskStep, LaunchStep, TakeStep, PortalStep, WriteStep
<1>2. CASE \E i \in DOMAIN flying : Answer(i) \/ RequestFails(i)
  BY <1>2, AnswerStep
<1>3. CASE \/ LoopDone \/ BatchFails \/ PortalEmpty \/ PortalGivesUp
           \/ WriteFails \/ Crash
  BY <1>3, HaltStep
     DEF LoopDone, BatchFails, PortalEmpty, PortalGivesUp, WriteFails, Crash, Ended
<1>4. CASE Collected
  <2>1. Types'
    BY <1>4, SameSets DEF Collected, IngestInv, Types, database, fetch
  <2> QED
    BY <1>4, <2>1
       DEF Collected, IngestInv, InOrder, Answered, Staged, Raw, database, fetch,
           Ended
<1>5. CASE PortalFails
  <2>1. Types'
    <3>1. tries' \in 0..MaxRetries
      BY <1>5, IngestAssumption DEF PortalFails, IngestInv, Types
    <3> QED
      BY <1>5, <3>1, SameSets DEF PortalFails, IngestInv, Types, database
  <2> QED
    BY <1>5, <2>1
       DEF PortalFails, IngestInv, InOrder, Answered, Staged, Raw, database
<1>6. CASE Restart
  <2>1. /\ wanted = <<>> /\ flying = <<>> /\ batch = <<>>
        /\ chain' = chain /\ pc' = "loop" /\ UNCHANGED fetch
    BY <1>6 DEF Restart, IngestInv, Staged, Ended
  <2>2. Types'
    <3>1. runs' \in 1..MaxRuns
      BY <1>6, IngestAssumption DEF Restart, IngestInv, Types
    <3>2. next' \in 0..Len(chain)
      BY <1>6, Numbers DEF Restart, IngestInv, Types
    <3>3. Heights' = Heights /\ Requests' = Requests /\ Len(chain') = Len(chain)
      BY <2>1 DEF Heights, Tip, Requests
    <3>4. batch' \in Seq(Fetchable')
      BY <2>1 DEF fetch
    <3> QED
      BY <1>6, <3>1, <3>2, <3>3, <3>4
         DEF Restart, IngestInv, Types, fetch
  <2> QED
    BY <2>1, <2>2 DEF IngestInv, InOrder, Answered, Staged, fetch, Ended
<1>7. CASE UNCHANGED vars
  <2>1. Types'
    BY <1>7, SameSets DEF vars, IngestInv, Types
  <2> QED
    BY <1>7, <2>1 DEF vars, IngestInv, InOrder, Answered, Staged, Raw
<1> QED
  BY <1>1, <1>2, <1>3, <1>4, <1>5, <1>6, <1>7 DEF Next, Step

LEMMA IngestInit == Init => IngestInv
<1> SUFFICES ASSUME Init PROVE IngestInv
  OBVIOUS
<1>1. Len(chain) \in Nat
  BY IngestAssumption DEF Init
<1>2. Types
  BY <1>1, IngestAssumption DEF Init, Types
<1> QED
  BY <1>2 DEF Init, IngestInv, InOrder, Answered, Staged, Ended

\* Retries, requests in flight, cursor and covered heights stay within their
\* bounds.
THEOREM TypeCorrect == Spec => []TypeOK
<1>1. IngestInv => TypeOK
  <2> SUFFICES ASSUME IngestInv PROVE TypeOK
    OBVIOUS
  <2>1. \A i \in DOMAIN flying : flying[i].tries \in 0..MaxRetries
    <3>1. flying \in Seq(Requests)
      BY DEF IngestInv, Types
    <3>2. \A i \in DOMAIN flying : flying[i] \in Requests
      BY <3>1
    <3> QED
      BY <3>2 DEF Requests
  <2> QED
    BY <2>1 DEF IngestInv, Types, TypeOK, Heights
<1> QED
  BY <1>1, IngestInit, IngestStep, PTL DEF Spec

\* Whatever the batch size, the number of requests in flight, the order of their
\* answers and the failures on the way, the handlers get a hole-free run of blocks
\* that begins where the cursor is.
THEOREM RunsOnly == Spec => []BatchesAreRuns
<1>1. IngestInv => BatchesAreRuns
  <2> SUFFICES ASSUME IngestInv, pc = "write"
               PROVE  batch # <<>> /\ \A i \in DOMAIN batch : batch[i].number = next + i - 1
    BY DEF BatchesAreRuns
  <2>1. batch # <<>>
    BY DEF IngestInv, Staged
  <2>2. DOMAIN batch = 1..Len(batch)
    <3>1. batch \in Seq(Fetchable)
      BY DEF IngestInv, Types
    <3> QED
      BY <3>1
  <2>3. \A i \in 1..Len(batch) : batch[i].number = next + i - 1
    BY DEF IngestInv, InOrder
  <2> QED
    BY <2>1, <2>2, <2>3
<1> QED
  BY <1>1, IngestInit, IngestStep, PTL DEF Spec

-----------------------------------------------------------------------------
(* One row per event.                                                      *)

\* Where the events stand that a handler watches, in the blocks of these heights.
EventKeys(k, H) ==
  UNION {{<<h, i - 1>> : i \in {j \in DOMAIN Raw(h).events :
            <<Raw(h).events[j].pallet, Raw(h).events[j].name>> \in Watched[k]}} :
           h \in H}

\* A handler has a row for each of them and no two for one.
RowPerKey ==
  \A k \in Handlers :
    /\ {<<r.height, r.index>> : r \in tables[k]} = EventKeys(k, covered)
    /\ \A r, s \in tables[k] : SameKey(r, s) => r = s

\* b is what a source makes of the block at height h.
Fetched(b, h) ==
  \/ b = MapBlock(Raw(h), h, cfg) /\ b # None
  \/ b = MapPortalBlock(PortalLine(Raw(h), h, cfg), cfg.prefix)

\* The parts of a raw block are sequences.
LEMMA RawFacts ==
  ASSUME Types, NEW h \in Heights
  PROVE  /\ h + 1 \in 1..Len(chain)
         /\ IsSequence(Raw(h).events) /\ IsSequence(Raw(h).extrinsics)
         /\ IsRawBlock(Raw(h))
<1>1. h + 1 \in 1..Len(chain)
  BY Numbers
<1> QED
  BY <1>1, IngestAssumption DEF Types, Raw, IsRawBlock

LEMMA ConfigFacts ==
  ASSUME Types
  PROVE  /\ DOMAIN cfg = {"source", "events", "extrinsics", "strict", "prefix"}
         /\ cfg.events \in BOOLEAN /\ cfg.extrinsics \in BOOLEAN
         /\ cfg.strict \in BOOLEAN
BY IngestAssumption DEF Types

\* Every block of a batch was made of the chain's block at its height.
LEMMA BatchFetched ==
  ASSUME Types, NEW i \in DOMAIN batch
  PROVE  batch[i].number \in Heights /\ Fetched(batch[i], batch[i].number)
<1>1. batch[i] \in Fetchable
  BY DEF Types
<1>2. CASE \E h \in Heights : /\ MapBlock(Raw(h), h, cfg) # None
                             /\ batch[i] = MapBlock(Raw(h), h, cfg)
  BY <1>2, MapNumber DEF Fetched
<1>3. CASE \E h \in Heights :
             batch[i] = MapPortalBlock(PortalLine(Raw(h), h, cfg), cfg.prefix)
  BY <1>3, PortalNumber DEF Fetched
<1> QED
  BY <1>1, <1>2, <1>3 DEF Fetchable

\* Either source keeps the place and the name of every event it was asked for.
LEMMA FetchedEvents ==
  ASSUME Types, NEW h \in Heights, NEW b, Fetched(b, h)
  PROVE  LET evs == IF cfg.events THEN Raw(h).events ELSE <<>>
         IN  /\ b.number = h /\ DOMAIN b.events = DOMAIN evs
             /\ \A j \in DOMAIN evs :
                  /\ b.events[j].index = j - 1
                  /\ b.events[j].pallet = evs[j].pallet
                  /\ b.events[j].name = evs[j].name
<1> DEFINE evs == IF cfg.events THEN Raw(h).events ELSE <<>>
<1>1. CASE b = MapBlock(Raw(h), h, cfg) /\ b # None
  <2>1. b.number = h /\ b.events = MapEvents(evs, cfg.strict)
    BY <1>1 DEF MapBlock
  <2> QED
    BY <2>1 DEF MapEvents
<1>2. CASE b = MapPortalBlock(PortalLine(Raw(h), h, cfg), cfg.prefix)
  <2> DEFINE line == PortalLine(Raw(h), h, cfg)
  <2>1. /\ DOMAIN line.events = DOMAIN evs
        /\ \A j \in DOMAIN evs : line.events[j].name = <<evs[j].pallet, evs[j].name>>
    <3>1. CASE cfg.events
      BY <3>1 DEF PortalLine
    <3>2. CASE ~cfg.events
      BY <3>2 DEF PortalLine
    <3> QED
      BY <3>1, <3>2, ConfigFacts
  <2>2. b.number = h
    BY <1>2, PortalNumber
  <2> HIDE DEF line, evs
  <2>3. /\ DOMAIN b.events = DOMAIN line.events
        /\ \A j \in DOMAIN line.events : /\ b.events[j].index = EventIndex(j)
                                        /\ b.events[j].pallet = line.events[j].name[1]
                                        /\ b.events[j].name = line.events[j].name[2]
    BY <1>2 DEF MapPortalBlock, line
  <2> QED
    BY <2>1, <2>2, <2>3 DEF EventIndex, evs
<1> QED
  BY <1>1, <1>2 DEF Fetched

\* The rows of one block: one for each watched event, if events were asked for.
LEMMA BlockRows ==
  ASSUME Types, NEW h \in Heights, NEW b, Fetched(b, h), NEW k \in Handlers
  PROVE  /\ \A r \in RowsOf(k, b) : /\ r.height = h
                                  /\ <<r.height, r.index>> \in EventKeys(k, {h})
                                  /\ cfg.events
         /\ cfg.events => \A key \in EventKeys(k, {h}) :
                           \E r \in RowsOf(k, b) : <<r.height, r.index>> = key
         /\ \A r, s \in RowsOf(k, b) : r.index = s.index => r = s
<1> DEFINE evs == IF cfg.events THEN Raw(h).events ELSE <<>>
           Seen(j) == <<evs[j].pallet, evs[j].name>> \in Watched[k]
           Row(j) == [height |-> b.number, index |-> b.events[j].index,
                      name |-> b.events[j].name,
                      columns |-> [c \in DOMAIN Columns[k] |->
                         ReadColumn(b.events[j].fields, c, Columns[k][c])]]
<1>1. /\ b.number = h /\ DOMAIN b.events = DOMAIN evs
      /\ \A j \in DOMAIN evs : /\ b.events[j].index = j - 1
                             /\ b.events[j].pallet = evs[j].pallet
                             /\ b.events[j].name = evs[j].name
  BY FetchedEvents
<1>2. RowsOf(k, b) = {Row(j) : j \in {i \in DOMAIN evs : Seen(i)}}
  <2>1. ToSet(b.events) = {b.events[j] : j \in DOMAIN evs}
    BY <1>1 DEF ToSet
  <2> HIDE DEF evs
  <2>2. ASSUME NEW r \in RowsOf(k, b)
        PROVE  \E j \in {i \in DOMAIN evs : Seen(i)} : r = Row(j)
    <3>1. PICK e \in ToSet(b.events) :
            /\ <<e.pallet, e.name>> \in Watched[k]
            /\ r = [height |-> b.number, index |-> e.index, name |-> e.name,
                    columns |-> [c \in DOMAIN Columns[k] |->
                                   ReadColumn(e.fields, c, Columns[k][c])]]
      BY DEF RowsOf
    <3>2. PICK j \in DOMAIN evs : e = b.events[j]
      BY <2>1
    <3> QED
      BY <1>1, <3>1, <3>2
  <2>3. ASSUME NEW j \in DOMAIN evs, Seen(j)
        PROVE  Row(j) \in RowsOf(k, b)
    <3>1. /\ b.events[j] \in ToSet(b.events)
          /\ <<b.events[j].pallet, b.events[j].name>> \in Watched[k]
      BY <1>1, <2>1, <2>3
    <3> QED
      BY <3>1 DEF RowsOf
  <2> HIDE DEF Row, Seen
  <2> QED
    BY <2>2, <2>3
<1>3. /\ \A j \in DOMAIN evs : Row(j).height = h /\ Row(j).index = j - 1
      /\ DOMAIN evs \subseteq Nat
  <2>1. DOMAIN evs \subseteq Nat
    BY RawFacts, ConfigFacts DEF IsSequence
  <2> HIDE DEF evs
  <2> QED
    BY <1>1, <2>1
<1>4. cfg.events => EventKeys(k, {h}) = {<<h, j - 1>> : j \in {i \in DOMAIN evs : Seen(i)}}
  BY DEF EventKeys
<1>5. ~cfg.events => DOMAIN evs = {}
  OBVIOUS
<1> HIDE DEF evs, Row, Seen
<1>6. ASSUME NEW r \in RowsOf(k, b)
      PROVE  r.height = h /\ <<r.height, r.index>> \in EventKeys(k, {h}) /\ cfg.events
  <2>1. PICK j \in DOMAIN evs : Seen(j) /\ r = Row(j)
    BY <1>2
  <2>2. cfg.events /\ r.height = h /\ r.index = j - 1
    BY <1>3, <1>5, <2>1
  <2> QED
    BY <1>4, <2>1, <2>2
<1>7. ASSUME cfg.events, NEW key \in EventKeys(k, {h})
      PROVE  \E r \in RowsOf(k, b) : <<r.height, r.index>> = key
  <2>1. PICK j \in DOMAIN evs : Seen(j) /\ key = <<h, j - 1>>
    BY <1>4, <1>7
  <2>2. Row(j) \in RowsOf(k, b) /\ Row(j).height = h /\ Row(j).index = j - 1
    BY <1>2, <1>3, <2>1
  <2> QED
    BY <2>1, <2>2
<1>8. ASSUME NEW r \in RowsOf(k, b), NEW s \in RowsOf(k, b), r.index = s.index
      PROVE  r = s
  <2>1. PICK i \in DOMAIN evs : r = Row(i)
    BY <1>2
  <2>2. PICK j \in DOMAIN evs : s = Row(j)
    BY <1>2
  <2>3. i - 1 = j - 1 /\ i \in Nat /\ j \in Nat
    BY <1>3, <1>8, <2>1, <2>2
  <2> QED
    BY <2>1, <2>2, <2>3
<1> QED
  BY <1>6, <1>7, <1>8

\* The rows of a batch.
LEMMA BatchRowFacts ==
  ASSUME IngestInv, NEW k \in Handlers
  PROVE  LET H == {batch[i].number : i \in DOMAIN batch}
         IN  /\ {<<r.height, r.index>> : r \in BatchRows(k)} =
                  IF cfg.events THEN EventKeys(k, H) ELSE {}
             /\ \A r, s \in BatchRows(k) : SameKey(r, s) => r = s
<1> DEFINE H == {batch[i].number : i \in DOMAIN batch}
<1>1. \A i \in DOMAIN batch : /\ batch[i].number \in Heights
                            /\ Fetched(batch[i], batch[i].number)
  BY BatchFetched DEF IngestInv
<1>2. EventKeys(k, H) = UNION {EventKeys(k, {h}) : h \in H}
  BY DEF EventKeys
<1>3. ASSUME NEW r \in BatchRows(k)
      PROVE  /\ cfg.events /\ <<r.height, r.index>> \in EventKeys(k, H)
             /\ \A i \in DOMAIN batch : r.height = batch[i].number => r \in RowsOf(k, batch[i])
  <2>1. PICK i \in DOMAIN batch : r \in RowsOf(k, batch[i])
    BY DEF BatchRows
  <2>2. /\ r.height = batch[i].number /\ cfg.events
        /\ <<r.height, r.index>> \in EventKeys(k, {batch[i].number})
    BY <1>1, <2>1, BlockRows DEF IngestInv
  <2>3. ASSUME NEW j \in DOMAIN batch, batch[i].number = batch[j].number
        PROVE  i = j
    <3>1. DOMAIN batch = 1..Len(batch) /\ next \in Nat
      BY Numbers DEF IngestInv, Types
    <3>2. batch[i].number = next + i - 1 /\ batch[j].number = next + j - 1
      BY <3>1 DEF IngestInv, InOrder
    <3>3. i \in Nat /\ j \in Nat
      BY <3>1
    <3>4. next + i - 1 = next + j - 1
      BY <2>3, <3>2
    <3> QED
      BY <3>1, <3>3, <3>4
  <2> QED
    BY <1>2, <2>1, <2>2, <2>3
<1>4. ASSUME cfg.events, NEW key \in EventKeys(k, H)
      PROVE  \E r \in BatchRows(k) : <<r.height, r.index>> = key
  <2>1. PICK i \in DOMAIN batch : key \in EventKeys(k, {batch[i].number})
    BY <1>2
  <2>0. /\ batch[i].number \in Heights /\ Fetched(batch[i], batch[i].number) /\ Types
    BY <1>1 DEF IngestInv
  <2>3. \A x \in EventKeys(k, {batch[i].number}) :
          \E r \in RowsOf(k, batch[i]) : <<r.height, r.index>> = x
    BY <1>4, <2>0, BlockRows
  <2>2. \E r \in RowsOf(k, batch[i]) : <<r.height, r.index>> = key
    BY <2>1, <2>3
  <2> QED
    BY <2>2 DEF BatchRows
<1>5. ASSUME NEW r \in BatchRows(k), NEW s \in BatchRows(k), SameKey(r, s)
      PROVE  r = s
  <2>1. PICK i \in DOMAIN batch : r \in RowsOf(k, batch[i])
    BY DEF BatchRows
  <2>2. r.height = batch[i].number
    BY <1>1, <2>1, BlockRows DEF IngestInv
  <2>3. s \in RowsOf(k, batch[i])
    BY <1>3, <1>5, <2>2 DEF SameKey
  <2> QED
    <3>1. /\ batch[i].number \in Heights /\ Fetched(batch[i], batch[i].number) /\ Types
      BY <1>1 DEF IngestInv
    <3>2. \A x, y \in RowsOf(k, batch[i]) : x.index = y.index => x = y
      BY <3>1, BlockRows
    <3> QED
      BY <1>5, <2>1, <2>3, <3>2 DEF SameKey
<1>6. {<<r.height, r.index>> : r \in BatchRows(k)} =
        IF cfg.events THEN EventKeys(k, H) ELSE {}
  BY <1>3, <1>4
<1> QED
  BY <1>5, <1>6

\* What ON CONFLICT DO NOTHING leaves after a batch.
LEMMA WriteRows ==
  ASSUME IngestInv, RowPerKey, Write
  PROVE  RowPerKey'
<1>1. /\ tables' = [k \in Handlers |-> Inserted(k)] /\ chain' = chain
      /\ covered' = IF cfg.events
                    THEN covered \cup {batch[i].number : i \in DOMAIN batch}
                    ELSE covered
  BY DEF Write
<1> SUFFICES ASSUME NEW k \in Handlers
             PROVE  /\ {<<r.height, r.index>> : r \in tables'[k]} = EventKeys(k, covered')
                    /\ \A r, s \in tables'[k] : SameKey(r, s) => r = s
  <2>1. \A k \in Handlers : EventKeys(k, covered)' = EventKeys(k, covered')
    BY <1>1 DEF EventKeys, Raw
  <2> QED
    BY <2>1 DEF RowPerKey, SameKey
<1> DEFINE H == {batch[i].number : i \in DOMAIN batch}
<1>2. tables'[k] = tables[k] \cup
        {r \in BatchRows(k) : \A s \in tables[k] : ~SameKey(r, s)}
  BY <1>1 DEF Inserted
<1>3. /\ {<<r.height, r.index>> : r \in tables[k]} = EventKeys(k, covered)
      /\ \A r, s \in tables[k] : SameKey(r, s) => r = s
  BY DEF RowPerKey
<1>4. /\ {<<r.height, r.index>> : r \in BatchRows(k)} =
           IF cfg.events THEN EventKeys(k, H) ELSE {}
      /\ \A r, s \in BatchRows(k) : SameKey(r, s) => r = s
  BY BatchRowFacts
<1>5. {<<r.height, r.index>> : r \in tables'[k]} =
        {<<r.height, r.index>> : r \in tables[k]} \cup
        {<<r.height, r.index>> : r \in BatchRows(k)}
  BY <1>2 DEF SameKey
<1>6. EventKeys(k, covered') = IF cfg.events
                               THEN EventKeys(k, covered) \cup EventKeys(k, H)
                               ELSE EventKeys(k, covered)
  BY <1>1, ConfigFacts DEF EventKeys, IngestInv
<1>7. \A r, s \in tables'[k] : SameKey(r, s) => r = s
  BY <1>2, <1>3, <1>4 DEF SameKey
<1> QED
  BY <1>3, <1>4, <1>5, <1>6, <1>7

LEMMA RowsStep ==
  ASSUME IngestInv, RowPerKey, [Next]_vars
  PROVE  RowPerKey'
<1>1. CASE Write
  BY <1>1, WriteRows
<1>2. CASE UNCHANGED <<chain, tables, covered>>
  BY <1>2 DEF RowPerKey, EventKeys, Raw, SameKey
<1>3. UNCHANGED <<chain, tables, covered>> \/ Write
  BY DEF Next, Step, vars, database, Halt, AskBatch, LoopDone, Launch, Take, BatchFails,
         Collected, Answer, RequestFails, PortalAnswers, PortalEmpty, PortalFails,
         PortalGivesUp, WriteFails, Crash, Restart
<1> QED
  BY <1>1, <1>2, <1>3

LEMMA ImageFinite ==
  ASSUME NEW S, IsFiniteSet(S), NEW f
  PROVE  IsFiniteSet({f[x] : x \in S})
<1> DEFINE T == {f[x] : x \in S}
           g == [x \in S |-> f[x]]
<1>1. g \in [S -> T] /\ \A t \in T : \E s \in S : g[s] = t
  OBVIOUS
<1> HIDE DEF g, T
<1>2. g \in Surjection(S, T)
  BY <1>1 DEF Surjection
<1>3. IsFiniteSet(T)
  BY <1>2, FS_Surjection
<1> QED
  BY <1>3 DEF T

\* The keys of a handler's rows are finitely many, and as many as its rows.
LEMMA RowsCounted ==
  ASSUME Types, RowPerKey, NEW k \in Handlers
  PROVE  Cardinality(tables[k]) = Cardinality(EventKeys(k, covered))
<1> DEFINE K == EventKeys(k, covered)
           key == [r \in tables[k] |-> <<r.height, r.index>>]
<1>1. IsFiniteSet(K)
  <2> DEFINE Of(h) == EventKeys(k, {h})
  <2>1. K = UNION {Of(h) : h \in covered}
    BY DEF EventKeys
  <2>2. ASSUME NEW h \in covered PROVE IsFiniteSet(Of(h))
    <3> DEFINE J == {j \in DOMAIN Raw(h).events :
                 <<Raw(h).events[j].pallet, Raw(h).events[j].name>> \in Watched[k]}
    <3>1. Of(h) = {<<h, j - 1>> : j \in J}
      BY DEF EventKeys
    <3>2. IsFiniteSet(DOMAIN Raw(h).events)
      <4>1. DOMAIN Raw(h).events = 1..Len(Raw(h).events) /\ Len(Raw(h).events) \in Nat
        BY <2>2, RawFacts DEF Types, IsSequence
      <4> QED
        BY <4>1, FS_Interval
    <3>3. IsFiniteSet(J)
      BY <3>2, FS_Subset
    <3> HIDE DEF J
    <3>4. IsFiniteSet({<<h, j - 1>> : j \in J})
      <4> DEFINE f == [j \in J |-> <<h, j - 1>>]
      <4>1. IsFiniteSet({f[j] : j \in J})
        BY <3>3, ImageFinite
      <4> QED
        BY <4>1
    <3> QED
      BY <3>1, <3>4
  <2>3. IsFiniteSet(covered)
    <3>1. covered \subseteq 0..Tip /\ Tip \in Int
      BY Numbers DEF Types, Heights
    <3>2. IsFiniteSet(0..Tip)
      BY <3>1, FS_Interval
    <3> QED
      BY <3>1, <3>2, FS_Subset
  <2> HIDE DEF Of, K
  <2>4. IsFiniteSet({Of(h) : h \in covered})
    <3> DEFINE f == [h \in covered |-> Of(h)]
    <3>1. IsFiniteSet({f[h] : h \in covered})
      BY <2>3, ImageFinite
    <3> QED
      BY <3>1
  <2> QED
    BY <2>1, <2>2, <2>4, FS_UNION
<1>2. key \in Injection(tables[k], K) /\ key \in Surjection(tables[k], K)
  <2>1. {<<r.height, r.index>> : r \in tables[k]} = K
    BY DEF RowPerKey
  <2>2. \A r, s \in tables[k] : key[r] = key[s] => r = s
    BY DEF RowPerKey, SameKey
  <2> HIDE DEF K
  <2>3. key \in [tables[k] -> K]
    BY <2>1
  <2>4. \A x \in K : \E r \in tables[k] : key[r] = x
    BY <2>1
  <2> HIDE DEF key
  <2> QED
    BY <2>2, <2>3, <2>4 DEF Injection, IsInjective, Surjection
<1> QED
  <2> HIDE DEF key, K
  <2>1. Cardinality(tables[k]) = Cardinality(K)
    BY <1>1, <1>2, FS_Injection
  <2> QED
    BY <2>1 DEF K

-----------------------------------------------------------------------------
(* The two sources.                                                        *)

SetsTime(x) == x.pallet = "Timestamp" /\ x.call = "set"

\* What the portal adds of its own is true to the chain: the time of a block is the
\* one that its only Timestamp.set was called with.
PortalTrue(raw) ==
  \/ raw.now = None /\ \A i \in DOMAIN raw.extrinsics : ~SetsTime(raw.extrinsics[i])
  \/ \E i \in DOMAIN raw.extrinsics :
       LET x == raw.extrinsics[i]
       IN  /\ \A j \in DOMAIN raw.extrinsics : SetsTime(raw.extrinsics[j]) <=> j = i
           /\ x.decodes = "whole" /\ "now" \in DOMAIN x.args
           /\ "int" \in DOMAIN x.args["now"] /\ x.args["now"].int = raw.now

PortalTruthful == \A c \in Histories : \A n \in 1..Len(c) : PortalTrue(c[n])

\* A block that strict decoding lets through is the same without it.
LEMMA StrictIsSame ==
  ASSUME Types, NEW raw, NEW h, MapBlock(raw, h, cfg) # None
  PROVE  MapBlock(raw, h, [cfg EXCEPT !.strict = FALSE]) = MapBlock(raw, h, cfg)
<1> DEFINE d == [cfg EXCEPT !.strict = FALSE]
           evs == IF cfg.events THEN raw.events ELSE <<>>
           exts == IF cfg.extrinsics THEN raw.extrinsics ELSE <<>>
<1>1. /\ d.events = cfg.events /\ d.extrinsics = cfg.extrinsics
      /\ d.prefix = cfg.prefix /\ d.strict = FALSE /\ cfg.strict \in BOOLEAN
  BY ConfigFacts
<1>2. ~Undecodable(evs, cfg.strict) /\ ~Undecodable(exts, cfg.strict)
  BY DEF MapBlock
<1>3. CASE cfg.strict = FALSE
  BY <1>1, <1>3 DEF MapBlock
<1>4. CASE cfg.strict = TRUE
  <2>1. /\ \A i \in DOMAIN evs : evs[i].decodes = "whole"
        /\ \A i \in DOMAIN exts : exts[i].decodes = "whole"
    BY <1>2, <1>4 DEF Undecodable, DecodedArgs, OnDecodeFailure
  <2> HIDE DEF evs, exts, d
  <2>2. /\ \A i \in DOMAIN evs :
             DecodedArgs(evs[i], d.strict) = DecodedArgs(evs[i], cfg.strict)
        /\ \A i \in DOMAIN exts :
             DecodedArgs(exts[i], d.strict) = DecodedArgs(exts[i], cfg.strict)
    BY <2>1 DEF DecodedArgs
  <2>3. MapEvents(evs, d.strict) = MapEvents(evs, cfg.strict)
    BY <2>2 DEF MapEvents
  <2>4. MapExtrinsics(exts, evs, cfg.prefix, d.strict) =
          MapExtrinsics(exts, evs, cfg.prefix, cfg.strict)
    BY <2>2 DEF MapExtrinsics
  <2>5. ~Undecodable(evs, d.strict) /\ ~Undecodable(exts, d.strict)
    BY <1>2, <2>2 DEF Undecodable
  <2> QED
    BY <1>1, <1>2, <2>3, <2>4, <2>5 DEF MapBlock, evs, exts, d
<1> QED
  BY <1>1, <1>3, <1>4

\* The time that the node's extrinsics tell is the portal's.
LEMMA TimeIsSame ==
  ASSUME NEW raw, IsSequence(raw.extrinsics), PortalTrue(raw),
         NEW events, NEW prefix, NEW strict
  PROVE  ExtractTimestamp(MapExtrinsics(raw.extrinsics, events, prefix, strict)) = raw.now
<1> DEFINE mapped == MapExtrinsics(raw.extrinsics, events, prefix, strict)
           sets == {i \in DOMAIN mapped :
                      mapped[i].pallet = "Timestamp" /\ mapped[i].call = "set"}
           first == CHOOSE i \in sets : \A j \in sets : i <= j
<1>1. /\ DOMAIN mapped = DOMAIN raw.extrinsics
      /\ \A i \in DOMAIN raw.extrinsics :
           /\ mapped[i].pallet = raw.extrinsics[i].pallet
           /\ mapped[i].call = raw.extrinsics[i].call
           /\ mapped[i].args = DecodedArgs(raw.extrinsics[i], strict)
  BY DEF MapExtrinsics
<1> HIDE DEF mapped
<1>2. sets = {i \in DOMAIN raw.extrinsics : SetsTime(raw.extrinsics[i])}
  BY <1>1 DEF SetsTime
<1>3. CASE sets = {}
  <2>1. raw.now = None
    BY <1>2, <1>3 DEF PortalTrue
  <2> QED
    BY <1>3, <2>1 DEF ExtractTimestamp, mapped
<1>4. CASE sets # {}
  <2>1. PICK i \in DOMAIN raw.extrinsics :
          LET x == raw.extrinsics[i]
          IN  /\ \A j \in DOMAIN raw.extrinsics : SetsTime(raw.extrinsics[j]) <=> j = i
              /\ x.decodes = "whole" /\ "now" \in DOMAIN x.args
              /\ "int" \in DOMAIN x.args["now"] /\ x.args["now"].int = raw.now
    BY <1>2, <1>4 DEF PortalTrue
  <2>2. sets = {i}
    BY <1>2, <2>1
  <2>3. first = i
    <3>1. i \in Int
      BY DEF IsSequence
    <3> QED
      BY <2>2, <3>1
  <2>4. mapped[i].args = ScaleArgs(raw.extrinsics[i].args)
    BY <1>1, <2>1 DEF DecodedArgs
  <2>5. /\ mapped[i].args.def = "named"
        /\ mapped[i].args.fields["now"].int = raw.now
    BY <2>1, <2>4 DEF ScaleArgs, Named, Scale, U128
  <2> QED
    BY <1>4, <2>3, <2>5 DEF ExtractTimestamp, mapped
<1> QED
  BY <1>3, <1>4

LEMMA LenOf ==
  ASSUME NEW s, NEW n \in Nat, s = [i \in 1..n |-> s[i]]
  PROVE  Len(s) = n
<1> DEFINE S == {s[i] : i \in 1..n}
<1>1. s \in [1..n -> S]
  <2>1. \A i \in 1..n : s[i] \in S
    OBVIOUS
  <2> HIDE DEF S
  <2> QED
    BY <2>1
<1> HIDE DEF S
<1>2. s \in Seq(S)
  BY <1>1
<1>3. DOMAIN s = 1..Len(s) /\ DOMAIN s = 1..n /\ Len(s) \in Nat
  BY <1>1, <1>2
<1> QED
  BY <1>3

\* A signer is the same account, or the same bytes, from either source.
LEMMA SignerIsSame ==
  ASSUME NEW a, NEW prefix, SameForm(a), a # None => a.of # None /\ Origin(a) # None
  PROVE  OriginSigner(Origin(a), prefix) = Signer(a, prefix)
<1>1. CASE a = None
  BY <1>1 DEF OriginSigner, Origin, Signer
<1>2. CASE a # None
  <2>1. Origin(a).length = a.length /\ Origin(a).of = a.of
    BY <1>2 DEF Origin
  <2> QED
    BY <1>2, <2>1 DEF OriginSigner, Signer, AccountOf, SameForm
<1> QED
  BY <1>1, <1>2

\* Without nested calls the calls are the extrinsics.
LEMMA FlatCalls ==
  ASSUME NEW raw, IsRawBlock(raw), ~Nests(raw)
  PROVE  /\ DOMAIN raw.calls = DOMAIN raw.extrinsics
         /\ \A i \in DOMAIN raw.calls :
              /\ raw.calls[i].extrinsic = i - 1
              /\ raw.calls[i].item = raw.extrinsics[i]
<1>1. Len(raw.calls) = Len(raw.extrinsics)
  BY DEF Nests
<1>2. DOMAIN raw.calls = 1..Len(raw.calls) /\ DOMAIN raw.extrinsics = 1..Len(raw.extrinsics)
  BY DEF IsRawBlock, IsSequence
<1>3. ASSUME NEW i \in DOMAIN raw.calls
      PROVE  raw.calls[i].extrinsic = i - 1 /\ raw.calls[i].item = raw.extrinsics[i]
  <2>1. raw.calls[i] = [extrinsic |-> i - 1, item |-> raw.extrinsics[i]]
    BY Zenon DEF IsRawBlock
  <2> QED
    BY <2>1
<1> QED
  BY <1>1, <1>2, <1>3

\* The portal's block is the one a tolerant node source maps.
LEMMA PortalIsSame ==
  ASSUME Types, NEW h \in Heights, PortalTrue(Raw(h)),
         MapBlock(Raw(h), h, [cfg EXCEPT !.strict = FALSE]) # None
  PROVE  SameBlock(MapPortalBlock(PortalLine(Raw(h), h, cfg), cfg.prefix),
                   MapBlock(Raw(h), h, [cfg EXCEPT !.strict = FALSE]), Raw(h))
<1> DEFINE raw == Raw(h)
           line == PortalLine(raw, h, cfg)
           b == MapPortalBlock(line, cfg.prefix)
           d == [cfg EXCEPT !.strict = FALSE]
           c == MapBlock(raw, h, d)
           evs == IF cfg.events THEN raw.events ELSE <<>>
           exts == IF cfg.extrinsics THEN raw.extrinsics ELSE <<>>
           mapped == MapExtrinsics(exts, evs, cfg.prefix, FALSE)
<1>1. /\ d.events = cfg.events /\ d.extrinsics = cfg.extrinsics
      /\ d.prefix = cfg.prefix /\ d.strict = FALSE
      /\ cfg.events \in BOOLEAN /\ cfg.extrinsics \in BOOLEAN
  BY ConfigFacts
<1>2. c = [number |-> h, timestamp |-> ExtractTimestamp(mapped), finalized |-> TRUE,
           extrinsics |-> mapped, events |-> MapEvents(evs, FALSE)]
  <2> HIDE DEF d
  <2> QED
    BY <1>1 DEF MapBlock, d
<1>3. IsSequence(evs) /\ IsSequence(exts)
  BY RawFacts, <1>1 DEF IsSequence
<1>4. /\ DOMAIN line.events = DOMAIN evs
      /\ \A i \in DOMAIN evs :
           /\ line.events[i].name = <<evs[i].pallet, evs[i].name>>
           /\ line.events[i].extrinsicIndex = evs[i].extrinsic
  <2>1. CASE cfg.events
    BY <2>1 DEF PortalLine
  <2>2. CASE ~cfg.events
    BY <2>2 DEF PortalLine
  <2> QED
    BY <1>1, <2>1, <2>2
<1>5. ~Nests(raw) =>
      /\ DOMAIN line.calls = DOMAIN exts
      /\ \A i \in DOMAIN exts :
           /\ line.calls[i].extrinsicIndex = None
           /\ line.calls[i].name = <<exts[i].pallet, exts[i].call>>
           /\ line.calls[i].success = SuccessOf(raw.events, i - 1)
           /\ line.calls[i].origin = Origin(exts[i].address)
  <2> SUFFICES ASSUME ~Nests(raw)
               PROVE  /\ DOMAIN line.calls = DOMAIN exts
                      /\ \A i \in DOMAIN exts :
                           /\ line.calls[i].extrinsicIndex = None
                           /\ line.calls[i].name = <<exts[i].pallet, exts[i].call>>
                           /\ line.calls[i].success = SuccessOf(raw.events, i - 1)
                           /\ line.calls[i].origin = Origin(exts[i].address)
    OBVIOUS
  <2>1. /\ DOMAIN raw.calls = DOMAIN raw.extrinsics
        /\ \A i \in DOMAIN raw.calls :
             /\ raw.calls[i].extrinsic = i - 1
             /\ raw.calls[i].item = raw.extrinsics[i]
    <3>1. IsRawBlock(raw)
      BY RawFacts
    <3> HIDE DEF raw, line, b, c, d, evs, exts, mapped
    <3> QED
      BY <3>1, FlatCalls
  <2> HIDE DEF raw
  <2>2. CASE cfg.extrinsics
    BY <2>1, <2>2 DEF PortalLine
  <2>3. CASE ~cfg.extrinsics
    BY <2>3 DEF PortalLine
  <2> QED
    BY <1>1, <2>2, <2>3
<1>6. line.number = h /\ line.timestamp = raw.now
  BY DEF PortalLine
<1>7. cfg.extrinsics => ExtractTimestamp(mapped) = raw.now
  <2> SUFFICES ASSUME cfg.extrinsics PROVE ExtractTimestamp(mapped) = raw.now
    OBVIOUS
  <2>1. exts = raw.extrinsics /\ IsSequence(raw.extrinsics)
    BY RawFacts
  <2> HIDE DEF exts, evs, raw
  <2> QED
    BY <2>1, TimeIsSame DEF raw
<1>8. \A i \in DOMAIN exts :
        LET a == exts[i].address
        IN  /\ a # None => a.of # None /\ Origin(a) # None
            /\ exts = raw.extrinsics
            /\ (a = None) <=> (Origin(a) = None)
  BY <1>1, RawFacts DEF IsRawBlock, Origin
<1>9. cfg.events => evs = raw.events
  OBVIOUS
<1> HIDE DEF raw, line, d, evs, exts
<1> DEFINE E == [i \in DOMAIN evs |->
                   [index |-> i - 1, pallet |-> evs[i].pallet, name |-> evs[i].name,
                    fields |-> JsonToValue(line.events[i].args),
                    extrinsic |-> evs[i].extrinsic]]
           X == [i \in DOMAIN exts |->
                   [index |-> i - 1, pallet |-> exts[i].pallet, call |-> exts[i].call,
                    args |-> JsonToValue(line.calls[i].args),
                    signed |-> exts[i].address # None,
                    signer |-> OriginSigner(Origin(exts[i].address), cfg.prefix),
                    success |-> SuccessOf(raw.events, i - 1)]]
<1>10. /\ b = [number |-> h, timestamp |-> raw.now, finalized |-> TRUE,
               extrinsics |-> b.extrinsics, events |-> E]
       /\ ~Nests(raw) => b.extrinsics = X
  <2>1. b.events = E
    BY <1>4 DEF MapPortalBlock, EventIndex
  <2>2. ASSUME ~Nests(raw) PROVE b.extrinsics = X
    <3>1. \A i \in DOMAIN exts : (line.calls[i].origin # None) = (exts[i].address # None)
      BY <1>5, <1>8, <2>2
    <3> QED
      BY <1>5, <2>2, <3>1 DEF MapPortalBlock
  <2>3. b = [number |-> h, timestamp |-> raw.now, finalized |-> TRUE,
             extrinsics |-> b.extrinsics, events |-> b.events]
    BY <1>6 DEF MapPortalBlock
  <2> QED
    BY <2>1, <2>2, <2>3
<1>11. /\ Len(E) = Len(MapEvents(evs, FALSE))
       /\ \A i \in DOMAIN E :
            LET e == E[i]
                f == MapEvents(evs, FALSE)[i]
            IN  <<e.index, e.pallet, e.name, e.extrinsic>> =
                <<f.index, f.pallet, f.name, f.extrinsic>>
  <2>1. Len(E) = Len(evs)
    BY <1>3, LenOf DEF IsSequence
  <2>2. Len(MapEvents(evs, FALSE)) = Len(evs)
    BY <1>3, LenOf DEF IsSequence, MapEvents
  <2> QED
    BY <2>1, <2>2 DEF MapEvents
<1>12. /\ Len(X) = Len(mapped)
       /\ \A i \in DOMAIN X :
            LET x == X[i]
                y == mapped[i]
            IN  /\ <<x.index, x.pallet, x.call, x.signed>> =
                   <<y.index, y.pallet, y.call, y.signed>>
                /\ SameForm(raw.extrinsics[i].address) => x.signer = y.signer
                /\ cfg.events => x.success = y.success
  <2>1. Len(X) = Len(exts)
    BY <1>3, LenOf DEF IsSequence
  <2>2. Len(mapped) = Len(exts)
    BY <1>3, LenOf DEF IsSequence, MapExtrinsics
  <2>3. \A i \in DOMAIN exts :
          /\ exts[i].address = raw.extrinsics[i].address
          /\ SameForm(exts[i].address) =>
               OriginSigner(Origin(exts[i].address), cfg.prefix) =
                 Signer(exts[i].address, cfg.prefix)
    BY <1>8, SignerIsSame
  <2> QED
    BY <1>9, <2>1, <2>2, <2>3 DEF MapExtrinsics
<1> HIDE DEF b, c, E, X, mapped
<1>13. /\ b.number = h /\ b.finalized = TRUE /\ c.number = h /\ c.finalized = TRUE
  BY <1>2, <1>10
<1>14. /\ b.events = E /\ b.timestamp = raw.now
       /\ ~Nests(raw) => b.extrinsics = X
       /\ c.events = MapEvents(evs, FALSE) /\ c.extrinsics = mapped
       /\ c.timestamp = ExtractTimestamp(mapped)
  BY <1>2, <1>10
<1>15. SameBlock(b, c, raw)
  <2>1. /\ cfg.extrinsics => b.timestamp = c.timestamp
        /\ Len(b.events) = Len(c.events)
        /\ \A i \in DOMAIN b.events :
             LET Place(e) == <<e.index, e.pallet, e.name, e.extrinsic>>
             IN  Place(b.events[i]) = Place(c.events[i])
    BY <1>7, <1>11, <1>14
  <2>2. ASSUME ~Nests(raw)
        PROVE  /\ Len(b.extrinsics) = Len(c.extrinsics)
               /\ \A i \in DOMAIN b.extrinsics :
                    LET x == b.extrinsics[i]
                        y == c.extrinsics[i]
                    IN  /\ <<x.index, x.pallet, x.call, x.signed>> =
                           <<y.index, y.pallet, y.call, y.signed>>
                        /\ SameForm(raw.extrinsics[i].address) => x.signer = y.signer
                        /\ cfg.events => x.success = y.success
    <3>1. b.extrinsics = X /\ c.extrinsics = mapped
      BY <1>14, <2>2
    <3> QED
      BY <1>12, <3>1
  <2> QED
    BY <1>13, <2>1, <2>2 DEF SameBlock
<1> QED
  BY <1>15 DEF b, c, d, line, raw

-----------------------------------------------------------------------------
(* Rows from a node.                                                       *)

\* A run asks the source it is configured for, and what it has fetched from a node is
\* what the node's blocks decode to.
FromNode ==
  /\ pc \in {"rpc", "portal"} => pc = cfg.source
  /\ cfg.source = "rpc" =>
       \A i \in DOMAIN batch :
         /\ batch[i] # None
         /\ batch[i] = MapBlock(Raw(batch[i].number), batch[i].number, cfg)

\* An event that decodes has the fields of the handler that watches it, accounts as
\* accounts and numbers as unsigned integers.
TypedEvent(k, e) ==
  /\ e.decodes \in {"whole", "fields", "no"}
  /\ e.decodes = "whole" =>
       \A c \in DOMAIN Columns[k] :
         /\ c \in DOMAIN e.args /\ Scale(e.args[c]) # None
         /\ Columns[k][c] = "account" => "int" \notin DOMAIN e.args[c] /\ e.args[c].account # None
         /\ Columns[k][c] # "account" => /\ "int" \in DOMAIN e.args[c]
                                      /\ e.args[c].int \in Nat /\ e.args[c].int # None

TypedEvents ==
  \A s \in Histories : \A n \in 1..Len(s) : \A i \in DOMAIN s[n].events :
    LET e == s[n].events[i]
    IN  \A k \in Handlers : <<e.pallet, e.name>> \in Watched[k] => TypedEvent(k, e)

LEMMA FromNodeTake ==
  ASSUME IngestInv, FromNode, Take
  PROVE  FromNode'
<1> DEFINE h == flying[1].height
           b == MapBlock(Raw(h), h, cfg)
<1>1. /\ flying # <<>> /\ flying[1].state = "answered" /\ batch' = Append(batch, b)
      /\ UNCHANGED <<chain, cfg, pc>>
  BY DEF Take
<1>2. b # None /\ b.number = h
  <2>1. 1 \in 1..Len(flying)
    BY <1>1 DEF IngestInv, Types
  <2> QED
    BY <1>1, <2>1, MapNumber DEF IngestInv, Answered
<1>3. b = MapBlock(Raw(b.number), b.number, cfg)
  BY <1>2
<1> HIDE DEF b, h
<1>4. /\ DOMAIN batch' = 1..(Len(batch) + 1) /\ DOMAIN batch = 1..Len(batch)
      /\ Len(batch) \in Nat
      /\ \A i \in 1..Len(batch) : batch'[i] = batch[i]
      /\ batch'[Len(batch) + 1] = b
  <2>1. batch \in Seq(Fetchable)
    BY DEF IngestInv, Types
  <2> QED
    BY <1>1, <2>1
<1>5. \A i \in DOMAIN batch' : i \in DOMAIN batch \/ i = Len(batch) + 1
  BY <1>4
<1> QED
  BY <1>1, <1>2, <1>3, <1>4, <1>5 DEF FromNode, Raw

LEMMA FromNodeStep ==
  ASSUME IngestInv, FromNode, [Next]_vars
  PROVE  FromNode'
<1>1. CASE Take
  BY <1>1, FromNodeTake
<1>2. CASE AskBatch
  <2>1. batch = <<>> /\ batch' = <<>>
    BY <1>2 DEF AskBatch, IngestInv, Staged
  <2> QED
    BY <1>2, <2>1 DEF AskBatch, FromNode
<1>3. CASE PortalAnswers
  <2>1. cfg' = cfg /\ cfg.source = "portal" /\ pc' = "write"
    BY <1>3 DEF PortalAnswers, FromNode
  <2> QED
    BY <2>1 DEF FromNode
<1>4. CASE Write \/ \E outcome \in Ended : Halt(outcome)
  <2>1. batch' = <<>> /\ pc' \notin {"rpc", "portal"}
    BY <1>4 DEF Write, Halt, Ended
  <2> QED
    BY <2>1 DEF FromNode
<1>5. CASE Restart
  <2>1. batch' = <<>> /\ pc' = "loop"
    BY <1>5 DEF Restart, IngestInv, Staged, fetch
  <2> QED
    BY <2>1 DEF FromNode
<1>6. CASE Collected
  BY <1>6 DEF Collected, FromNode, fetch, Raw
<1>7. CASE UNCHANGED <<chain, cfg, pc, batch>>
  BY <1>7 DEF FromNode, Raw
<1> QED
  BY <1>1, <1>2, <1>3, <1>4, <1>5, <1>6, <1>7
     DEF Next, Step, vars, LoopDone, Launch, BatchFails, Answer, RequestFails, PortalEmpty,
         PortalFails, PortalGivesUp, WriteFails, Crash, Ended

\* `as i64` keeps an integer below 2^63.
LEMMA SmallAsI64 ==
  ASSUME NEW n \in Nat, n < I64
  PROVE  AsI64(n) = n
<1>1. I64 \in Nat \ {0}
  BY IngestAssumption
<1>2. n % (2 * I64) = n
  BY <1>1
<1> QED
  BY <1>1, <1>2 DEF AsI64

\* A decoded event's columns are the chain's values, but for an id that wraps.
LEMMA WholeColumns ==
  ASSUME NEW k \in Handlers, NEW e, NEW strict, TypedEvent(k, e), e.decodes = "whole",
         NEW c \in DOMAIN Columns[k], ~Wraps(k, e, c)
  PROVE  ReadColumn(DecodedArgs(e, strict), c, Columns[k][c]) = TrueColumns(k, e)[c]
<1> DEFINE v == DecodedArgs(e, strict)
<1>1. v = Named([n \in DOMAIN e.args |-> Scale(e.args[n])])
  BY DEF DecodedArgs, ScaleArgs
<1>2. Columns[k][c] \in {"u128", "i64", "account"}
  BY DEF Columns, Handlers, Watched
<1>3. Field(v, c) = Scale(e.args[c]) /\ Scale(e.args[c]) # None
  BY <1>1 DEF TypedEvent, Field, Named
<1> HIDE DEF v
<1>4. CASE Columns[k][c] = "account"
  <2>1. Scale(e.args[c]) = Unnamed(<<Bytes(e.args[c].account)>>) /\ e.args[c].account # None
    BY <1>4 DEF TypedEvent, Scale
  <2>2. CollectBytes(Unnamed(<<Bytes(e.args[c].account)>>)) = e.args[c].account
    BY DEF CollectBytes, Unnamed, Bytes
  <2>3. ReadColumn(v, c, "account") = Ss58(e.args[c].account, 42)
    BY <1>3, <2>1, <2>2 DEF ReadColumn, AsAccountSs58
  <2> QED
    BY <1>4, <2>3 DEF TrueColumns, v
<1>5. CASE Columns[k][c] # "account"
  <2>1. /\ Scale(e.args[c]) = U128(e.args[c].int)
        /\ e.args[c].int # None /\ e.args[c].int \in Nat
    BY <1>5 DEF TypedEvent, Scale
  <2>2. AsU128(Scale(e.args[c])) = e.args[c].int
    BY <1>3, <2>1 DEF AsU128, U128
  <2>3. /\ ReadColumn(v, c, "u128") = e.args[c].int
        /\ ReadColumn(v, c, "i64") = AsI64(e.args[c].int)
    BY <1>3, <2>1, <2>2 DEF ReadColumn
  <2>4. Columns[k][c] = "i64" => AsI64(e.args[c].int) = e.args[c].int
    <3>1. SUFFICES ASSUME Columns[k][c] = "i64" PROVE AsI64(e.args[c].int) = e.args[c].int
      OBVIOUS
    <3>2. I64 \in Nat /\ ~(e.args[c].int >= I64)
      BY <3>1, IngestAssumption DEF Wraps
    <3>3. e.args[c].int < I64
      BY <2>1, <3>2
    <3> QED
      BY <2>1, <3>3, SmallAsI64
  <2> QED
    BY <1>2, <1>5, <2>3, <2>4 DEF TrueColumns, v
<1> QED
  BY <1>4, <1>5

\* The columns of an event whose fields did not decode are NULL.
LEMMA EmptyColumns ==
  ASSUME NEW c, NEW type \in {"u128", "i64", "account"}
  PROVE  ReadColumn(Unit, c, type) = None
<1>1. Field(Unit, c) = None
  BY DEF Field, Unit, Unnamed
<1> QED
  BY <1>1 DEF ReadColumn, AsU128, AsAccountSs58

-----------------------------------------------------------------------------

\* Each watched event in a block that was indexed with its events has one row, and
\* no row has no event: through failed batches, restarts below the cursor, a change of
\* source or settings, for every chain, batch size and number of runs.
THEOREM OneRow == Spec => []OneRowPerEvent
<1> DEFINE I == IngestInv /\ RowPerKey
<1>1. Init => I
  <2>1. Init => RowPerKey
    BY DEF Init, RowPerKey, EventKeys
  <2> QED
    BY <2>1, IngestInit
<1>2. I /\ [Next]_vars => I'
  BY IngestStep, RowsStep
<1>3. I => OneRowPerEvent
  <2> SUFFICES ASSUME I, NEW k \in Handlers
               PROVE  /\ {<<r.height, r.index>> : r \in tables[k]} = EventKeys(k, covered)
                      /\ Cardinality(tables[k]) = Cardinality(EventKeys(k, covered))
    BY DEF OneRowPerEvent, EventKeys
  <2> QED
    BY RowsCounted DEF IngestInv, RowPerKey
<1> HIDE DEF I
<1> QED
  BY <1>1, <1>2, <1>3, PTL DEF Spec

\* If the portal tells the times of the chain, no handler can see from a block which
\* source it came from, but for the decoded values, signers that are neither accounts
\* nor bare bytes, and the extrinsics of a block with nested calls.
THEOREM SourcesTellTheSame == PortalTruthful => (Spec => []SourcesAgree)
<1> SUFFICES ASSUME PortalTruthful PROVE Spec => []SourcesAgree
  OBVIOUS
<1>1. IngestInv => SourcesAgree
  <2> SUFFICES ASSUME IngestInv, NEW i \in DOMAIN batch,
                      MapBlock(Raw(batch[i].number), batch[i].number,
                               [cfg EXCEPT !.strict = FALSE]) # None
               PROVE  SameBlock(batch[i], MapBlock(Raw(batch[i].number), batch[i].number,
                                                   [cfg EXCEPT !.strict = FALSE]),
                                Raw(batch[i].number))
    BY DEF SourcesAgree
  <2> DEFINE h == batch[i].number
  <2>1. h \in Heights /\ Fetched(batch[i], h) /\ Types
    BY BatchFetched DEF IngestInv
  <2>2. PortalTrue(Raw(h))
    <3>1. h + 1 \in 1..Len(chain) /\ chain \in Histories
      BY <2>1, RawFacts DEF Types
    <3> QED
      BY <3>1 DEF PortalTruthful, Raw
  <2> HIDE DEF h
  <2>3. CASE batch[i] = MapBlock(Raw(h), h, cfg) /\ batch[i] # None
    <3>1. MapBlock(Raw(h), h, [cfg EXCEPT !.strict = FALSE]) = batch[i]
      BY <2>1, <2>3, StrictIsSame
    <3>2. SameBlock(batch[i], batch[i], Raw(h))
      BY DEF SameBlock
    <3> QED
      BY <3>1, <3>2 DEF h
  <2>4. CASE batch[i] = MapPortalBlock(PortalLine(Raw(h), h, cfg), cfg.prefix)
    <3>1. MapBlock(Raw(h), h, [cfg EXCEPT !.strict = FALSE]) # None
      BY DEF h
    <3> QED
      BY <2>1, <2>2, <2>4, <3>1, PortalIsSame DEF h
  <2> QED
    BY <2>1, <2>3, <2>4 DEF Fetched
<1> QED
  BY <1>1, IngestInit, IngestStep, PTL DEF Spec

\* Over RPC a row holds what its event says on the chain, an asset id of 2^63 or more
\* aside, or, outside strict mode and only where the fields did not decode, NULLs: for
\* every chain whose events have the fields that their handlers read.
THEOREM NodeRowsExact == TypedEvents => (Spec => RpcRowsExact)
<1> SUFFICES ASSUME TypedEvents PROVE Spec => RpcRowsExact
  OBVIOUS
<1> DEFINE Right(k, r, e) ==
      \/ /\ e.decodes = "whole"
         /\ \A c \in DOMAIN Columns[k] :
              ~Wraps(k, e, c) => r.columns[c] = TrueColumns(k, e)[c]
      \/ /\ e.decodes = "fields" /\ ~cfg.strict
         /\ \A c \in DOMAIN Columns[k] : r.columns[c] = None
           Exact ==
      Write /\ cfg.source = "rpc" =>
        \A k \in Handlers : \A r \in tables'[k] \ tables[k] : Right(k, r, EventOf(r))
<1>1. IngestInv /\ FromNode => Exact
  <2> SUFFICES ASSUME IngestInv, FromNode, Write, cfg.source = "rpc", NEW k \in Handlers,
                      NEW r \in tables'[k] \ tables[k]
               PROVE  Right(k, r, EventOf(r))
    OBVIOUS
  <2>1. PICK i \in DOMAIN batch : r \in RowsOf(k, batch[i])
    BY DEF Write, Inserted, BatchRows
  <2> DEFINE b == batch[i]
             h == b.number
             evs == IF cfg.events THEN Raw(h).events ELSE <<>>
  <2>2. /\ h \in Heights /\ b # None /\ b = MapBlock(Raw(h), h, cfg)
        /\ h + 1 \in 1..Len(chain) /\ IsSequence(Raw(h).events)
    BY BatchFetched, RawFacts DEF FromNode, IngestInv
  <2>3. /\ b.events = MapEvents(evs, cfg.strict)
        /\ ~Undecodable(evs, cfg.strict)
    <3> HIDE DEF b, h
    <3> QED
      BY <2>2 DEF MapBlock
  <2>4. PICK e \in ToSet(b.events) :
          /\ <<e.pallet, e.name>> \in Watched[k]
          /\ r = [height |-> h, index |-> e.index, name |-> e.name,
                  columns |-> [c \in DOMAIN Columns[k] |->
                                 ReadColumn(e.fields, c, Columns[k][c])]]
    BY <2>1 DEF RowsOf
  <2>5. PICK j \in DOMAIN evs :
          e = [index |-> j - 1, pallet |-> evs[j].pallet, name |-> evs[j].name,
               fields |-> DecodedArgs(evs[j], cfg.strict), extrinsic |-> evs[j].extrinsic]
    <3> HIDE DEF b, h, evs
    <3> QED
      BY <2>3, <2>4 DEF ToSet, MapEvents
  <2>6. /\ cfg.events /\ evs = Raw(h).events /\ j \in DOMAIN Raw(h).events /\ j \in Nat
    <3>1. cfg.events
      BY <2>5, ConfigFacts DEF IngestInv
    <3> QED
      BY <2>2, <2>5, <3>1 DEF IsSequence
  <2>7. EventOf(r) = evs[j]
    <3>1. r.height = h /\ r.index = j - 1
      BY <2>4, <2>5
    <3> HIDE DEF h, b, evs
    <3> QED
      BY <2>6, <3>1 DEF EventOf
  <2>8. TypedEvent(k, evs[j])
    <3>1. <<evs[j].pallet, evs[j].name>> \in Watched[k]
      BY <2>4, <2>5
    <3>2. chain \in Histories /\ Raw(h) = chain[h + 1]
      BY DEF IngestInv, Types, Raw
    <3> HIDE DEF h, b, evs
    <3> QED
      BY <2>2, <2>6, <3>1, <3>2 DEF TypedEvents
  <2>9. r.columns = [c \in DOMAIN Columns[k] |->
                       ReadColumn(DecodedArgs(evs[j], cfg.strict), c, Columns[k][c])]
    BY <2>4, <2>5
  <2> HIDE DEF b, h, evs
  <2>10. CASE evs[j].decodes = "whole"
    <3>1. \A c \in DOMAIN Columns[k] :
            ~Wraps(k, evs[j], c) => r.columns[c] = TrueColumns(k, evs[j])[c]
      BY <2>8, <2>9, <2>10, WholeColumns
    <3> QED
      BY <2>7, <2>10, <3>1
  <2>11. CASE evs[j].decodes # "whole"
    <3>1. DecodedArgs(evs[j], cfg.strict) # None /\ evs[j].decodes # "no"
      BY <2>3, <2>5 DEF Undecodable
    <3>2. ~cfg.strict /\ DecodedArgs(evs[j], cfg.strict) = Unit
      BY <2>11, <3>1 DEF DecodedArgs, OnDecodeFailure
    <3>3. evs[j].decodes = "fields"
      BY <2>8, <2>11, <3>1 DEF TypedEvent
    <3>4. \A c \in DOMAIN Columns[k] : Columns[k][c] \in {"u128", "i64", "account"}
      BY DEF Columns, Handlers, Watched
    <3>5. \A c \in DOMAIN Columns[k] : r.columns[c] = None
      BY <2>9, <3>2, <3>4, EmptyColumns
    <3> QED
      BY <2>7, <3>2, <3>3, <3>5
  <2> QED
    BY <2>10, <2>11
<1>2. Init => IngestInv /\ FromNode
  BY IngestInit DEF Init, FromNode
<1>3. IngestInv /\ FromNode /\ [Next]_vars => (IngestInv /\ FromNode)'
  BY IngestStep, FromNodeStep
<1>4. Spec => [][Exact]_vars
  BY <1>1, <1>2, <1>3, PTL DEF Spec
<1> QED
  BY <1>4 DEF RpcRowsExact
====
