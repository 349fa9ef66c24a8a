-------------------------- MODULE TipStreamProofs ---------------------------
(***************************************************************************)
(* The tip source for any height, any retry budget, and streams that end   *)
(* or not.                                                                 *)
(***************************************************************************)
EXTENDS TipStream, TLAPS

USE DEF Live

\* Every variable keeps its type: in particular the attempt counter of
\* retry_async stays within its budget.
THEOREM TypeCorrect == Spec => []TypeOK
<1>1. Init => TypeOK
  BY TipStreamAssumption DEF Init, TypeOK
<1>2. TypeOK /\ [Next]_vars => TypeOK'
  <2> SUFFICES ASSUME TypeOK, [Next]_vars PROVE TypeOK'
    OBVIOUS
  <2> USE TipStreamAssumption DEF TypeOK
  <2>1. CASE Finalize
    BY <2>1 DEF Finalize
  <2>2. CASE EndStream
    BY <2>2 DEF EndStream
  <2>3. CASE Subscribe
    BY <2>3 DEF Subscribe
  <2>4. CASE Take
    BY <2>4 DEF Take
  <2>5. CASE Deliver
    BY <2>5 DEF Deliver
  <2>6. CASE BackoffOver
    BY <2>6 DEF BackoffOver
  <2>7. CASE Drained
    BY <2>7 DEF Drained
  <2>8. CASE StreamFails \/ ReadFails \/ DecodeFails
    BY <2>8 DEF StreamFails, ReadFails, DecodeFails, OnError
  <2>9. CASE Shutdown
    BY <2>9 DEF Shutdown
  <2>10. CASE UNCHANGED vars
    BY <2>10 DEF vars
  <2> QED
    BY <2>1, <2>2, <2>3, <2>4, <2>5, <2>6, <2>7, <2>8, <2>9, <2>10
    DEF Next, Progress
<1> QED
  BY <1>1, <1>2, PTL DEF Spec

\* As long as the subscription of the last delivery is still the one in use,
\* it continues right above that delivery, and a block taken from it and not
\* delivered yet is the next one.  Without a subscription no block is held.
InStep ==
  /\ pc = "map" <=> block # 0
  /\ stream = "open" => position > 0
  /\ stream = "none" => block = 0
  /\ stream = "open" /\ pc = "map" => position = block + 1
  /\ stream = "open" => pc # "backoff"
  /\ since = "same" =>
       /\ block # 0 => block = last + 1
       /\ stream = "open" /\ pc = "take" => position = last + 1

LEMMA InStepKept ==
  ASSUME TypeOK, InStep, [Next]_vars
  PROVE  InStep'
  <1> USE TipStreamAssumption DEF TypeOK, InStep
  <1>1. CASE Finalize
    BY <1>1 DEF Finalize
  <1>2. CASE EndStream
    BY <1>2 DEF EndStream
  <1>3. CASE Subscribe
    BY <1>3 DEF Subscribe
  <1>4. CASE Take
    BY <1>4 DEF Take
  <1>5. CASE Deliver
    BY <1>5 DEF Deliver
  <1>6. CASE BackoffOver
    BY <1>6 DEF BackoffOver
  <1>7. CASE Drained
    BY <1>7 DEF Drained
  <1>8. CASE StreamFails \/ ReadFails \/ DecodeFails
    BY <1>8 DEF StreamFails, ReadFails, DecodeFails, OnError
  <1>9. CASE Shutdown
    BY <1>9 DEF Shutdown
  <1>10. CASE UNCHANGED vars
    BY <1>10 DEF vars
  <1> QED
    BY <1>1, <1>2, <1>3, <1>4, <1>5, <1>6, <1>7, <1>8, <1>9, <1>10
    DEF Next, Progress

\* The source skips a block only across a new subscription, for every retry
\* budget and every pattern of errors: a block that was taken and could not be
\* read takes its subscription with it.
THEOREM NothingSkippedSilently == Spec => NoSilentSkip
<1>1. Init => InStep
  BY DEF Init, InStep
<1>2. TypeOK /\ InStep /\ [Next]_vars => InStep'
  BY InStepKept
<1>3. TypeOK /\ InStep /\ [Next]_vars
        => [last' # last /\ since = "same" => last' = last + 1]_vars
  <2> SUFFICES ASSUME TypeOK, InStep, Next, last' # last, since = "same"
               PROVE  last' = last + 1
    OBVIOUS
  <2>1. Deliver
    BY DEF Next, Progress, Finalize, EndStream, Subscribe, Take, BackoffOver,
           Drained, StreamFails, ReadFails, DecodeFails, OnError, Shutdown
  <2> QED
    BY <2>1 DEF Deliver, InStep
<1> QED
  BY <1>1, <1>2, <1>3, TypeCorrect, PTL DEF Spec, NoSilentSkip
=============================================================================
