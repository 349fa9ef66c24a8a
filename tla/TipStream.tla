----------------------------- MODULE TipStream ------------------------------
(***************************************************************************)
(* SubxtSource::next_finalized (subdex-source, source.rs) with its retries *)
(* (retry.rs), called over and over by follow_until: one subscription to   *)
(* the node's finalized blocks, opened lazily and dropped on every error.  *)
(*                                                                         *)
(* Heights stand for blocks, 1..MaxHead; the node does not fork here       *)
(* (Processor has the forks).  0 means no block.  What the engine does     *)
(* with a block is one step, Deliver; the mutex around the subscription    *)
(* has one user, so it does not appear.                                    *)
(***************************************************************************)
EXTENDS Integers

CONSTANTS
  MaxHead,      \* bound on the node's finalized height
  MaxRetries    \* RetryConfig.max_retries

ASSUME TipStreamAssumption ==
  /\ MaxHead \in Nat \ {0}
  /\ MaxRetries \in Nat

VARIABLES
  head,       \* the node's finalized height
  stream,     \* finalized_stream: "none", "open", or "ended" (yields None)
  position,   \* the height an open subscription yields next
  pc,         \* where next_finalized is
  block,      \* the block taken from the stream and not delivered yet
  attempt,    \* retry_async's counter in this call
  last,       \* the last height delivered to the engine
  since       \* history: "reopened" if subscribed since the last delivery

vars == <<head, stream, position, pc, block, attempt, last, since>>

Live == {"take", "map", "backoff"}

Init ==
  /\ head \in 1..MaxHead
  /\ stream = "none"
  /\ position = 0
  /\ pc = "take"
  /\ block = 0
  /\ attempt = 0
  /\ last = 0
  /\ since = "same"

-----------------------------------------------------------------------------
(* The node.                                                               *)

Finalize ==
  /\ head < MaxHead
  /\ head' = head + 1
  /\ UNCHANGED <<stream, position, pc, block, attempt, last, since>>

\* The subscription is closed in good order: its stream yields None from now on.
EndStream ==
  /\ stream = "open"
  /\ stream' = "ended"
  /\ position' = 0
  /\ UNCHANGED <<head, pc, block, attempt, last, since>>

-----------------------------------------------------------------------------
(* One attempt: next_finalized_once.                                       *)

\* stream_blocks(): a subscription starts at the node's finalized head.
Subscribe ==
  /\ pc = "take"
  /\ stream = "none"
  /\ stream' = "open"
  /\ position' = head
  /\ since' = "reopened"
  /\ UNCHANGED <<head, pc, block, attempt, last>>

\* stream.next() yields a block.
Take ==
  /\ pc = "take"
  /\ stream = "open"
  /\ position <= head
  /\ block' = position
  /\ position' = position + 1
  /\ pc' = "map"
  /\ UNCHANGED <<head, stream, attempt, last, since>>

\* stream.next() yields None: Ok with no blocks, and the engine calls again.
Drained ==
  /\ pc = "take"
  /\ stream = "ended"
  /\ attempt' = 0
  /\ UNCHANGED <<head, stream, position, pc, block, last, since>>

\* The block is read and mapped: Ok, the engine processes it and calls again.
Deliver ==
  /\ pc = "map"
  /\ last' = block
  /\ block' = 0
  /\ attempt' = 0
  /\ since' = "same"
  /\ pc' = "take"
  /\ UNCHANGED <<head, stream, position>>

-----------------------------------------------------------------------------
(* Errors: next_finalized drops the subscription, retry_async decides.     *)

Faulty_KeepStream(transient) ==   \* retries on the old subscription
  /\ block' = 0
  /\ IF transient /\ attempt < MaxRetries
     THEN pc' = "backoff" /\ attempt' = attempt + 1
     ELSE pc' = "failed" /\ attempt' = 0
  /\ UNCHANGED <<head, stream, position, last, since>>

Faulty_OneMore(transient) ==   \* one retry too many
  /\ stream' = "none"
  /\ position' = 0
  /\ block' = 0
  /\ IF transient /\ attempt <= MaxRetries
     THEN pc' = "backoff" /\ attempt' = attempt + 1
     ELSE pc' = "failed" /\ attempt' = 0
  /\ UNCHANGED <<head, last, since>>

OnError(transient) ==
  /\ stream' = "none"
  /\ position' = 0
  /\ block' = 0
  /\ IF transient /\ attempt < MaxRetries
     THEN pc' = "backoff" /\ attempt' = attempt + 1
     ELSE pc' = "failed" /\ attempt' = 0
  /\ UNCHANGED <<head, last, since>>

\* The subscription cannot be opened, or its stream yields an error.
Faulty_StreamFails ==   \* starts the budget over with every attempt
  /\ pc = "take"
  /\ stream # "ended"
  /\ stream' = "none"
  /\ position' = 0
  /\ pc' = "backoff"
  /\ UNCHANGED <<head, block, attempt, last, since>>

StreamFails ==
  /\ pc = "take"
  /\ stream # "ended"
  /\ OnError(TRUE)

\* A request for the block's contents fails.
ReadFails ==
  /\ pc = "map"
  /\ OnError(TRUE)

\* Its contents cannot be decoded.
DecodeFails ==
  /\ pc = "map"
  /\ OnError(FALSE)

BackoffOver ==
  /\ pc = "backoff"
  /\ pc' = "take"
  /\ UNCHANGED <<head, stream, position, block, attempt, last, since>>

-----------------------------------------------------------------------------
\* The shutdown future wins follow_until's select: the call is dropped at
\* whatever await it is, with the block it had taken.
Shutdown ==
  /\ pc \in Live
  /\ pc' = "stopped"
  /\ block' = 0
  /\ attempt' = 0
  /\ UNCHANGED <<head, stream, position, last, since>>

Progress == Subscribe \/ Take \/ Deliver \/ BackoffOver

Next ==
  \/ Finalize \/ EndStream
  \/ Progress \/ Drained
  \/ StreamFails \/ ReadFails \/ DecodeFails
  \/ Shutdown

Spec == Init /\ [][Next]_vars

\* The runtime polls the call on, timers fire and requests are answered: by
\* success or by one of the errors, none of which is owed.
FairSpec == Spec /\ WF_vars(Progress)

-----------------------------------------------------------------------------
(* Properties.                                                             *)

TypeOK ==
  /\ head \in 1..MaxHead
  /\ stream \in {"none", "open", "ended"}
  /\ position \in 0..(MaxHead + 1)
  /\ pc \in Live \cup {"failed", "stopped"}
  /\ block \in 0..MaxHead
  /\ attempt \in 0..MaxRetries
  /\ last \in 0..MaxHead
  /\ since \in {"same", "reopened"}

\* The source itself loses nothing: two deliveries without a new subscription
\* between them are neighbours, also when reading the first of them took
\* several attempts (a block that was taken and could not be read drops the
\* subscription with it).
NoSilentSkip ==
  [][last' # last /\ since = "same" => last' = last + 1]_vars

\* While the subscription is not closed in good order, a finalized block is
\* reached, or the call has failed or was stopped: errors delay the tip by a
\* bounded number of retries, they do not hang it.
TipReachedOrEnded ==
  \A h \in 1..MaxHead :
    head >= h ~> last >= h \/ pc \in {"failed", "stopped"} \/ stream = "ended"

\* The same without the exception: next_finalized reconnects "when the
\* finalized-block stream is dropped".
TipReached ==
  \A h \in 1..MaxHead :
    head >= h ~> last >= h \/ pc \in {"failed", "stopped"}
=============================================================================
