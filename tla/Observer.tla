------------------------------ MODULE Observer ------------------------------
(***************************************************************************)
(* The Prometheus observer (metrics.rs) behind the hooks that the engine   *)
(* calls (subdex-core, observer.rs): the gauges an operator watches.       *)
(* Counters and histograms are left out.                                   *)
(***************************************************************************)
EXTENDS Blocks

\* subdex_cursor_height, subdex_finalized_head and subdex_head_lag live in the
\* process and start at 0.
Gauges == [cursor : Height, head : Height, lag : Height]

NoGauges == [cursor |-> 0, head |-> 0, lag |-> 0]

\* publish_lag: max(head - cursor, 0).
PublishLag(g) == [g EXCEPT !.lag = SatSub(g.head, g.cursor)]

OnBatchCommitted(g, cursor) == PublishLag([g EXCEPT !.cursor = cursor])

Faulty_OnHead(g, h) == [g EXCEPT !.head = h]   \* the lag is not republished

OnHead(g, h) == PublishLag([g EXCEPT !.head = h])

\* on_reorg counts, and leaves the gauges alone.
OnReorg(g) == g
=============================================================================
