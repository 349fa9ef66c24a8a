----------------------------- MODULE ChainIndex -----------------------------
(***************************************************************************)
(* What an indexer's table of blocks promises to its readers, whatever     *)
(* engine fills it: it is a window on one chain that only ever grows at    *)
(* the top, is trimmed at the bottom, and is cut back to an ancestor.      *)
(***************************************************************************)
EXTENDS Blocks

VARIABLE table

\* t keeps the rows of s, or forgets them from the bottom up.
KeepsTop(t, s) ==
  \A h \in Height : s[h] # None =>
    \/ t[h] = s[h]
    \/ \A k \in 0..h : t[k] = None

\* The first block above s continues s, or is forgotten already.
Continues(t, s) ==
  \A h \in Height : h > 0 /\ IsTop(s, h-1) =>
    \/ t[h] # None /\ Parent[t[h]] = s[h-1]
    \/ \A k \in 0..h : t[k] = None

\* A batch arrives on top of the table.
Extend ==
  /\ table' \in Tables
  /\ ~IsEmpty(table')
  /\ IsSegment(table')
  /\ KeepsTop(table', table)
  /\ Continues(table', table)

\* A reorg cuts the table back to an ancestor.
CutBack ==
  \E f \in Height :
    table' = [h \in Height |-> IF h > f THEN None ELSE table[h]]

Init == table = EmptyTable

Next == Extend \/ CutBack

Spec == Init /\ [][Next]_table
=============================================================================
