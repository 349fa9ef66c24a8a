------------------------------- MODULE Blocks -------------------------------
(***************************************************************************)
(* Blocks, chains of blocks and tables of blocks: the data model of        *)
(* subdex-core (types.rs) that every other module shares.                  *)
(*                                                                         *)
(* A block is its hash.  The hash commits to the height and to the parent  *)
(* hash, so both are functions of it.  A chain and a table keyed by height *)
(* are both functions from heights to hashes, None where there is nothing. *)
(***************************************************************************)
EXTENDS Integers

CONSTANTS
  MaxHeight,   \* the largest BlockNumber (u32::MAX in the code)
  Hash,        \* the block hashes, over all forks
  None,        \* "no block here": Option::None, SQL no row
  Number,      \* Number[b]: height of block b
  Parent,      \* Parent[b]: parent hash of block b, None for a genesis
  Chains       \* the finalized chains a node may ever present

Height == 0..MaxHeight

\* What a height-keyed store may hold.
Tables == [Height -> Hash \cup {None}]

EmptyTable == [h \in Height |-> None]

IsEmpty(t) == \A h \in Height : t[h] = None

\* n is the highest height at which t holds a block.
IsTop(t, n) ==
  /\ n \in Height
  /\ t[n] # None
  /\ \A h \in Height : h > n => t[h] = None

Top(t) == CHOOSE n \in Height : IsTop(t, n)

\* Every block sits at its own height.
InPlace(t) == \A h \in Height : t[h] # None => Number[t[h]] = h

\* Two stored neighbours are parent and child.
Linked(t) ==
  \A h \in Height :
    h > 0 /\ t[h] # None /\ t[h-1] # None => Parent[t[h]] = t[h-1]

\* The stored heights have no hole.
Contiguous(t) ==
  \A i, j, k \in Height :
    i < j /\ j < k /\ t[i] # None /\ t[k] # None => t[j] # None

\* A hole-free piece of one chain.
IsSegment(t) == InPlace(t) /\ Linked(t) /\ Contiguous(t)

\* A whole chain: from a genesis up to a head.  The head stays below the
\* largest height, so that `+ 1` on a height of a chain never saturates.
IsChain(c) ==
  /\ c \in Tables
  /\ c[0] # None
  /\ c[MaxHeight] = None
  /\ \E n \in Height : IsTop(c, n)
  /\ IsSegment(c)

\* c is d with one more block on top.
ExtendsByOne(c, d) ==
  /\ Top(c) = Top(d) + 1
  /\ \A h \in 0..Top(d) : c[h] = d[h]

\* c and d have different blocks at some height.
Diverge(c, d) ==
  \E h \in Height : c[h] # None /\ d[h] # None /\ c[h] # d[h]

\* The lowest such height.
FirstDifference(c, d) ==
  CHOOSE h \in Height : c[h] # d[h] /\ \A k \in 0..(h-1) : c[k] = d[k]

\* u32::saturating_sub and u32::saturating_add.
SatSub(a, b) == IF a < b THEN 0 ELSE a - b

SatAdd(a, b) == IF a + b > MaxHeight THEN MaxHeight ELSE a + b

Least(a, b) == IF a < b THEN a ELSE b

ASSUME BlocksAssumption ==
  /\ MaxHeight \in Nat \ {0}
  /\ None \notin Hash /\ None \notin Height
  /\ Number \in [Hash -> Height]
  /\ Parent \in [Hash -> Hash \cup {None}]
  /\ Chains # {}
  /\ \A c \in Chains : IsChain(c)
=============================================================================
