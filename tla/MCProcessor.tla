---------------------------- MODULE MCProcessor -----------------------------
(***************************************************************************)
(* Small block trees for Processor.  A tree is given by its forks, each a  *)
(* whole path from genesis; the node may present every prefix of a path.   *)
(***************************************************************************)
EXTENDS Processor

CONSTANT Paths

\* A trunk a0..a4, a fork b2.. that leaves it after a1, and c1.. after a0.
ThreeForks == { <<"a0", "a1", "a2", "a3", "a4">>,
                <<"a0", "a1", "b2", "b3", "b4">>,
                <<"a0", "c1", "c2", "c3", "c4">> }

\* Two forks, the second leaving after a1.
TwoForks == { <<"a0", "a1", "a2", "a3", "a4">>,
              <<"a0", "a1", "b2", "b3", "b4">> }

TreeHash == UNION {{p[i] : i \in DOMAIN p} : p \in Paths}

Positions(b) == {<<p, i>> \in Paths \X (1..(MaxHeight + 1)) :
                   i \in DOMAIN p /\ p[i] = b}

TreeNumber == [b \in TreeHash |-> (CHOOSE x \in Positions(b) : TRUE)[2] - 1]

TreeParent ==
  [b \in TreeHash |->
     LET x == CHOOSE y \in Positions(b) : TRUE
     IN  IF x[2] = 1 THEN None ELSE x[1][x[2] - 1]]

TreeChains ==
  {[h \in Height |-> IF h < x[2] THEN x[1][h + 1] ELSE None] :
     x \in {y \in Paths \X (1..MaxHeight) : y[2] <= Len(y[1])}}

\* Blocks without a handler row.
QuietBlocks == {"b3", "c2"}

TreeEvents == TreeHash \ QuietBlocks

NoHandlers == <<>>
BothClauses == <<"nothing", "update">>
=============================================================================
