---------------------------- MODULE MCXElectNet ----------------------------
(***************************************************************************)
(* XElectNet over the blocks a few nodes can make: a block's hash is the   *)
(* path of makers from the genesis block to it.                            *)
(***************************************************************************)
EXTENDS XElectNet, TLC

CONSTANTS n1, n2, n3, MaxDepth

TwoNodes == {n1, n2}
ThreeNodes == {n1, n2, n3}

Paths(n) == UNION {[1..k -> Node] : k \in 0..n}

MkBlock(p) ==
  [index |-> Len(p), hash |-> p, prev_hash |-> SubSeq(p, 1, Len(p) - 1),
   value_ok |-> TRUE, hash_ok |-> TRUE]

MCHash == Paths(MaxDepth)
MCGenesis == [index |-> 0, hash |-> <<>>, prev_hash |-> <<>>,
              value_ok |-> FALSE, hash_ok |-> FALSE]
MCAge == [p \in MCHash |-> Len(p)]
MCBlock == {MkBlock(p) : p \in Paths(MaxDepth) \ {<<>>}}

\* Of the blocks on one branch n2 makes at most one
MCFewBlocks == {b \in MCBlock : Cardinality({i \in 1..b.index : b.hash[i] = n2}) <= 1}

NodeSymmetry == Permutations(Node)
=============================================================================
