------------------------------ MODULE MCXChain ------------------------------
(***************************************************************************)
(* XChain on a small tree of blocks.  A hash is the path of a block in the *)
(* tree, so it stands for all the block's ancestors, as a digest does.     *)
(* Heights wrap after UINT64_MAX, as uint64_t does after 2^64 - 1, and a   *)
(* block of height 0 on top of the highest one is in the set.  DamagedBody *)
(* and DamagedHead blocks carry the hash of a good block and fail one of   *)
(* the two digest comparisons; Relabelled blocks pass both.                *)
(***************************************************************************)
EXTENDS XChain, FiniteSets

CONSTANTS Branches,  \* how many children a block may have
          MaxDepth   \* length of the longest path

Paths(n) == UNION {[1..k -> 1..Branches] : k \in 0..n}

MkBlock(p, v, h) ==
  [index |-> Len(p) % (UINT64_MAX + 1), hash |-> p,
   prev_hash |-> SubSeq(p, 1, Len(p) - 1), value_ok |-> v, hash_ok |-> h]

MCHash == Paths(MaxDepth)

MCGenesis == [index |-> 0, hash |-> <<>>, prev_hash |-> <<>>,
              value_ok |-> FALSE, hash_ok |-> FALSE]

MCAge == [p \in MCHash |-> Len(p)]

DamagedBody(p) == MkBlock(p, FALSE, TRUE)
DamagedHead(p) == [MkBlock(p, TRUE, FALSE) EXCEPT !.index = UINT64_MAX]
\* A header of the same text that reads as a greater height
Relabelled(p) == [MkBlock(p, TRUE, TRUE) EXCEPT !.index = Len(p) + 2]

MCBlock ==
  LET grown == Paths(MaxDepth) \ {<<>>}
  IN  {MkBlock(p, TRUE, TRUE) : p \in grown}
        \cup {DamagedBody(p) : p \in Paths(2) \ {<<>>}}
        \cup {DamagedHead(p) : p \in Paths(2) \ {<<>>}}
        \cup {Relabelled(p) : p \in Paths(2) \ {<<>>}}
=============================================================================
