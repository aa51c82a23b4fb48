----------------------------- MODULE XChainTip -----------------------------
(***************************************************************************)
(* What the election chain promises the rest of a node, without deques,    *)
(* caches or locks: one current block.  It is replaced only by a block     *)
(* whose content and head hash are right, never by an older one or by one  *)
(* of the same height, and a block of the very next height must name the   *)
(* current block as its parent.  A block further ahead is taken as it is   *)
(* (a node that was away catches up by jumping).                           *)
(***************************************************************************)
EXTENDS Integers

CONSTANTS Block,    \* the blocks that may be offered to the chain
          Genesis   \* the block every node starts from

VARIABLE tip

Sound(b) == b.value_ok /\ b.hash_ok

Replaces(b, t) ==
  /\ Sound(b)
  /\ b.index > t.index
  /\ b.index = t.index + 1 => b.prev_hash = t.hash

Init == tip = Genesis

Advance == \E b \in Block : Replaces(b, tip) /\ tip' = b

Next == Advance

Spec == Init /\ [][Next]_tip
=============================================================================
