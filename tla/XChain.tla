------------------------------- MODULE XChain -------------------------------
(***************************************************************************)
(* The election chain of one node: the public methods of class xchain      *)
(* (xelect/xchain.h and xchain.cpp).                                       *)
(*                                                                         *)
(* Every public method of xchain holds m_mutex from its first to its last  *)
(* line, so each of them is one atomic action.  The manager that calls     *)
(* them reads the last block with get_last_block, builds a block on it     *)
(* (xblock_head::init_from_last_block) and offers it to append_new_block;  *)
(* the lock is free in between, and blocks of other nodes may come in.     *)
(***************************************************************************)
EXTENDS XBlocks

VARIABLES m_blocks,  \* the retained blocks, oldest first
          m_cache,   \* xhash_cache: hashes of retained blocks
          held       \* what the manager's last get_last_block returned

vars == <<m_blocks, m_cache, held>>

-----------------------------------------------------------------------------
LastBlock == LastOf(m_blocks)

\* A variant that remembers a hash before the block is checked.
AppendBlockCachesFirst(b) ==
  /\ m_cache' = m_cache \cup {b.hash}
  /\ m_blocks' = IF Accepts(m_blocks, b) THEN BlocksWith(m_blocks, b) ELSE m_blocks

(* append_block: the whole method, under the caller's lock *)
AppendBlock(b) ==
  IF Accepts(m_blocks, b)
    THEN /\ m_blocks' = BlocksWith(m_blocks, b)
         /\ m_cache' = CacheWith(m_blocks, m_cache, b)
    ELSE UNCHANGED <<m_blocks, m_cache>>

-----------------------------------------------------------------------------
(* xchain::xchain *)
Init ==
  /\ m_blocks = <<Genesis>>
  /\ m_cache = {Genesis.hash}
  /\ held = NoBlock

(* xchain::append_new_block *)
AppendNewBlock(b) ==
  /\ AppendBlock(b)
  /\ UNCHANGED held

(* xchain::append_net_block: a cached hash returns early *)
AppendNetBlock(b) ==
  /\ IF b.hash \in m_cache THEN UNCHANGED <<m_blocks, m_cache>> ELSE AppendBlock(b)
  /\ UNCHANGED held

(* xchain::get_last_block, kept by the manager as the base of a new block *)
GetLastBlock ==
  /\ held' = LastBlock
  /\ UNCHANGED <<m_blocks, m_cache>>

Next ==
  \/ \E b \in Block : AppendNewBlock(b)
  \/ \E b \in Block : AppendNetBlock(b)
  \/ GetLastBlock

Spec == Init /\ [][Next]_vars

-----------------------------------------------------------------------------
(* Variables keep their types, the deque is never empty (append_block and  *)
(* get_last_block dereference rbegin) and never over its limit (xchain.h:  *)
(* "maintain at most 30 blocks").                                          *)
TypeOK ==
  /\ m_blocks \in Seq(Block \cup {Genesis})
  /\ Len(m_blocks) \in 1..MAX_BLOCKS
  /\ m_cache \in SUBSET Hash
  /\ held \in Block \cup {Genesis, NoBlock}

(* The retained blocks are one unbroken branch: heights go up by one and   *)
(* each block names the one before it, whatever jumps and evictions made   *)
(* the deque what it is (append_block, adjust_blocks).                     *)
ChainLinked == Linked(m_blocks)

(* The cache holds the hashes of the retained blocks, no more and no less: *)
(* inserts, evictions and the clear of a jump stay in step with the deque. *)
CacheMatchesBlocks == CacheFits(m_blocks, m_cache)

(* Deque and cache are sound together: what a jump clears, an eviction     *)
(* removes and an insert adds leaves one branch and exactly its hashes.    *)
ChainSound == ChainLinked /\ CacheMatchesBlocks

(* The early return of append_net_block on a cached hash never shuts out a *)
(* child of the last block, whatever damaged or relabelled copies came in: *)
(* if append_block would take what it turns away, then a relabelled copy   *)
(* of that is retained at another height, and the chain would jump.        *)
CacheTurnsAwayNoChild ==
  \A b \in Block : b.hash \in m_cache /\ Accepts(m_blocks, b) =>
    /\ Jumps(m_blocks, b)
    /\ \E i \in DOMAIN m_blocks :
         m_blocks[i].hash = b.hash /\ m_blocks[i].index # b.index

(* A block the manager built on a block it read earlier is accepted only   *)
(* if that block is still the last one: the chain moving on between        *)
(* get_last_block and append_new_block makes the new block stale, and it   *)
(* never makes the chain jump.                                             *)
NewBlockOnlyOnHeld ==
  [][\A b \in Block :
       held # NoBlock /\ BuiltOn(b, held)
         /\ AppendNewBlock(b) /\ m_blocks' # m_blocks
       => LastBlock.hash = held.hash /\ ~Jumps(m_blocks, b)]_vars

(* The chain implements the abstract tip, with the newest block as the tip *)
Tip == INSTANCE XChainTip WITH tip <- LastBlock

(* Seen through its last block the chain only ever moves to a sound block  *)
(* that is higher, and to a child of the last block when one higher.       *)
ImplementsTip == Tip!Spec
=============================================================================
