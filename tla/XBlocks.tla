------------------------------- MODULE XBlocks -------------------------------
(***************************************************************************)
(* Blocks of the election chain and what class xchain does to the deque    *)
(* and the hash cache it keeps: xblock_head (xelect/xblock.h, xblock.cpp)  *)
(* and the private methods of xchain (xelect/xchain.h, xchain.cpp), as     *)
(* operators.  XChain uses them for one node and XElectNet for several.    *)
(*                                                                         *)
(* A block is a record.  index, hash and prev_hash are the header fields   *)
(* m_index, m_hash and m_prev_hash.  value_ok tells whether sha256(m_body) *)
(* is m_value_hash, and hash_ok whether check_hash accepts the header: the *)
(* two comparisons of digests that append_block makes.  SHA-256 itself is  *)
(* outside the model; HashAssumption is what is asked of it.               *)
(***************************************************************************)
EXTENDS Integers, Sequences

CONSTANTS Block,       \* the blocks that may be offered to the chain
          Hash,        \* values of m_hash and m_prev_hash
          Genesis,     \* the block made by init_as_genesis_block
          Age,         \* when a hash was first computed
          NoBlock,     \* the manager holds no block
          MAX_BLOCKS,  \* how many blocks are retained (30 in the code)
          UINT64_MAX   \* the largest value of m_index

BlockHead ==
  [index : 0..UINT64_MAX, hash : Hash, prev_hash : Hash,
   value_ok : BOOLEAN, hash_ok : BOOLEAN]

ASSUME BoundAssumption == /\ MAX_BLOCKS \in Nat \ {0}
                          /\ UINT64_MAX \in Nat \ {0}

ASSUME BlockAssumption == /\ Block \subseteq BlockHead
                          /\ Genesis \in BlockHead
                          /\ Genesis.index = 0
                          /\ NoBlock \notin BlockHead

(***************************************************************************)
(* m_hash is the digest of the other header fields.  get_str_pre joins     *)
(* them without separators: index 12 and a time that begins with 0 read    *)
(* like index 120, and difficulty 1 nonce 23 like difficulty 12 nonce 3.   *)
(* So two headers that pass check_hash with one m_hash, a header and its   *)
(* relabelled copy, may differ in height; the two digests in the text have *)
(* one length, and they agree on prev_hash.  The genesis hash is the       *)
(* one-letter string "h" and no digest.  A digest is computed when what it *)
(* is the digest of is known, prev_hash included: no chain of hashes leads *)
(* back to itself.                                                         *)
(***************************************************************************)
ASSUME HashAssumption ==
  /\ \A b, c \in Block :
       b.hash_ok /\ c.hash_ok /\ b.hash = c.hash => b.prev_hash = c.prev_hash
  /\ \A b \in Block : b.hash_ok => b.hash # Genesis.hash
  /\ Age \in [Hash -> Nat]
  /\ \A b \in Block : b.hash_ok => Age[b.prev_hash] < Age[b.hash]

-----------------------------------------------------------------------------
(* uint64_t arithmetic: the largest value plus one is 0 *)
Plus1(i) == IF i = UINT64_MAX THEN 0 ELSE i + 1

(* The last block of a deque *)
LastOf(blocks) == blocks[Len(blocks)]

(* xblock_head::init_from_last_block: b is built on block t *)
BuiltOn(b, t) == b.index = Plus1(t.index) /\ b.prev_hash = t.hash

(* The branch of append_block that forgets everything before b *)
Jumps(blocks, b) == b.index > Plus1(LastOf(blocks).index)

\* Variants with a slip of the kind this code invites; nothing below uses them.
AcceptsAnyParent(blocks, b) ==
  b.value_ok /\ b.hash_ok /\ b.index > LastOf(blocks).index

AcceptsSameHeight(blocks, b) ==
  /\ b.value_ok
  /\ b.hash_ok
  /\ b.index >= LastOf(blocks).index
  /\ Jumps(blocks, b) \/ b.prev_hash \in {LastOf(blocks).hash, LastOf(blocks).prev_hash}

AcceptsAnyHeight(blocks, b) ==
  /\ b.value_ok
  /\ b.hash_ok
  /\ Jumps(blocks, b) \/ \E i \in DOMAIN blocks : b.prev_hash = blocks[i].hash

AcceptsOnlyChildren(blocks, b) ==
  /\ b.value_ok
  /\ b.hash_ok
  /\ b.index = LastOf(blocks).index + 1
  /\ b.prev_hash = LastOf(blocks).hash

AdjustBlocksNever(blocks) == blocks

AdjustCacheNever(blocks, cache) == cache

(* The checks of append_block, in their order *)
Accepts(blocks, b) ==
  /\ b.value_ok
  /\ b.hash_ok
  /\ b.index > LastOf(blocks).index
  /\ Jumps(blocks, b) \/ b.prev_hash = LastOf(blocks).hash

(* adjust_blocks, on the deque *)
AdjustBlocks(blocks) ==
  IF Len(blocks) > MAX_BLOCKS THEN Tail(blocks) ELSE blocks

(* adjust_blocks, on the cache *)
AdjustCache(blocks, cache) ==
  IF Len(blocks) > MAX_BLOCKS THEN cache \ {Head(blocks).hash} ELSE cache

(* The deque and the cache once append_block has accepted b *)
BlocksWith(blocks, b) ==
  IF Jumps(blocks, b) THEN <<b>> ELSE AdjustBlocks(Append(blocks, b))

CacheWith(blocks, cache, b) ==
  IF Jumps(blocks, b)
    THEN {b.hash}
    ELSE AdjustCache(Append(blocks, b), cache \cup {b.hash})

-----------------------------------------------------------------------------
(* The heights in a deque go up by one and each block names the one before *)
Linked(blocks) ==
  \A i \in 1 .. Len(blocks) - 1 :
    /\ blocks[i + 1].index = blocks[i].index + 1
    /\ blocks[i + 1].prev_hash = blocks[i].hash

(* The cache holds the hashes of the blocks in the deque and no other *)
CacheFits(blocks, cache) == cache = {blocks[i].hash : i \in DOMAIN blocks}

(* Below a block in both deques they are the same as far as both go down *)
Agree(blocks, others) ==
  \A i \in DOMAIN blocks, j \in DOMAIN others :
    blocks[i].hash = others[j].hash =>
      \A k \in 1 .. i - 1 : k < j => blocks[i - k].hash = others[j - k].hash
=============================================================================
