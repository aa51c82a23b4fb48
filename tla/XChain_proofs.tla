--------------------------- MODULE XChain_proofs ---------------------------
(***************************************************************************)
(* Proofs about the election chain of one node, for every set of blocks,   *)
(* every limit on the deque and every integer width.  XBlocks_proofs says  *)
(* what append_block does to one deque and its cache; here that is carried *)
(* along the behaviours of XChain.                                         *)
(***************************************************************************)
EXTENDS XChain, XBlocks_proofs

(* What the manager read earlier is the last block or lower than it.       *)
HeldBehind ==
  held # NoBlock =>
    held = LastBlock \/ held.index < LastBlock.index

(* The inductive invariant *)
IInv ==
  /\ WellFormed(m_blocks)
  /\ CacheFits(m_blocks, m_cache)
  /\ held \in Block \cup {Genesis, NoBlock}
  /\ HeldBehind

-----------------------------------------------------------------------------
LEMMA IInvImpliesTypeOK == IInv => TypeOK
  <1> SUFFICES ASSUME IInv PROVE TypeOK
    OBVIOUS
  <1>1. \A i \in DOMAIN m_blocks : m_blocks[i].hash \in Hash
    BY BlockType, LastRetained DEF IInv
  <1> QED
    BY <1>1 DEF IInv, TypeOK, WellFormed, CacheFits

LEMMA InitIInv == Init => IInv
  <1> SUFFICES ASSUME Init PROVE IInv
    OBVIOUS
  <1>1. WellFormed(m_blocks) /\ CacheFits(m_blocks, m_cache)
    BY GenesisWellFormed DEF Init
  <1> QED
    BY <1>1 DEF Init, IInv, HeldBehind

LEMMA CacheTurnsAwayFromIInv == IInv => CacheTurnsAwayNoChild
  <1> SUFFICES ASSUME IInv, NEW b \in Block, b.hash \in m_cache,
                      Accepts(m_blocks, b)
               PROVE  /\ Jumps(m_blocks, b)
                      /\ \E i \in DOMAIN m_blocks :
                           m_blocks[i].hash = b.hash /\ m_blocks[i].index # b.index
    BY DEF CacheTurnsAwayNoChild
  <1>1. WellFormed(m_blocks)
    BY DEF IInv
  <1>2. /\ b.hash_ok /\ b.index > LastBlock.index
        /\ ~Jumps(m_blocks, b) => b.prev_hash = LastOf(m_blocks).hash
    BY <1>1, AcceptedIsHigher DEF LastBlock
  <1>3. PICK i \in 1..Len(m_blocks) : b.hash = m_blocks[i].hash
    BY <1>1, LastRetained DEF IInv, CacheFits
  <1>4. Jumps(m_blocks, b)
    BY <1>1, <1>2, <1>3, ChildIsNew
  <1>5. m_blocks[i].index <= LastBlock.index
    <2>1. /\ Len(m_blocks) \in DOMAIN m_blocks /\ i \in DOMAIN m_blocks
          /\ LastBlock = m_blocks[Len(m_blocks)] /\ m_blocks[1].index \in Int
          /\ Len(m_blocks) \in Nat
      BY <1>1, LastRetained DEF LastBlock
    <2>2. /\ m_blocks[i].index = m_blocks[1].index + i - 1
          /\ LastBlock.index = m_blocks[1].index + Len(m_blocks) - 1
      BY <1>1, <2>1 DEF WellFormed, HeightsByPlace
    <2> QED
      BY <2>1, <2>2
  <1>6. b.index \in Int /\ LastBlock.index \in Int /\ m_blocks[i].index \in Int
    BY <1>1, BlockType, LastRetained DEF LastBlock
  <1>7. i \in DOMAIN m_blocks /\ m_blocks[i].index # b.index
    BY <1>1, <1>2, <1>5, <1>6, LastRetained
  <1> QED
    BY <1>3, <1>4, <1>7

-----------------------------------------------------------------------------
(* The step in which append_block takes b *)
Take(b) ==
  /\ Accepts(m_blocks, b)
  /\ m_blocks' = BlocksWith(m_blocks, b)
  /\ m_cache' = CacheWith(m_blocks, m_cache, b)
  /\ UNCHANGED held

(* Every step takes a block, reads the last one, or changes nothing.       *)
LEMMA StepKinds ==
  ASSUME [Next]_vars
  PROVE  \/ \E b \in Block : Take(b)
         \/ GetLastBlock
         \/ UNCHANGED vars
  <1>1. ASSUME NEW b \in Block, AppendBlock(b), UNCHANGED held
        PROVE  Take(b) \/ UNCHANGED vars
    BY <1>1 DEF AppendBlock, Take, vars
  <1>2. CASE \E b \in Block : AppendNewBlock(b)
    BY <1>1, <1>2 DEF AppendNewBlock
  <1>3. CASE \E b \in Block : AppendNetBlock(b)
    BY <1>1, <1>3 DEF AppendNetBlock, vars
  <1>4. CASE GetLastBlock \/ UNCHANGED vars
    BY <1>4
  <1> QED
    BY <1>2, <1>3, <1>4 DEF Next

LEMMA TakeStep ==
  ASSUME IInv, NEW b \in Block, Take(b)
  PROVE  IInv' /\ LastBlock' = b
  <1>1. WellFormed(m_blocks) /\ CacheFits(m_blocks, m_cache)
    BY DEF IInv
  <1>2. /\ Accepts(m_blocks, b)
        /\ m_blocks' = BlocksWith(m_blocks, b)
        /\ m_cache' = CacheWith(m_blocks, m_cache, b)
        /\ held' = held
    BY DEF Take
  <1>3. WellFormed(m_blocks') /\ LastOf(m_blocks') = b
    BY <1>1, <1>2, AppendKeepsWellFormed
  <1>4. CacheFits(m_blocks', m_cache')
    BY <1>1, <1>2, AppendKeepsCache
  <1>5. HeldBehind'
    <2>1. /\ b.index > LastBlock.index
          /\ b.index \in Int /\ LastBlock.index \in Int
      BY <1>1, <1>2, AcceptedIsHigher, BlockType, LastRetained DEF LastBlock
    <2>2. held # NoBlock => held.index \in Int
      BY BlockType DEF IInv
    <2> QED
      BY <1>2, <1>3, <2>1, <2>2 DEF IInv, HeldBehind, LastBlock
  <1> QED
    BY <1>2, <1>3, <1>4, <1>5 DEF IInv, LastBlock

LEMMA NextIInv == IInv /\ [Next]_vars => IInv'
  <1> SUFFICES ASSUME IInv, [Next]_vars PROVE IInv'
    OBVIOUS
  <1>1. CASE \E b \in Block : Take(b)
    BY <1>1, TakeStep
  <1>2. CASE GetLastBlock
    <2>1. LastBlock \in Block \cup {Genesis}
      BY LastRetained DEF IInv, LastBlock
    <2> QED
      BY <1>2, <2>1 DEF GetLastBlock, IInv, HeldBehind, LastBlock
  <1>3. CASE UNCHANGED vars
    BY <1>3 DEF vars, IInv, HeldBehind, LastBlock
  <1> QED
    BY <1>1, <1>2, <1>3, StepKinds

LEMMA SpecIInv == Spec => []IInv
  BY InitIInv, NextIInv, PTL DEF Spec

-----------------------------------------------------------------------------
(* The variables keep their types; the deque is never empty and never      *)
(* holds more than MAX_BLOCKS blocks (xchain.cpp, adjust_blocks).          *)
THEOREM TypeCorrect == Spec => []TypeOK
  BY SpecIInv, IInvImpliesTypeOK, PTL

(* The retained blocks always form one unbroken branch, and the hash cache *)
(* holds exactly their hashes (append_block, adjust_blocks).               *)
THEOREM ChainAlwaysSound == Spec => []ChainSound
  <1>1. IInv => ChainSound
    BY DEF IInv, WellFormed, ChainLinked, CacheMatchesBlocks, ChainSound
  <1> QED
    BY <1>1, SpecIInv, PTL

(* The early return of append_net_block never shuts out a child of the     *)
(* last block, whatever damaged or relabelled copies came in before.       *)
THEOREM CacheShutsOutNoChild == Spec => []CacheTurnsAwayNoChild
  BY SpecIInv, CacheTurnsAwayFromIInv, PTL

(* A new block is accepted only on the block it was built on.              *)
THEOREM NewBlockOnHeld == Spec => NewBlockOnlyOnHeld
  <1> DEFINE Fresh ==
        \A b \in Block :
          held # NoBlock /\ BuiltOn(b, held)
            /\ AppendNewBlock(b) /\ m_blocks' # m_blocks
          => LastBlock.hash = held.hash /\ ~Jumps(m_blocks, b)
  <1>1. ASSUME IInv, NEW b \in Block,
               held # NoBlock, BuiltOn(b, held),
               AppendNewBlock(b), m_blocks' # m_blocks
        PROVE  LastBlock.hash = held.hash /\ ~Jumps(m_blocks, b)
    <2>1. Accepts(m_blocks, b)
      BY <1>1 DEF AppendNewBlock, AppendBlock
    <2>2. /\ b.index > LastBlock.index
          /\ Jumps(m_blocks, b) => b.index > LastBlock.index + 1
      BY <1>1, <2>1, AcceptedIsHigher DEF IInv, LastBlock
    <2>3. /\ b.index \in Int
          /\ LastBlock.index \in 0..UINT64_MAX
          /\ held.index \in 0..UINT64_MAX
      BY <1>1, BlockType, LastRetained DEF IInv, LastBlock
    <2>4. b.index = held.index + 1
      BY <1>1, <2>2, <2>3, BoundAssumption DEF BuiltOn, Plus1
    <2>5. held = LastBlock
      BY <1>1, <2>2, <2>3, <2>4 DEF IInv, HeldBehind
    <2> QED
      BY <2>2, <2>3, <2>4, <2>5
  <1>2. IInv /\ [Next]_vars => [Fresh]_vars
    BY <1>1
  <1> QED
    BY <1>2, SpecIInv, PTL DEF Spec, NewBlockOnlyOnHeld

(* The chain implements the abstract tip: every step moves the last block  *)
(* to a sound, higher block, a child when one higher, or leaves it alone.  *)
THEOREM ChainImplementsTip == Spec => ImplementsTip
  <1>1. Init => Tip!Init
    BY DEF Init, Tip!Init, LastBlock, LastOf
  <1>2. ASSUME IInv, NEW b \in Block, Accepts(m_blocks, b), LastBlock' = b
        PROVE  Tip!Next
    <2>1. /\ b.value_ok /\ b.hash_ok
          /\ b.index > LastBlock.index
          /\ ~Jumps(m_blocks, b) => b.prev_hash = LastBlock.hash
          /\ Jumps(m_blocks, b) => b.index > LastBlock.index + 1
      BY <1>2, AcceptedIsHigher DEF IInv, LastBlock
    <2>2. b.index \in Int /\ LastBlock.index \in Int
      BY <1>2, BlockType, LastRetained DEF IInv, LastBlock
    <2>3. Tip!Replaces(b, LastBlock)
      BY <2>1, <2>2 DEF Tip!Replaces, Tip!Sound
    <2> QED
      BY <1>2, <2>3 DEF Tip!Next, Tip!Advance
  <1>3. IInv /\ [Next]_vars => [Tip!Next]_LastBlock
    <2> SUFFICES ASSUME IInv, [Next]_vars
                 PROVE  Tip!Next \/ LastBlock' = LastBlock
      OBVIOUS
    <2>1. CASE \E b \in Block : Take(b)
      BY <2>1, <1>2, TakeStep DEF Take
    <2>2. CASE GetLastBlock \/ UNCHANGED vars
      BY <2>2 DEF GetLastBlock, vars, LastBlock
    <2> QED
      BY <2>1, <2>2, StepKinds
  <1> QED
    BY <1>1, <1>3, SpecIInv, PTL DEF Spec, ImplementsTip, Tip!Spec
=============================================================================
