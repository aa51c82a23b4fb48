--------------------------- MODULE XBlocks_proofs ---------------------------
(***************************************************************************)
(* What append_block keeps true of one deque and its cache, for every set  *)
(* of blocks, every limit on the deque and every integer width.            *)
(***************************************************************************)
EXTENDS XBlocks, TLAPS

(* A block that may be retained: genesis, or one that passed both checks *)
Retainable(b) == b = Genesis \/ (b \in Block /\ b.value_ok /\ b.hash_ok)

(* The height of a block follows from its place in the deque *)
HeightsByPlace(blocks) ==
  \A i \in DOMAIN blocks : blocks[i].index = blocks[1].index + i - 1

(* So does the order in which the hashes were computed *)
AgesByPlace(blocks) ==
  \A i, j \in DOMAIN blocks : i < j => Age[blocks[i].hash] < Age[blocks[j].hash]

(* A deque as append_block leaves it *)
WellFormed(blocks) ==
  /\ blocks \in Seq(Block \cup {Genesis})
  /\ Len(blocks) \in 1..MAX_BLOCKS
  /\ \A i \in DOMAIN blocks : Retainable(blocks[i])
  /\ HeightsByPlace(blocks)
  /\ AgesByPlace(blocks)
  /\ Linked(blocks)

-----------------------------------------------------------------------------
(* What the constants' assumptions say of one block *)
LEMMA BlockType ==
  /\ \A b \in Block \cup {Genesis} :
       /\ b.index \in 0..UINT64_MAX
       /\ b.hash \in Hash
       /\ b.prev_hash \in Hash
  /\ NoBlock \notin Block \cup {Genesis}
  BY BlockAssumption DEF BlockHead

(* The last block is one of the retained ones.                             *)
LEMMA LastRetained ==
  ASSUME NEW blocks, WellFormed(blocks)
  PROVE  /\ DOMAIN blocks = 1..Len(blocks)
         /\ Len(blocks) \in Nat /\ Len(blocks) >= 1
         /\ LastOf(blocks) = blocks[Len(blocks)]
         /\ LastOf(blocks) \in Block \cup {Genesis}
         /\ \A i \in 1..Len(blocks) : blocks[i] \in Block \cup {Genesis}
         /\ \A i \in 1..Len(blocks) : blocks[i].index \in Int
         /\ LastOf(blocks).index \in 0..UINT64_MAX
  BY BoundAssumption, BlockType DEF WellFormed, LastOf

(* The chain of a node that has just started                               *)
LEMMA GenesisWellFormed ==
  /\ WellFormed(<<Genesis>>)
  /\ LastOf(<<Genesis>>) = Genesis
  /\ CacheFits(<<Genesis>>, {Genesis.hash})
  <1> DEFINE G == <<Genesis>>
  <1>1. /\ Len(G) = 1 /\ DOMAIN G = {1} /\ G[1] = Genesis
        /\ G \in Seq(Block \cup {Genesis})
    OBVIOUS
  <1>2. Genesis.index \in Int
    BY BlockType
  <1> HIDE DEF G
  <1>3. WellFormed(G)
    BY <1>1, <1>2, BoundAssumption
       DEF WellFormed, Retainable, HeightsByPlace, AgesByPlace, Linked
  <1>4. LastOf(G) = Genesis /\ CacheFits(G, {Genesis.hash})
    BY <1>1 DEF LastOf, CacheFits
  <1> QED
    BY <1>3, <1>4 DEF G

(* A block that append_block accepts is higher than the last one; if it is *)
(* no jump it is exactly one higher and names the last block as parent.    *)
(* The uint64_t sum cannot have wrapped: nothing is higher than the        *)
(* largest value.                                                          *)
LEMMA AcceptedIsHigher ==
  ASSUME NEW blocks, WellFormed(blocks), NEW b \in Block, Accepts(blocks, b)
  PROVE  /\ b.value_ok /\ b.hash_ok
         /\ b.index > LastOf(blocks).index
         /\ ~Jumps(blocks, b) =>
              b.index = LastOf(blocks).index + 1 /\ b.prev_hash = LastOf(blocks).hash
         /\ Jumps(blocks, b) => b.index > LastOf(blocks).index + 1
  <1>1. b.index \in 0..UINT64_MAX /\ LastOf(blocks).index \in 0..UINT64_MAX
    BY BlockType, LastRetained
  <1>2. b.index > LastOf(blocks).index
    BY DEF Accepts
  <1>3. Plus1(LastOf(blocks).index) = LastOf(blocks).index + 1
    BY <1>1, <1>2, BoundAssumption DEF Plus1
  <1>4. b.value_ok /\ b.hash_ok
    BY DEF Accepts
  <1>5. Jumps(blocks, b) <=> b.index > LastOf(blocks).index + 1
    BY <1>3 DEF Jumps
  <1>6. Jumps(blocks, b) \/ b.prev_hash = LastOf(blocks).hash
    BY DEF Accepts
  <1> QED
    BY <1>1, <1>2, <1>4, <1>5, <1>6

(* Hashes have ages that can be compared.                                  *)
LEMMA AgeType ==
  \A b \in Block \cup {Genesis} : Age[b.hash] \in Nat /\ Age[b.prev_hash] \in Nat
  BY HashAssumption, BlockType

(* Two blocks in different places of a deque have different hashes: the    *)
(* one that is built on the other is younger.                              *)
LEMMA HashesDiffer ==
  ASSUME NEW blocks, WellFormed(blocks),
         NEW i \in 1..Len(blocks), NEW j \in 1..Len(blocks),
         blocks[i].hash = blocks[j].hash
  PROVE  i = j
  <1>1. /\ i \in Int /\ j \in Int /\ i \in DOMAIN blocks /\ j \in DOMAIN blocks
        /\ Age[blocks[i].hash] \in Nat /\ Age[blocks[i].hash] = Age[blocks[j].hash]
    BY AgeType, LastRetained
  <1>2. ~(i < j) /\ ~(j < i)
    BY <1>1 DEF WellFormed, AgesByPlace
  <1> QED
    BY <1>1, <1>2

(* A child of the last block has a hash that no retained block has: a copy *)
(* of a retained block has that block's parent, which is older than it.    *)
LEMMA ChildIsNew ==
  ASSUME NEW blocks, WellFormed(blocks), NEW b \in Block, b.hash_ok,
         b.prev_hash = LastOf(blocks).hash, NEW i \in 1..Len(blocks)
  PROVE  Age[blocks[i].hash] < Age[b.hash] /\ b.hash # blocks[i].hash
  <1>1. /\ Len(blocks) \in Nat /\ LastOf(blocks) = blocks[Len(blocks)]
        /\ Len(blocks) \in DOMAIN blocks /\ i \in DOMAIN blocks /\ i \in Int
        /\ blocks[i] \in Block \cup {Genesis} /\ LastOf(blocks) \in Block \cup {Genesis}
    BY LastRetained
  <1>2. Age[b.prev_hash] < Age[b.hash]
    BY HashAssumption
  <1>3. Age[blocks[i].hash] <= Age[LastOf(blocks).hash]
    <2>1. i = Len(blocks) \/ i < Len(blocks)
      BY <1>1
    <2>2. i < Len(blocks) => Age[blocks[i].hash] < Age[LastOf(blocks).hash]
      BY <1>1 DEF WellFormed, AgesByPlace
    <2>3. Age[blocks[i].hash] \in Nat /\ Age[LastOf(blocks).hash] \in Nat
      BY <1>1, AgeType
    <2> QED
      BY <1>1, <2>1, <2>2, <2>3
  <1>4. /\ Age[blocks[i].hash] \in Nat /\ Age[LastOf(blocks).hash] \in Nat
        /\ Age[b.hash] \in Nat
    BY <1>1, AgeType
  <1> QED
    BY <1>2, <1>3, <1>4

-----------------------------------------------------------------------------
(* Extending the deque: the new block goes last, and k = 1 says that the   *)
(* oldest one went.                                                        *)
LEMMA ExtendedDeque ==
  ASSUME NEW blocks, WellFormed(blocks), NEW b \in Block, ~Jumps(blocks, b),
         NEW D, D = BlocksWith(blocks, b)
  PROVE  \E k \in {0, 1} :
           /\ k = 1 <=> Len(blocks) + 1 > MAX_BLOCKS
           /\ D \in Seq(Block \cup {Genesis})
           /\ Len(D) = Len(blocks) + 1 - k
           /\ Len(D) \in 1..MAX_BLOCKS
           /\ D[Len(D)] = b
           /\ \A i \in 1 .. Len(D) - 1 : D[i] = blocks[i + k]
  <1> DEFINE A == Append(blocks, b)
  <1>1. /\ blocks \in Seq(Block \cup {Genesis})
        /\ Len(blocks) \in 1..MAX_BLOCKS
    BY DEF WellFormed
  <1>2. /\ A \in Seq(Block \cup {Genesis})
        /\ Len(A) = Len(blocks) + 1
        /\ A[Len(blocks) + 1] = b
        /\ \A i \in 1..Len(blocks) : A[i] = blocks[i]
    BY <1>1
  <1>3. D = AdjustBlocks(A)
    BY DEF BlocksWith
  <1>4. CASE Len(A) > MAX_BLOCKS
    <2>1. D = Tail(A)
      BY <1>3, <1>4 DEF AdjustBlocks
    <2>2. /\ D \in Seq(Block \cup {Genesis})
          /\ Len(D) = Len(A) - 1
          /\ \A i \in 1..Len(D) : D[i] = A[i + 1]
      BY <2>1, <1>1, <1>2
    <2> HIDE DEF A
    <2> QED
      BY <2>2, <1>1, <1>2, <1>4, BoundAssumption
  <1>5. CASE ~(Len(A) > MAX_BLOCKS)
    <2>1. D = A
      BY <1>3, <1>5 DEF AdjustBlocks
    <2> HIDE DEF A
    <2> QED
      BY <2>1, <1>1, <1>2, <1>5, BoundAssumption
  <1> QED
    BY <1>4, <1>5

(* Accepting a block keeps the deque well formed, and the block is last.   *)
LEMMA AppendKeepsWellFormed ==
  ASSUME NEW blocks, WellFormed(blocks), NEW b \in Block, Accepts(blocks, b),
         NEW D, D = BlocksWith(blocks, b)
  PROVE  WellFormed(D) /\ LastOf(D) = b
  <1> DEFINE n == Len(blocks)
             d == Len(D)
  <1>1. /\ b.value_ok /\ b.hash_ok
        /\ b.index \in Int
        /\ ~Jumps(blocks, b) => /\ b.index = LastOf(blocks).index + 1
                                /\ b.prev_hash = LastOf(blocks).hash
    BY AcceptedIsHigher, BlockType
  <1>2. CASE Jumps(blocks, b)
    <2>1. D = <<b>>
      BY <1>2 DEF BlocksWith
    <2>2. /\ Len(D) = 1 /\ DOMAIN D = {1} /\ D[1] = b
          /\ D \in Seq(Block \cup {Genesis})
      BY <2>1
    <2> QED
      BY <2>2, <1>1, BoundAssumption
         DEF WellFormed, Retainable, HeightsByPlace, AgesByPlace, Linked, LastOf
  <1>3. CASE ~Jumps(blocks, b)
    <2>1. PICK k \in {0, 1} :
            /\ k = 1 <=> n + 1 > MAX_BLOCKS
            /\ D \in Seq(Block \cup {Genesis})
            /\ d = n + 1 - k
            /\ d \in 1..MAX_BLOCKS
            /\ D[d] = b
            /\ \A i \in 1 .. d - 1 : D[i] = blocks[i + k]
      BY <1>3, ExtendedDeque
    <2>2. /\ \A i \in 1..n : blocks[i].index \in Int
          /\ DOMAIN blocks = 1..n /\ n \in Nat /\ n >= 1
          /\ LastOf(blocks) = blocks[n]
          /\ LastOf(blocks).index \in Int
      BY LastRetained
    <2>3. DOMAIN D = 1..d /\ d \in Nat /\ d >= 1 /\ k \in Nat
      BY <2>1, BoundAssumption
    <2>4. LastOf(D) = b
      BY <2>1 DEF LastOf
    <2>5. \A i \in 1..n : blocks[i].index = blocks[1].index + i - 1
      BY <2>2 DEF WellFormed, HeightsByPlace
    <2>6. \A i \in 1 .. d - 1 : i + k \in 1..n
      BY <2>1, <2>2, <2>3
    <2>7. ASSUME NEW i \in 1..d PROVE Retainable(D[i])
      <3>1. CASE i = d
        BY <3>1, <2>1, <1>1 DEF Retainable
      <3>2. CASE i # d
        <4>1. i \in 1 .. d - 1
          <5> HIDE DEF d
          <5> QED
            BY <3>2, <2>3
        <4>2. D[i] = blocks[i + k] /\ i + k \in DOMAIN blocks
          BY <4>1, <2>1, <2>2, <2>6
        <4> QED
          BY <4>2 DEF WellFormed
      <3> QED
        BY <3>1, <3>2
    <2>8. ASSUME NEW i \in 1..d
          PROVE  D[i].index = blocks[1].index + k + i - 1
      <3>1. CASE i = d
        <4>1. LastOf(blocks).index = blocks[1].index + n - 1
          BY <2>2, <2>5
        <4>2. b.index = (blocks[1].index + n - 1) + 1
          BY <4>1, <1>1, <1>3
        <4>3. D[i].index = b.index /\ k + i = n + 1
          <5>1. D[i] = b /\ i = d
            BY <3>1, <2>1
          <5>2. d = n + 1 - k
            BY <2>1
          <5> HIDE DEF d, n
          <5> QED
            BY <5>1, <5>2, <2>2, <2>3
        <4>4. blocks[1].index \in Int
          BY <2>2
        <4> HIDE DEF n, d
        <4>5. k \in Int /\ i \in Int /\ n \in Int
          BY <2>2, <2>3
        <4> QED
          BY ONLY <4>2, <4>3, <4>4, <4>5
      <3>2. CASE i # d
        <4>1. D[i].index = blocks[1].index + (i + k) - 1
          BY <3>2, <2>1, <2>3, <2>5, <2>6
        <4> QED
          BY <4>1, <2>2, <2>3
      <3> QED
        BY <3>1, <3>2
    <2>9. HeightsByPlace(D)
      BY <2>8, <2>2, <2>3 DEF HeightsByPlace
    <2>10. ASSUME NEW i \in 1 .. d - 1
           PROVE  /\ D[i + 1].index = D[i].index + 1
                  /\ D[i + 1].prev_hash = D[i].hash
      <3>1. D[i + 1].index = D[i].index + 1
        <4>1. i \in 1..d /\ i + 1 \in 1..d /\ i \in Int
          BY <2>3
        <4>2. /\ D[i].index = blocks[1].index + k + i - 1
              /\ D[i + 1].index = blocks[1].index + k + (i + 1) - 1
          BY <4>1, <2>8
        <4>3. blocks[1].index \in Int /\ k \in Int
          BY <2>2, <2>3
        <4> QED
          BY <4>1, <4>2, <4>3
      <3>2. CASE i + 1 = d
        <4>1. D[i] = LastOf(blocks)
          BY <3>2, <2>1, <2>2, <2>3
        <4> QED
          BY <4>1, <3>1, <3>2, <2>1, <1>1, <1>3
      <3>3. CASE i + 1 # d
        <4>1. /\ D[i] = blocks[i + k]
              /\ D[i + 1] = blocks[i + k + 1]
              /\ i + k \in 1 .. n - 1
          BY <3>3, <2>1, <2>2, <2>3, <2>6
        <4> QED
          BY <4>1, <3>1 DEF WellFormed, Linked
      <3> QED
        BY <3>2, <3>3
    <2>11. Linked(D)
      BY <2>10 DEF Linked
    <2>12. ASSUME NEW i \in 1..d, NEW j \in 1..d, i < j
           PROVE  Age[D[i].hash] < Age[D[j].hash]
      <3>1. i \in 1 .. d - 1 /\ i + k \in 1..n /\ D[i] = blocks[i + k]
        <4>1. i \in 1 .. d - 1
          BY <2>3, <2>12
        <4> QED
          BY <4>1, <2>1, <2>6
      <3>2. CASE j = d
        <4>1. b.prev_hash = LastOf(blocks).hash
          BY <1>1, <1>3
        <4>2. Age[blocks[i + k].hash] < Age[b.hash]
          BY <1>1, <3>1, <4>1, ChildIsNew
        <4> QED
          BY <3>1, <3>2, <4>2, <2>1
      <3>3. CASE j # d
        <4>1. j \in 1 .. d - 1 /\ i + k < j + k
          <5> HIDE DEF d
          <5>1. i \in Int /\ j \in Int /\ k \in Int /\ d \in Nat /\ j \in 1..d /\ i < j /\ j # d
            BY <3>3, <2>3, <2>12
          <5> QED
            BY ONLY <5>1
        <4>2. j + k \in 1..n /\ D[j] = blocks[j + k]
          BY <4>1, <2>1, <2>6
        <4> QED
          BY <3>1, <4>1, <4>2, <2>2 DEF WellFormed, AgesByPlace
      <3> QED
        BY <3>2, <3>3
    <2>13. AgesByPlace(D)
      BY <2>3, <2>12 DEF AgesByPlace
    <2> QED
      BY <2>1, <2>3, <2>4, <2>7, <2>9, <2>11, <2>13 DEF WellFormed
  <1> QED
    BY <1>2, <1>3

(* Accepting a block keeps the cache in step with the deque.               *)
LEMMA AppendKeepsCache ==
  ASSUME NEW blocks, WellFormed(blocks), NEW b \in Block, Accepts(blocks, b),
         NEW cache, CacheFits(blocks, cache),
         NEW D, D = BlocksWith(blocks, b)
  PROVE  CacheFits(D, CacheWith(blocks, cache, b))
  <1> DEFINE n == Len(blocks)
             d == Len(D)
             A == Append(blocks, b)
             H == cache \cup {b.hash}
             C == CacheWith(blocks, cache, b)
  <1>1. CASE Jumps(blocks, b)
    <2>1. D = <<b>> /\ C = {b.hash}
      BY <1>1 DEF BlocksWith, CacheWith
    <2>2. DOMAIN D = {1} /\ D[1] = b
      BY <2>1
    <2> QED
      BY <2>1, <2>2 DEF CacheFits
  <1>2. CASE ~Jumps(blocks, b)
    <2>1. PICK k \in {0, 1} :
            /\ k = 1 <=> n + 1 > MAX_BLOCKS
            /\ D \in Seq(Block \cup {Genesis})
            /\ d = n + 1 - k
            /\ d \in 1..MAX_BLOCKS
            /\ D[d] = b
            /\ \A i \in 1 .. d - 1 : D[i] = blocks[i + k]
      BY <1>2, ExtendedDeque
    <2>2. DOMAIN blocks = 1..n /\ n \in Nat /\ n >= 1
      BY LastRetained
    <2>3. DOMAIN D = 1..d /\ d \in 1..d
      BY <2>1, BoundAssumption
    <2>4. Head(A) = blocks[1] /\ Len(A) = n + 1
      BY <2>2 DEF WellFormed
    <2>5. H = {blocks[i].hash : i \in 1..n} \cup {b.hash}
      BY <2>2 DEF CacheFits
    <2>6. C = IF n + 1 > MAX_BLOCKS THEN H \ {blocks[1].hash} ELSE H
      BY <1>2, <2>4 DEF CacheWith, AdjustCache
    <2>7. CASE k = 0
      <3>1. d = n + 1
        BY <2>7, <2>1, <2>2
      <3>2. \A i \in 1..n : i \in 1..d /\ D[i] = blocks[i]
        BY <2>7, <3>1, <2>1, <2>2
      <3>3. \A i \in 1..d : i = d \/ i \in 1..n
        BY <3>1, <2>2
      <3>4. C = H
        BY <2>6, <2>7, <2>1
      <3>5. D[d] = b
        BY <2>1
      <3> HIDE DEF d, n, H, C
      <3>6. {D[i].hash : i \in 1..d} = {blocks[i].hash : i \in 1..n} \cup {b.hash}
        BY <3>2, <3>3, <3>5, <2>3
      <3>7. C = {D[i].hash : i \in DOMAIN D}
        BY <3>4, <3>6, <2>3, <2>5
      <3> QED
        BY <3>7 DEF CacheFits, C
    <2>8. CASE k = 1
      <3>1. \A i \in 2..n : blocks[i].hash # blocks[1].hash
        BY <2>2, HashesDiffer
      <3>2. b.hash # blocks[1].hash
        <4>1. b.hash_ok /\ b.prev_hash = LastOf(blocks).hash
          BY <1>2, AcceptedIsHigher
        <4> QED
          BY <4>1, <2>2, ChildIsNew
      <3>3. C = H \ {blocks[1].hash}
        BY <2>6, <2>8, <2>1
      <3>4. C = {blocks[i].hash : i \in 2..n} \cup {b.hash}
        <4>1. \A i \in 1..n : i = 1 \/ i \in 2..n
          BY <2>2
        <4>2. 1 \in 1..n /\ \A i \in 2..n : i \in 1..n
          BY <2>2
        <4> HIDE DEF n, C, H
        <4> QED
          BY <3>1, <3>2, <3>3, <2>5, <4>1, <4>2
      <3>5. d = n
        BY <2>8, <2>1, <2>2
      <3>6. \A i \in 2..n : i - 1 \in 1..d /\ D[i - 1] = blocks[i]
        BY <2>8, <3>5, <2>1, <2>2
      <3>7. \A i \in 1..d : i = d \/ (i + 1 \in 2..n /\ D[i] = blocks[i + 1])
        BY <2>8, <3>5, <2>1, <2>2
      <3>8. D[d] = b
        BY <2>1
      <3> HIDE DEF d, n, C
      <3>9. {D[i].hash : i \in 1..d} = {blocks[i].hash : i \in 2..n} \cup {b.hash}
        BY <3>6, <3>7, <3>8, <2>3
      <3>10. C = {D[i].hash : i \in DOMAIN D}
        BY <3>4, <3>9, <2>3
      <3> QED
        BY <3>10 DEF CacheFits, C
    <2> QED
      BY <2>7, <2>8
  <1> QED
    BY <1>1, <1>2
=============================================================================
