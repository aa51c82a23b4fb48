-------------------------- MODULE XElectNet_proofs --------------------------
(***************************************************************************)
(* Proofs about the chains of all nodes, for every set of nodes and blocks *)
(* and any number of blocks mined, copies lost or doubled and restarts.    *)
(***************************************************************************)
EXTENDS XElectNet, XBlocks_proofs

(* What a node has broadcast it has appended, so its last block is as high *)
SentIsLow(n) ==
  \A b \in Block :
    /\ sent[n][b] \in {0, 1}
    /\ sent[n][b] = 1 => b.index <= LastBlock(n).index

FunctionsOK ==
  /\ chain \in [Node -> Seq(Block \cup {Genesis})]
  /\ caches \in [Node -> SUBSET Hash]
  /\ sent \in [Node -> [Block -> Int]]

(* The inductive invariant *)
IInv ==
  /\ FunctionsOK
  /\ net \subseteq Copy
  /\ mined \subseteq Block
  /\ base \in [Node -> Block \cup {Genesis, NoBlock}]
  /\ \A n \in Node : /\ WellFormed(chain[n])
                     /\ CacheFits(chain[n], caches[n])
                     /\ SentIsLow(n)
  /\ AgreeBelowSharedBlock

-----------------------------------------------------------------------------
(* Agreement, at one shared block and one distance below it.               *)
LEMMA AgreeAt ==
  ASSUME NEW A, NEW B, WellFormed(A), WellFormed(B), Agree(A, B),
         NEW i \in 1..Len(A), NEW j \in 1..Len(B), A[i].hash = B[j].hash,
         NEW k \in 1 .. i - 1, k < j
  PROVE  A[i - k].hash = B[j - k].hash
  <1>1. i \in DOMAIN A /\ j \in DOMAIN B
    BY LastRetained
  <1> QED
    BY <1>1, Zenon DEF Agree

(* Sharing a block is symmetric.                                           *)
LEMMA AgreeSymmetric ==
  ASSUME NEW A, NEW B, WellFormed(A), WellFormed(B), Agree(A, B)
  PROVE  Agree(B, A)
  <1> SUFFICES ASSUME NEW j \in DOMAIN B, NEW i \in DOMAIN A,
                      B[j].hash = A[i].hash,
                      NEW k \in 1 .. j - 1, k < i
               PROVE  B[j - k].hash = A[i - k].hash
    BY Zenon DEF Agree
  <1>1. i \in Nat /\ j \in Nat
    BY LastRetained
  <1>2. k \in 1 .. i - 1 /\ k < j
    BY <1>1
  <1> QED
    BY <1>2, Zenon DEF Agree

(* A deque agrees with itself: no hash occurs twice in it.                 *)
LEMMA AgreeSelf ==
  ASSUME NEW A, WellFormed(A)
  PROVE  Agree(A, A)
  <1> SUFFICES ASSUME NEW i \in 1..Len(A), NEW j \in 1..Len(A),
                      A[i].hash = A[j].hash
               PROVE  i = j
    BY LastRetained DEF Agree
  <1> QED
    BY HashesDiffer

(* A deque of one block has nothing below it to disagree about.            *)
LEMMA AgreeSingle ==
  ASSUME NEW A, NEW B, Len(A) = 1, DOMAIN A = {1}
  PROVE  Agree(A, B)
  BY DEF Agree

(* Accepting a block keeps a deque in agreement with every other one.  A   *)
(* block in both has one parent hash, so the deques share the parent too,  *)
(* and below the parent they agreed before.                                *)
LEMMA AgreeAppend ==
  ASSUME NEW A, NEW B, WellFormed(A), WellFormed(B), Agree(A, B),
         NEW b \in Block, Accepts(A, b),
         NEW D, D = BlocksWith(A, b)
  PROVE  Agree(D, B)
  <1>1. /\ b.hash_ok
        /\ ~Jumps(A, b) => b.prev_hash = LastOf(A).hash
    BY AcceptedIsHigher
  <1>2. CASE Jumps(A, b)
    <2>1. D = <<b>>
      BY <1>2 DEF BlocksWith
    <2>2. Len(D) = 1 /\ DOMAIN D = {1}
      BY <2>1
    <2> QED
      BY <2>2, AgreeSingle
  <1>3. CASE ~Jumps(A, b)
    <2> DEFINE n == Len(A)
               d == Len(D)
    <2>1. PICK e \in {0, 1} :
            /\ e = 1 <=> n + 1 > MAX_BLOCKS
            /\ D \in Seq(Block \cup {Genesis})
            /\ d = n + 1 - e
            /\ d \in 1..MAX_BLOCKS
            /\ D[d] = b
            /\ \A i \in 1 .. d - 1 : D[i] = A[i + e]
      BY <1>3, ExtendedDeque
    <2>2. /\ DOMAIN D = 1..d /\ d \in Nat /\ e \in Nat
          /\ DOMAIN A = 1..n /\ n \in Nat /\ n >= 1
          /\ DOMAIN B = 1..Len(B) /\ Len(B) \in Nat
          /\ LastOf(A) = A[n]
      BY <2>1, BoundAssumption, LastRetained
    <2> SUFFICES ASSUME NEW i \in DOMAIN D, NEW j \in DOMAIN B,
                        D[i].hash = B[j].hash,
                        NEW k \in 1 .. i - 1, k < j
                 PROVE  D[i - k].hash = B[j - k].hash
      BY DEF Agree
    <2>3. /\ i \in Int /\ j \in Int /\ k \in Int
          /\ 1 <= i /\ i <= d /\ 1 <= j /\ j <= Len(B) /\ 1 <= k /\ k < i
      BY <2>2
    <2>4. D[i - k] = A[i - k + e] /\ i - k + e \in 1..n
      <3>1. i - k \in 1 .. d - 1
        BY <2>2, <2>3
      <3>2. d = n + 1 - e
        BY <2>1
      <3>3. D[i - k] = A[i - k + e]
        BY <3>1, <2>1
      <3>4. n \in Nat /\ e \in Nat /\ e <= 1 /\ i \in Int /\ k \in Int
        BY <2>1, <2>2, <2>3
      <3> HIDE DEF d, n
      <3>5. i - k + e \in 1..n
        BY <3>1, <3>2, <3>4
      <3> QED
        BY <3>3, <3>5
    <2>5. CASE i # d
      <3>1. i \in 1 .. d - 1
        <4>1. d \in Nat /\ i # d
          BY <2>5, <2>2
        <4> HIDE DEF d
        <4> QED
          BY <4>1, <2>3
      <3>2. D[i] = A[i + e]
        BY <3>1, <2>1
      <3>3. i + e \in 1..n /\ k \in 1 .. (i + e) - 1
        <4>1. d = n + 1 - e
          BY <2>1
        <4> HIDE DEF d, n
        <4> QED
          BY <3>1, <4>1, <2>2, <2>3
      <3>4. A[(i + e) - k].hash = B[j - k].hash
        BY <3>2, <3>3, <2>2, k < j DEF Agree
      <3>5. (i + e) - k = i - k + e
        BY <2>2, <2>3
      <3> QED
        BY <3>4, <3>5, <2>4
    <2>6. CASE i = d
      <3>1. b.hash = B[j].hash
        BY <2>6, <2>1
      <3>2. Retainable(B[j])
        BY <2>2 DEF WellFormed
      <3>3. b.prev_hash = B[j].prev_hash
        BY <3>1, <3>2, <1>1, HashAssumption DEF Retainable
      <3>4. j - 1 \in 1 .. Len(B) - 1 /\ (j - 1) + 1 = j
        BY <2>2, <2>3, k < j
      <3>5. B[j].prev_hash = B[j - 1].hash
        BY <3>4 DEF WellFormed, Linked
      <3>6. A[n].hash = B[j - 1].hash
        BY <3>3, <3>5, <1>1, <1>3, <2>2
      <3>7. i - k + e = n + 1 - k
        <4>1. d = n + 1 - e
          BY <2>1
        <4> HIDE DEF d, n
        <4> QED
          BY <4>1, <2>6, <2>2, <2>3
      <3>8. CASE k = 1
        <4>1. n + 1 - k = n
          BY <3>8, <2>2
        <4> QED
          BY <4>1, <3>6, <3>7, <3>8, <2>4
      <3>9. CASE k # 1
        <4>1. /\ k - 1 \in 1 .. n - 1 /\ k - 1 < j - 1
              /\ n \in 1..n /\ j - 1 \in 1..Len(B)
              /\ n - (k - 1) = n + 1 - k
              /\ (j - 1) - (k - 1) = j - k
          <5>1. n + 1 - k \in 1..n
            BY <2>4, <3>7
          <5>2. /\ n \in Nat /\ Len(B) \in Nat /\ j \in Int /\ k \in Int
                /\ 1 <= k /\ k # 1 /\ k < j /\ j <= Len(B)
            BY <3>9, <2>2, <2>3, k < j
          <5> HIDE DEF n, d
          <5> QED
            BY <5>1, <5>2
        <4>2. A[n - (k - 1)].hash = B[(j - 1) - (k - 1)].hash
          <5> DEFINE y == j - 1
                     z == k - 1
          <5>1. n \in 1..n /\ y \in 1..Len(B) /\ A[n].hash = B[y].hash
            BY <4>1, <3>6
          <5>2. z \in 1 .. n - 1 /\ z < y
            BY <4>1
          <5> HIDE DEF y, z
          <5>3. A[n - z].hash = B[y - z].hash
            BY <5>1, <5>2, AgreeAt
          <5> QED
            BY <5>3 DEF y, z
        <4> QED
          BY <4>1, <4>2, <3>7, <2>4
      <3> QED
        BY <3>8, <3>9
    <2> QED
      BY <2>5, <2>6
  <1> QED
    BY <1>2, <1>3

-----------------------------------------------------------------------------
(* What a step does to the chains: node n takes block b and broadcasts it, *)
(* node n starts again, or no chain changes.                               *)
Take(n, b) ==
  /\ Accepts(chain[n], b)
  /\ AppendBlock(n, b)
  /\ sent' = [sent EXCEPT ![n][b] = @ + 1]

Reset(n) ==
  /\ chain' = [chain EXCEPT ![n] = <<Genesis>>]
  /\ caches' = [caches EXCEPT ![n] = {Genesis.hash}]
  /\ sent' = [sent EXCEPT ![n] = [b \in Block |-> 0]]

Quiet == UNCHANGED <<chain, caches, sent>>

LEMMA CopyHeld ==
  ASSUME IInv, NEW c \in net
  PROVE  c.to \in Node /\ c.block \in Block
  BY DEF IInv, Copy

LEMMA StepKinds ==
  ASSUME IInv, [Next]_vars
  PROVE  \/ \E n \in Node, b \in Block : Take(n, b)
         \/ \E n \in Node : Reset(n)
         \/ Quiet
  <1>1. ASSUME NEW c \in net, NEW flying, HandleNetBlock(c.to, c.block, flying)
        PROVE  Take(c.to, c.block) \/ Quiet
    BY <1>1 DEF HandleNetBlock, Broadcast, Take, Quiet
  <1>2. CASE \E n \in Node, b \in Block : AppendNewBlock(n, b)
    BY <1>2 DEF AppendNewBlock, Broadcast, Take, Quiet
  <1>3. CASE \E c \in net : AppendNetBlock(c)
    BY <1>1, <1>3, CopyHeld DEF AppendNetBlock
  <1>4. CASE \E c \in net : AppendDoubledBlock(c)
    BY <1>1, <1>4, CopyHeld DEF AppendDoubledBlock
  <1>5. CASE \E n \in Node : Restart(n)
    BY <1>5 DEF Restart, Reset
  <1>6. CASE \/ \E n \in Node : GetLastBlock(n)
             \/ \E c \in net : Lose(c)
             \/ UNCHANGED vars
    BY <1>6 DEF GetLastBlock, Lose, Quiet, vars
  <1> QED
    BY <1>2, <1>3, <1>4, <1>5, <1>6 DEF Next

(* What travels, what was mined and what managers build on keep their type *)
LEMMA OthersStep ==
  ASSUME IInv, [Next]_vars
  PROVE  /\ net' \subseteq Copy
         /\ mined' \subseteq Block
         /\ base' \in [Node -> Block \cup {Genesis, NoBlock}]
  <1>1. /\ net \subseteq Copy /\ mined \subseteq Block
        /\ base \in [Node -> Block \cup {Genesis, NoBlock}]
        /\ \A n \in Node : WellFormed(chain[n])
    BY DEF IInv
  <1>2. ASSUME NEW n \in Node, NEW b \in Block, NEW flying \in SUBSET Copy,
               Broadcast(n, b, flying)
        PROVE  net' \subseteq Copy
    BY <1>2 DEF Broadcast, Copy
  <1>3. ASSUME NEW c \in net, NEW flying \in SUBSET Copy,
               HandleNetBlock(c.to, c.block, flying)
        PROVE  net' \subseteq Copy
    BY <1>2, <1>3, CopyHeld DEF HandleNetBlock
  <1>4. ASSUME NEW n \in Node, GetLastBlock(n)
        PROVE  base' \in [Node -> Block \cup {Genesis, NoBlock}]
    <2>1. LastBlock(n) \in Block \cup {Genesis}
      BY <1>1, LastRetained DEF LastBlock
    <2> QED
      BY <1>1, <1>4, <2>1 DEF GetLastBlock
  <1>5. CASE \E n \in Node : GetLastBlock(n)
    BY <1>1, <1>4, <1>5 DEF GetLastBlock
  <1>6. CASE \E n \in Node, b \in Block : AppendNewBlock(n, b)
    BY <1>1, <1>2, <1>6 DEF AppendNewBlock
  <1>7. CASE \E c \in net : AppendNetBlock(c)
    <2>1. PICK c \in net : AppendNetBlock(c)
      BY <1>7
    <2>2. net \ {c} \in SUBSET Copy
      BY <1>1
    <2> QED
      BY <1>1, <1>3, <2>1, <2>2 DEF AppendNetBlock
  <1>8. CASE \E c \in net : AppendDoubledBlock(c)
    BY <1>1, <1>3, <1>8 DEF AppendDoubledBlock
  <1>9. CASE \E c \in net : Lose(c)
    BY <1>1, <1>9 DEF Lose
  <1>10. CASE \E n \in Node : Restart(n)
    BY <1>1, <1>10 DEF Restart
  <1>11. CASE UNCHANGED vars
    BY <1>1, <1>11 DEF vars
  <1> QED
    BY <1>5, <1>6, <1>7, <1>8, <1>9, <1>10, <1>11 DEF Next

-----------------------------------------------------------------------------
(* What the steps keep true of the chains *)
ChainsInv ==
  /\ FunctionsOK
  /\ \A n \in Node : /\ WellFormed(chain[n])
                     /\ CacheFits(chain[n], caches[n])
                     /\ SentIsLow(n)
  /\ AgreeBelowSharedBlock

LEMMA CacheType ==
  ASSUME NEW blocks, WellFormed(blocks), NEW cache, CacheFits(blocks, cache)
  PROVE  cache \in SUBSET Hash
  BY BlockType, LastRetained DEF CacheFits

LEMMA InitIInv == Init => IInv
  <1> SUFFICES ASSUME Init PROVE IInv
    OBVIOUS
  <1>1. /\ <<Genesis>> \in Seq(Block \cup {Genesis})
        /\ Len(<<Genesis>>) = 1 /\ DOMAIN <<Genesis>> = {1}
    OBVIOUS
  <1>2. FunctionsOK
    BY <1>1, BlockType DEF Init, FunctionsOK
  <1>3. \A n \in Node : WellFormed(chain[n]) /\ CacheFits(chain[n], caches[n])
    BY GenesisWellFormed DEF Init
  <1>4. \A n \in Node : SentIsLow(n)
    BY DEF Init, SentIsLow
  <1>5. AgreeBelowSharedBlock
    BY <1>1, AgreeSingle DEF Init, AgreeBelowSharedBlock
  <1>6. base \in [Node -> Block \cup {Genesis, NoBlock}]
    BY DEF Init
  <1> QED
    BY <1>2, <1>3, <1>4, <1>5, <1>6 DEF Init, IInv

LEMMA TakeStep ==
  ASSUME ChainsInv, NEW n \in Node, NEW b \in Block, Take(n, b)
  PROVE  ChainsInv'
  <1>1. /\ WellFormed(chain[n]) /\ CacheFits(chain[n], caches[n])
        /\ Accepts(chain[n], b)
    BY DEF ChainsInv, Take
  <1>2. /\ chain'[n] = BlocksWith(chain[n], b)
        /\ caches'[n] = CacheWith(chain[n], caches[n], b)
        /\ \A m \in Node \ {n} : chain'[m] = chain[m] /\ caches'[m] = caches[m]
        /\ sent'[n] = [sent[n] EXCEPT ![b] = @ + 1]
        /\ \A m \in Node \ {n} : sent'[m] = sent[m]
    BY DEF ChainsInv, FunctionsOK, Take, AppendBlock
  <1>3. WellFormed(chain'[n]) /\ LastOf(chain'[n]) = b
    BY <1>1, <1>2, AppendKeepsWellFormed
  <1>4. CacheFits(chain'[n], caches'[n])
    BY <1>1, <1>2, AppendKeepsCache
  <1>5. FunctionsOK'
    <2>1. chain'[n] \in Seq(Block \cup {Genesis})
      BY <1>3 DEF WellFormed
    <2>2. caches'[n] \in SUBSET Hash
      BY <1>3, <1>4, CacheType
    <2> QED
      BY <1>2, <2>1, <2>2 DEF ChainsInv, FunctionsOK, Take, AppendBlock
  <1>6. \A m \in Node : WellFormed(chain'[m]) /\ CacheFits(chain'[m], caches'[m])
    BY <1>2, <1>3, <1>4 DEF ChainsInv
  <1>7. \A m \in Node : SentIsLow(m)'
    <2>1. /\ b.index > LastBlock(n).index
          /\ \A c \in Block : c.index \in Int
          /\ LastBlock(n).index \in Int
      BY <1>1, AcceptedIsHigher, BlockType, LastRetained DEF LastBlock
    <2>2. SentIsLow(n) /\ sent[n] \in [Block -> Int]
      BY DEF ChainsInv, FunctionsOK
    <2>3. ASSUME NEW c \in Block
          PROVE  /\ sent'[n][c] \in {0, 1}
                 /\ sent'[n][c] = 1 => c.index <= b.index
      <3>1. CASE c = b
        <4>1. sent[n][b] = 0
          BY <2>1, <2>2 DEF SentIsLow
        <4> QED
          BY <4>1, <3>1, <1>2, <2>1, <2>2
      <3>2. CASE c # b
        BY <3>2, <1>2, <2>1, <2>2 DEF SentIsLow
      <3> QED
        BY <3>1, <3>2
    <2>4. SentIsLow(n)'
      BY <2>3, <1>3 DEF SentIsLow, LastBlock
    <2>5. \A m \in Node \ {n} : SentIsLow(m)'
      BY <1>2 DEF ChainsInv, SentIsLow, LastBlock
    <2> QED
      BY <2>4, <2>5
  <1>8. AgreeBelowSharedBlock'
    <2>1. \A m \in Node \ {n} : Agree(chain'[n], chain'[m])
      BY <1>1, <1>2, AgreeAppend DEF ChainsInv, AgreeBelowSharedBlock
    <2>2. \A m \in Node \ {n} : Agree(chain'[m], chain'[n])
      BY <2>1, <1>6, AgreeSymmetric
    <2>3. Agree(chain'[n], chain'[n])
      BY <1>3, AgreeSelf
    <2>4. \A m, o \in Node \ {n} : Agree(chain'[m], chain'[o])
      BY <1>2 DEF ChainsInv, AgreeBelowSharedBlock
    <2> QED
      BY <2>1, <2>2, <2>3, <2>4 DEF AgreeBelowSharedBlock
  <1> QED
    BY <1>5, <1>6, <1>7, <1>8 DEF ChainsInv

LEMMA ResetStep ==
  ASSUME ChainsInv, NEW n \in Node, Reset(n)
  PROVE  ChainsInv'
  <1>1. /\ <<Genesis>> \in Seq(Block \cup {Genesis})
        /\ Len(<<Genesis>>) = 1 /\ DOMAIN <<Genesis>> = {1}
    OBVIOUS
  <1>2. /\ chain'[n] = <<Genesis>> /\ caches'[n] = {Genesis.hash}
        /\ \A m \in Node \ {n} : chain'[m] = chain[m] /\ caches'[m] = caches[m]
        /\ sent'[n] = [b \in Block |-> 0]
        /\ \A m \in Node \ {n} : sent'[m] = sent[m]
    BY DEF ChainsInv, FunctionsOK, Reset
  <1>3. FunctionsOK'
    BY <1>1, BlockType DEF ChainsInv, FunctionsOK, Reset
  <1>4. \A m \in Node : WellFormed(chain'[m]) /\ CacheFits(chain'[m], caches'[m])
    BY <1>2, GenesisWellFormed DEF ChainsInv
  <1>5. \A m \in Node : SentIsLow(m)'
    <2>1. SentIsLow(n)'
      BY <1>2 DEF SentIsLow
    <2>2. \A m \in Node \ {n} : SentIsLow(m)'
      BY <1>2 DEF ChainsInv, SentIsLow, LastBlock
    <2> QED
      BY <2>1, <2>2
  <1>6. AgreeBelowSharedBlock'
    <2>1. \A m \in Node : Agree(chain'[n], chain'[m])
      BY <1>1, <1>2, AgreeSingle
    <2>2. \A m \in Node : Agree(chain'[m], chain'[n])
      BY <2>1, <1>4, AgreeSymmetric
    <2>3. \A m, o \in Node \ {n} : Agree(chain'[m], chain'[o])
      BY <1>2 DEF ChainsInv, AgreeBelowSharedBlock
    <2> QED
      BY <2>1, <2>2, <2>3 DEF AgreeBelowSharedBlock
  <1> QED
    BY <1>3, <1>4, <1>5, <1>6 DEF ChainsInv

LEMMA NextIInv == IInv /\ [Next]_vars => IInv'
  <1> SUFFICES ASSUME IInv, [Next]_vars PROVE IInv'
    OBVIOUS
  <1>1. ChainsInv
    BY DEF IInv, ChainsInv
  <1>2. CASE \E n \in Node, b \in Block : Take(n, b)
    <2>1. ChainsInv'
      BY <1>1, <1>2, TakeStep
    <2> QED
      BY <2>1, OthersStep DEF IInv, ChainsInv
  <1>3. CASE \E n \in Node : Reset(n)
    <2>1. ChainsInv'
      BY <1>1, <1>3, ResetStep
    <2> QED
      BY <2>1, OthersStep DEF IInv, ChainsInv
  <1>4. CASE Quiet
    <2>1. ChainsInv'
      BY <1>1, <1>4
         DEF Quiet, ChainsInv, FunctionsOK, SentIsLow, LastBlock, AgreeBelowSharedBlock
    <2> QED
      BY <2>1, OthersStep DEF IInv, ChainsInv
  <1> QED
    BY <1>2, <1>3, <1>4, StepKinds

LEMMA SpecIInv == Spec => []IInv
  BY InitIInv, NextIInv, PTL DEF Spec

-----------------------------------------------------------------------------
(* Variables keep their types on every node, whatever the network does.    *)
THEOREM NetTypeCorrect == Spec => []TypeOK
  <1>1. ASSUME IInv, NEW n \in Node
        PROVE  Chain(n)!TypeOK
    <2>1. /\ WellFormed(chain[n]) /\ CacheFits(chain[n], caches[n])
          /\ base[n] \in Block \cup {Genesis, NoBlock}
      BY <1>1 DEF IInv
    <2>2. caches[n] \in SUBSET Hash
      BY <2>1, CacheType
    <2> QED
      BY <2>1, <2>2 DEF Chain!TypeOK, WellFormed
  <1>2. IInv => TypeOK
    BY <1>1 DEF IInv, TypeOK
  <1> QED
    BY <1>2, SpecIInv, PTL

(* On every node the deque is linked and the cache matches it, through     *)
(* restarts, jumps and evictions (xchain::append_block, xchain::xchain).   *)
THEOREM ChainsAlwaysSound == Spec => []ChainsSound
  <1>1. IInv => ChainsSound
    BY DEF IInv, WellFormed, ChainsSound
  <1> QED
    BY <1>1, SpecIInv, PTL

(* Two nodes that share a block have the same blocks below it, as far down *)
(* as both retain them, for any number of nodes, faults and restarts.      *)
THEOREM SharedBlocksAgree == Spec => []AgreeBelowSharedBlock
  <1>1. IInv => AgreeBelowSharedBlock
    BY DEF IInv
  <1> QED
    BY <1>1, SpecIInv, PTL

(* No node broadcasts a block twice between two of its restarts: a block   *)
(* it sent is no higher than its last block and is never accepted again.   *)
THEOREM EachBlockBroadcastOnce == Spec => []BroadcastOnce
  <1>1. IInv => BroadcastOnce
    BY DEF IInv, SentIsLow, BroadcastOnce
  <1> QED
    BY <1>1, SpecIInv, PTL
=============================================================================
