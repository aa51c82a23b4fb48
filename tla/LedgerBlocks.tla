---------------------------- MODULE LedgerBlocks ----------------------------
(***************************************************************************)
(* The blocks of the ledger and their headers (struct/BlockData): how they *)
(* are made, written, read over one another and compared.  A behaviour has *)
(* one object of one class; wire is what it last wrote.                    *)
(*                                                                         *)
(* Messenger writes and reads the bytes and is external: Get may fail with *)
(* some members read already.  Members that are compared together are one. *)
(***************************************************************************)
EXTENDS Integers, Sequences, FiniteSets

CONSTANTS Class,     \* the classes to look at
          Hash,      \* hashes in a block
          Num,       \* numbers of blocks
          MaxNum,    \* (uint64_t) -1, the number of the placeholders
          Count,     \* numbers of view changes in an epoch
          Member      \* what other members may be

ASSUME BlocksAssumption ==
  /\ Class \subseteq {"TxBlockHeader", "MicroBlockHeader", "DSBlockHeader", "VCBlockHeader",
                      "TxBlock", "MicroBlock", "DSBlock", "VCBlock"}
  /\ Hash \subseteq Nat /\ Num \subseteq Nat /\ MaxNum \in Num
  /\ Count \subseteq Nat /\ Member \subseteq Nat

VARIABLES class, obj,
          wire,      \* a set with what Serialize wrote last, or empty
          taken      \* history: Deserialize answered true, nothing changed since

block_vars == <<class, obj, wire, taken>>

\* type to m_numTxs; the count; the keys.  m_committeeHash is compared by none
TxBlockHeaders == [num : Num, m_numMicroBlockHashes : Member, last : Member]
MicroBlockHeaders == [num : Num, m_numTxs : Member, last : Member]
DSBlockHeaders == [m_blockNum : Num, rest : Member, m_epochNum : Member]
VCBlockHeaders == [epoch : Member, m_VCCounter : Count, rest : Member]
Hashes == {<<>>} \cup {<<h>> : h \in Hash}
CoSignatures == Member
TxBlocks == [m_header : TxBlockHeaders, m_microBlockHashes : Hashes, m_cosigs : CoSignatures]
MicroBlocks == [m_header : MicroBlockHeaders, m_tranHashes : Hashes, m_cosigs : CoSignatures]
DSBlocks == [m_header : DSBlockHeaders, m_cosigs : CoSignatures]
VCBlocks == [m_header : VCBlockHeaders, m_cosigs : CoSignatures]

Objects(c) ==
  [TxBlockHeader |-> TxBlockHeaders, MicroBlockHeader |-> MicroBlockHeaders,
   DSBlockHeader |-> DSBlockHeaders, VCBlockHeader |-> VCBlockHeaders,
   TxBlock |-> TxBlocks, MicroBlock |-> MicroBlocks,
   DSBlock |-> DSBlocks, VCBlock |-> VCBlocks][c]

-----------------------------------------------------------------------------
(* operator<.  std::tie compares member by member; == is equality of what  *)
(* is compared.                                                            *)
TieLess(s, t) ==
  \E i \in DOMAIN s : s[i] < t[i] /\ \A j \in 1..(i - 1) : s[j] = t[j]
Flat(hashes) == IF hashes = <<>> THEN -1 ELSE hashes[1]

TxTie(h) == <<h.num, h.m_numMicroBlockHashes, h.last>>
MicroTie(h) == <<h.num, h.m_numTxs, h.last>>
TxBlockHeaderLess(h, g) == TieLess(TxTie(h), TxTie(g))
MicroBlockHeaderLess(h, g) == TieLess(MicroTie(h), MicroTie(g))
DSBlockHeaderLess(h, g) == h.m_blockNum < g.m_blockNum
VCBlockHeaderLess(h, g) == h.epoch = g.epoch /\ h.m_VCCounter < g.m_VCCounter

\* A variant that compares header and hashes each for itself.
TxBlockLessEach(a, b) ==
  TxBlockHeaderLess(a.m_header, b.m_header)
    \/ Flat(a.m_microBlockHashes) < Flat(b.m_microBlockHashes)
TxBlockLess(a, b) ==
  TieLess(Append(TxTie(a.m_header), Flat(a.m_microBlockHashes)),
          Append(TxTie(b.m_header), Flat(b.m_microBlockHashes)))
MicroBlockLess(a, b) ==
  TieLess(Append(MicroTie(a.m_header), Flat(a.m_tranHashes)),
          Append(MicroTie(b.m_header), Flat(b.m_tranHashes)))
DSBlockLess(a, b) == DSBlockHeaderLess(a.m_header, b.m_header)
VCBlockLess(a, b) == VCBlockHeaderLess(a.m_header, b.m_header)

DSEqual(h, g) == h.m_blockNum = g.m_blockNum /\ h.rest = g.rest
TxBlockEqual(a, b) == a.m_header = b.m_header /\ a.m_microBlockHashes = b.m_microBlockHashes
MicroBlockEqual(a, b) == a.m_header = b.m_header /\ a.m_tranHashes = b.m_tranHashes

Less(a, b) ==
  \/ class = "TxBlockHeader" /\ TxBlockHeaderLess(a, b)
  \/ class = "MicroBlockHeader" /\ MicroBlockHeaderLess(a, b)
  \/ class = "DSBlockHeader" /\ DSBlockHeaderLess(a, b)
  \/ class = "VCBlockHeader" /\ VCBlockHeaderLess(a, b)
  \/ class = "TxBlock" /\ TxBlockLess(a, b)
  \/ class = "MicroBlock" /\ MicroBlockLess(a, b)
  \/ class = "DSBlock" /\ DSBlockLess(a, b)
  \/ class = "VCBlock" /\ VCBlockLess(a, b)
Equal(a, b) ==
  \/ class \in {"TxBlockHeader", "MicroBlockHeader", "VCBlockHeader"} /\ a = b
  \/ class = "DSBlockHeader" /\ DSEqual(a, b)
  \/ class = "TxBlock" /\ TxBlockEqual(a, b)
  \/ class = "MicroBlock" /\ MicroBlockEqual(a, b)
  \/ class = "DSBlock" /\ DSEqual(a.m_header, b.m_header)
  \/ class = "VCBlock" /\ a.m_header = b.m_header

-----------------------------------------------------------------------------
(* The constructors: what a placeholder does not set is whatever was there *)
TxBlockHeaderInit == {h \in TxBlockHeaders : h.num = MaxNum}
MicroBlockHeaderInit == {h \in MicroBlockHeaders : h.num = MaxNum}
DSBlockHeaderInit == {h \in DSBlockHeaders : h.m_blockNum = MaxNum}
TxBlockInit ==
  {b \in TxBlocks : b.m_header \in TxBlockHeaderInit /\ b.m_microBlockHashes = <<>>}
MicroBlockInit ==
  {b \in MicroBlocks : b.m_header \in MicroBlockHeaderInit /\ b.m_tranHashes = <<>>}
DSBlockInit == {b \in DSBlocks : b.m_header \in DSBlockHeaderInit}

BlockInit ==
  /\ class \in Class /\ wire = {} /\ taken = FALSE
  /\ \/ class = "TxBlockHeader" /\ obj \in TxBlockHeaderInit
     \/ class = "MicroBlockHeader" /\ obj \in MicroBlockHeaderInit
     \/ class = "DSBlockHeader" /\ obj \in DSBlockHeaderInit
     \/ class = "TxBlock" /\ obj \in TxBlockInit
     \/ class = "MicroBlock" /\ obj \in MicroBlockInit
     \/ class = "DSBlock" /\ obj \in DSBlockInit
     \/ class \in {"VCBlock", "VCBlockHeader"} /\ obj \in Objects(class)

\* with given members: counts that differ are logged, and the block is made
Construct(x) == obj' = x /\ taken' = FALSE /\ UNCHANGED <<class, wire>>
TxBlock(x) == class = "TxBlock" /\ Construct(x)
MicroBlock(x) == class = "MicroBlock" /\ Construct(x)
DSBlock(x) == class = "DSBlock" /\ Construct(x)
VCBlock(x) == class = "VCBlock" /\ Construct(x)
Header(x) ==
  class \in {"TxBlockHeader", "MicroBlockHeader", "DSBlockHeader", "VCBlockHeader"} /\ Construct(x)

\* CoSignatures has a copy constructor and so no move: the source keeps its own
SetCoSignatures(c) ==
  /\ class \in {"TxBlock", "MicroBlock", "DSBlock", "VCBlock"}
  /\ obj' = [obj EXCEPT !.m_cosigs = c]
  /\ UNCHANGED <<class, wire, taken>>

TxCounts(b) == b.m_header.m_numMicroBlockHashes = Len(b.m_microBlockHashes)
MicroCounts(b) == b.m_header.m_numTxs = Len(b.m_tranHashes)

\* Serialize
Write(c) == class = c /\ wire' = {obj} /\ UNCHANGED <<class, obj, taken>>
TxBlockSerialize == Write("TxBlock") /\ TxCounts(obj)
MicroBlockSerialize == Write("MicroBlock") /\ MicroCounts(obj)
DSBlockSerialize == Write("DSBlock")
VCBlockSerialize == Write("VCBlock")
TxBlockHeaderSerialize == Write("TxBlockHeader")
MicroBlockHeaderSerialize == Write("MicroBlockHeader")
DSBlockHeaderSerialize == Write("DSBlockHeader")
VCBlockHeaderSerialize == Write("VCBlockHeader")

\* Deserialize, also by the constructor that takes bytes and only logs a failure
Partly(old, new) ==
  {[f \in DOMAIN old |-> IF f \in S THEN new[f] ELSE old[f]] : S \in SUBSET DOMAIN old}
Read(c, src, answer) ==
  /\ class = c
  /\ \/ obj' = src /\ taken' = answer
     \/ obj' \in Partly(obj, src) /\ taken' = FALSE
  /\ UNCHANGED <<class, wire>>
\* A variant that checks the counts before it reads.
TxBlockReadChecksFirst(src) == Read("TxBlock", src, TxCounts(obj))
TxBlockDeserialize(src) == Read("TxBlock", src, TxCounts(src))
MicroBlockDeserialize(src) == Read("MicroBlock", src, MicroCounts(src))
DSBlockDeserialize(src) == Read("DSBlock", src, TRUE)
VCBlockDeserialize(src) == Read("VCBlock", src, TRUE)
TxBlockHeaderDeserialize(src) == Read("TxBlockHeader", src, TRUE)
MicroBlockHeaderDeserialize(src) == Read("MicroBlockHeader", src, TRUE)
DSBlockHeaderDeserialize(src) == Read("DSBlockHeader", src, TRUE)
VCBlockHeaderDeserialize(src) == Read("VCBlockHeader", src, TRUE)

BlockNext ==
  \/ \E x \in Objects(class) : TxBlock(x) \/ MicroBlock(x) \/ DSBlock(x) \/ VCBlock(x) \/ Header(x)
  \/ \E c \in CoSignatures : SetCoSignatures(c)
  \/ TxBlockSerialize \/ MicroBlockSerialize \/ DSBlockSerialize \/ VCBlockSerialize
  \/ TxBlockHeaderSerialize \/ MicroBlockHeaderSerialize
  \/ DSBlockHeaderSerialize \/ VCBlockHeaderSerialize
  \/ \E src \in Objects(class) :
       \/ TxBlockDeserialize(src) \/ MicroBlockDeserialize(src)
       \/ DSBlockDeserialize(src) \/ VCBlockDeserialize(src)
       \/ TxBlockHeaderDeserialize(src) \/ MicroBlockHeaderDeserialize(src)
       \/ DSBlockHeaderDeserialize(src) \/ VCBlockHeaderDeserialize(src)

BlockSpec == BlockInit /\ [][BlockNext]_block_vars

-----------------------------------------------------------------------------
(* Blocks of a class can be sorted ("for sorting microblocks in lookup     *)
(* table"): < is transitive and never holds both ways or between equal     *)
(* blocks; of two transaction blocks or micro blocks that are not equal    *)
(* one is the lesser; and, view changes excepted, a block lies below one   *)
(* of two that are apart or above the other.                               *)
BlocksOrdered ==
  \A b \in wire :
    /\ ~(Less(obj, b) /\ Less(b, obj))
    /\ Equal(obj, b) => ~Less(obj, b)
    /\ class \in {"TxBlock", "MicroBlock"} => Equal(obj, b) \/ Less(obj, b) \/ Less(b, obj)
    /\ Less(obj, b) => \A x \in Objects(class) :
         /\ Less(b, x) => Less(obj, x)
         /\ Equal(b, x) => Less(obj, x)
         /\ class \in {"VCBlock", "VCBlockHeader"} \/ Less(obj, x) \/ Less(x, b)

(* A block Deserialize accepted is one Serialize takes, so that a node can *)
(* pass on what it received, whatever the object held before.              *)
Counted(b) ==
  /\ class = "TxBlock" => TxCounts(b)
  /\ class = "MicroBlock" => MicroCounts(b)
ReceivedForwards == taken => Counted(obj)
=============================================================================
