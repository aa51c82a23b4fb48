-------------------------------- MODULE Crc --------------------------------
(***************************************************************************)
(* CRC-32C eight bytes at a time (crypto/src/crc.cpp), which stands in for *)
(* the processor's instruction where there is none.  A word is the set of  *)
(* its bits that are 1, bit 0 the lowest.                                  *)
(***************************************************************************)
EXTENDS Integers, SequencesExt

CONSTANTS Piece,      \* sequences of bytes that are fed
          Seed,       \* values to begin with
          MaxPieces   \* bound of the model

(* What is asked of the constants *)
CrcAssumption ==
  /\ Piece \subseteq Seq(SUBSET (0..7)) /\ Seed \subseteq SUBSET (0..31) /\ MaxPieces \in Nat

VARIABLES crc,
          seed, fed, pieces   \* history: what it began with and what it was given
vars == <<crc, seed, fed, pieces>>

Xor(a, b) == (a \ b) \cup (b \ a)
ShiftRight(w, k) == {i - k : i \in {j \in w : j >= k}}
LowByte(w) == w \cap (0..7)

CRCPOLY == {3, 4, 5, 6, 8, 9, 11, 12, 13, 17, 18, 20, 21, 22, 23, 25, 31}

-----------------------------------------------------------------------------
(* The tables hold what the generator in the file's first comment makes:   *)
(* in the first each byte divided bit by bit, in each next one that of the *)
(* one before it, divided with a further zero byte after it.               *)
Divided ==
  [byte \in SUBSET (0..7) |->
     FoldLeft(LAMBDA x, j : IF 0 \in x THEN Xor(ShiftRight(x, 1), CRCPOLY) ELSE ShiftRight(x, 1),
              byte, [j \in 1..8 |-> j])]

NextSlice(table) ==
  [byte \in SUBSET (0..7) |->
     LET c == table[byte] IN Xor(Divided[LowByte(c)], ShiftRight(c, 8))]

crc_tableil8_o32 == Divided
crc_tableil8_o40 == NextSlice(crc_tableil8_o32)
crc_tableil8_o48 == NextSlice(crc_tableil8_o40)
crc_tableil8_o56 == NextSlice(crc_tableil8_o48)
crc_tableil8_o64 == NextSlice(crc_tableil8_o56)
crc_tableil8_o72 == NextSlice(crc_tableil8_o64)
crc_tableil8_o80 == NextSlice(crc_tableil8_o72)
crc_tableil8_o88 == NextSlice(crc_tableil8_o80)

OneByte(c, byte) == Xor(crc_tableil8_o32[Xor(LowByte(c), byte)], ShiftRight(c, 8))

\* eight bytes: two little-endian words, the first with the crc in it
EightBytes(c, b) ==
  LET word(i) == UNION {{8 * j + bit : bit \in b[i + j]} : j \in 0..3}
      w == Xor(c, word(1))
      v == word(5)
      byte(x, j) == LowByte(ShiftRight(x, 8 * j))
  IN  FoldLeft(Xor, {},
        <<crc_tableil8_o88[byte(w, 0)], crc_tableil8_o80[byte(w, 1)],
          crc_tableil8_o72[byte(w, 2)], crc_tableil8_o64[byte(w, 3)],
          crc_tableil8_o56[byte(v, 0)], crc_tableil8_o48[byte(v, 1)],
          crc_tableil8_o40[byte(v, 2)], crc_tableil8_o32[byte(v, 3)]>>)

\* up to the next address that 4 divides; then by eight; then what is left
crc32cSlicingBy8(c, address, data) ==
  LET initial == IF Len(data) < (-address) % 4 THEN Len(data) ELSE (-address) % 4
      eights == (Len(data) - initial) \div 8
      first == FoldLeft(OneByte, c, SubSeq(data, 1, initial))
      middle == FoldLeft(LAMBDA x, i : EightBytes(x, SubSeq(data, initial + 8 * i - 7, initial + 8 * i)),
                         first, [i \in 1..eights |-> i])
  IN  FoldLeft(OneByte, middle, SubSeq(data, initial + 8 * eights + 1, Len(data)))

\* for what has no such instruction: a word of eight bytes, which is aligned
mm_crc32_u64(c, b) == crc32cSlicingBy8(c, 0, b)

-----------------------------------------------------------------------------
Init == seed \in Seed /\ crc = seed /\ fed = <<>> /\ pieces = 0

Feed(piece, address) ==
  /\ pieces < MaxPieces /\ pieces' = pieces + 1
  /\ crc' = crc32cSlicingBy8(crc, address, piece) /\ fed' = fed \o piece
  /\ UNCHANGED seed

FeedWord(b) ==
  /\ pieces < MaxPieces /\ pieces' = pieces + 1
  /\ crc' = mm_crc32_u64(crc, b) /\ fed' = fed \o b
  /\ UNCHANGED seed

Next ==
  \E piece \in Piece :
    \/ \E address \in 0..3 : Feed(piece, address)
    \/ Len(piece) = 8 /\ FeedWord(piece)

Spec == Init /\ [][Next]_vars

-----------------------------------------------------------------------------
(* The sum is that of the bytes one after another, wherever they lie in    *)
(* memory and however they are cut.                                        *)
SumOfBytes ==
  LET sum[n \in 0..Len(fed)] ==
        IF n = 0 THEN seed
        ELSE LET c == sum[n - 1] IN Xor(Divided[Xor(LowByte(c), fed[n])], ShiftRight(c, 8))
  IN  crc = sum[Len(fed)]
=============================================================================
