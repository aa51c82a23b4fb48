------------------------------ MODULE Blowfish ------------------------------
(***************************************************************************)
(* The block cipher of fc (crypto/src/blowfish.cpp): key schedule, rounds  *)
(* and the three modes, in place and from buffer to buffer.  A behaviour   *)
(* has two objects that start with one key and one chain block: one        *)
(* encrypts messages, the other decrypts them.                             *)
(*                                                                         *)
(* A byte has BITS bits and a word four bytes; scm_auiInitP and            *)
(* scm_auiInitS, the digits of pi, are constants.                          *)
(***************************************************************************)
EXTENDS Integers, SequencesExt, Bitwise

CONSTANTS BITS,           \* 8 in the code
          InitP, InitS,   \* scm_auiInitP, scm_auiInitS
          MaxKey,         \* 56 in the code: bytes of a key that count
          Key, Chain, Message   \* those to look at; a message is a sequence of blocks

ByteValues == 0..(2^BITS - 1)
WordSize == 2^(4 * BITS)
Mode == {"ECB", "CBC", "CFB"}

(* What is asked of the constants *)
BlowfishAssumption ==
  /\ BITS \in 1..7
  /\ InitP \in [0..17 -> 0..(WordSize - 1)]
  /\ InitS \in [0..3 -> [ByteValues -> 0..(WordSize - 1)]]
  /\ Key \subseteq Seq(ByteValues) /\ <<>> \notin Key

VARIABLES boxes,             \* <<m_auiP, m_auiS>>, of both
          m_oChain, mode,
          plain, cipher, read   \* a message; sets: what became of it

vars == <<boxes, m_oChain, mode, plain, cipher, read>>

-----------------------------------------------------------------------------
\* the bytes of a word, the lowest first
ByteOf(w, i) == (w \div 2^(BITS * i)) % 2^BITS
XorBlock(b, c) == <<b[1] ^^ c[1], b[2] ^^ c[2]>>

F(S, w) ==
  LET a == (S[0][ByteOf(w, 3)] + S[1][ByteOf(w, 2)]) % WordSize
  IN  ((a ^^ S[2][ByteOf(w, 1)]) + S[3][ByteOf(w, 0)]) % WordSize

\* sixteen rounds with the subkeys k in that order; the sides change places
Rounds(S, block, k) ==
  LET round(s, i) == <<s[2] ^^ (F(S, s[1]) ^^ k[i]), s[1]>>
      last == FoldLeft(round, <<block[1] ^^ k[0], block[2]>>, [i \in 1..16 |-> i])
  IN  <<last[2] ^^ k[17], last[1]>>
EncryptBlock(bx, block) == Rounds(bx[2], block, bx[1])
DecryptBlock(bx, block) == Rounds(bx[2], block, [i \in 0..17 |-> bx[1][17 - i]])

(* start: the key over and over into P, then the cipher's own output       *)
(* through P and S                                                         *)
KeyWord(key, i) ==
  LET n == IF Len(key) > MaxKey THEN MaxKey ELSE Len(key)
      byte(j) == key[((4 * i + j) % n) + 1]
  IN  FoldLeft(LAMBDA w, j : w * 2^BITS + byte(j), 0, <<0, 1, 2, 3>>)
Start(key) ==
  LET p0 == [i \in 0..17 |-> InitP[i] ^^ KeyWord(key, i)]
      fillP(s, i) ==
        LET b == EncryptBlock(s[1], s[2])
        IN  <<<<[s[1][1] EXCEPT ![2 * i] = b[1], ![2 * i + 1] = b[2]], s[1][2]>>, b>>
      fillS(s, n) ==
        LET b == EncryptBlock(s[1], s[2])
            j == n \div 2^(BITS - 1)
            k == 2 * (n % 2^(BITS - 1))
        IN  <<<<s[1][1], [s[1][2] EXCEPT ![j] = [@ EXCEPT ![k] = b[1], ![k + 1] = b[2]]]>>, b>>
      subkeys == FoldLeft(fillP, <<<<p0, InitS>>, <<0, 0>>>>, [i \in 1..9 |-> i - 1])
  IN  FoldLeft(fillS, subkeys, [n \in 1..(4 * 2^(BITS - 1)) |-> n - 1])[1]

-----------------------------------------------------------------------------
(* The modes.  s is <<the chain, what was written so far>>; each call      *)
(* begins with m_oChain, which no call changes.                            *)
EncryptMode(bx, md, s, block) ==
  LET out == CASE md = "CBC" -> EncryptBlock(bx, XorBlock(block, s[1]))
               [] md = "CFB" -> XorBlock(block, EncryptBlock(bx, s[1]))
               [] md = "ECB" -> EncryptBlock(bx, block)
  IN  <<out, Append(s[2], out)>>
\* A variant that chains what it decrypted.
DecryptModeChainsPlain(bx, md, s, block) ==
  LET out == CASE md = "CBC" -> XorBlock(DecryptBlock(bx, block), s[1])
               [] md = "CFB" -> XorBlock(block, EncryptBlock(bx, s[1]))
               [] md = "ECB" -> DecryptBlock(bx, block)
  IN  <<out, Append(s[2], out)>>
DecryptMode(bx, md, s, block) ==
  LET out == CASE md = "CBC" -> XorBlock(DecryptBlock(bx, block), s[1])
               [] md = "CFB" -> XorBlock(block, EncryptBlock(bx, s[1]))
               [] md = "ECB" -> DecryptBlock(bx, block)
  IN  <<block, Append(s[2], out)>>

\* an empty buffer is refused
Encrypted(bx, md, chain, blocks) ==
  IF blocks = <<>> THEN {}
  ELSE {FoldLeft(LAMBDA s, b : EncryptMode(bx, md, s, b), <<chain, <<>>>>, blocks)[2]}
Decrypted(bx, md, chain, blocks) ==
  IF blocks = <<>> THEN {}
  ELSE {FoldLeft(LAMBDA s, b : DecryptMode(bx, md, s, b), <<chain, <<>>>>, blocks)[2]}

-----------------------------------------------------------------------------
Init ==
  /\ boxes \in {Start(key) : key \in Key}
  /\ m_oChain \in Chain /\ mode \in Mode
  /\ plain = <<>> /\ cipher = {} /\ read = {}

Encrypt(m) ==
  /\ cipher = {} /\ plain' = m
  /\ cipher' = Encrypted(boxes, mode, m_oChain, m)
  /\ UNCHANGED <<boxes, m_oChain, mode, read>>

Decrypt ==
  /\ \E c \in cipher : read' = Decrypted(boxes, mode, m_oChain, c)
  /\ UNCHANGED <<boxes, m_oChain, mode, plain, cipher>>

\* reset_chain does nothing more; the next message
ResetChain ==
  /\ read # {}
  /\ cipher' = {} /\ read' = {} /\ plain' = <<>>
  /\ UNCHANGED <<boxes, m_oChain, mode>>

Next == (\E m \in Message : Encrypt(m)) \/ Decrypt \/ ResetChain

Spec == Init /\ [][Next]_vars

-----------------------------------------------------------------------------
(* What is decrypted is what was encrypted, with any key, chain and mode,  *)
(* one message after another.                                              *)
Deciphers == read # {} => read = {plain}
=============================================================================
