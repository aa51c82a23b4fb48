---------------------------- MODULE MCAlgorithms ----------------------------
(***************************************************************************)
(* Parts that run alone, in one run: the owners of keys (KeyHandles), the  *)
(* difficulty (PowDifficulty), the blocks of the ledger (LedgerBlocks),    *)
(* and of the cryptographic library keys (Elliptic, DiffieHellman), texts  *)
(* (Codecs), ciphers (Blowfish, Aes) and sums (Crc).  A behaviour is one   *)
(* of theirs; machine says whose, and y1 to y9 stand for the variables of  *)
(* all but the first.                                                      *)
(***************************************************************************)
EXTENDS KeyHandles, PowDifficulty, LedgerBlocks, Sequences

VARIABLES machine, y1, y2, y3, y4, y5, y6, y7, y8, y9

ys == <<machine, key_vars, check_vars, block_vars, y1, y2, y3, y4, y5, y6, y7, y8, y9>>

MCKind == [p1 |-> "public", p2 |-> "public", s1 |-> "private", s2 |-> "private",
           q1 |-> "r1public", q2 |-> "r1public", r1 |-> "r1private", r2 |-> "r1private"]

MCClass == {"TxBlockHeader", "MicroBlockHeader", "DSBlockHeader", "VCBlockHeader",
            "TxBlock", "MicroBlock", "DSBlock", "VCBlock"}

Ec == INSTANCE Elliptic WITH
       Build <- {"openssl", "secp256k1", "mixed", "r1"},
       P <- 31, A <- -3, B <- 15, N <- 29, G <- <<3, 8>>, W <- 5, BYTE <- 2,
       Secret <- {1, 2, 14, 28, 30}, Digest <- {0, 1, 28, 29, 31}, Nonce <- 1..14,
       Offset <- {0, 1, 27, 28, 29, 30},
       build <- y1, secret <- y2, pub <- y3, csig <- y4, children <- y5
Dh == INSTANCE DiffieHellman WITH
       Party <- {"a", "b"}, P <- 23, G <- 5, BASE <- 16, Exponent <- {1, 2, 6, 9},
       p <- y1, valid <- y2, pub_key <- y3, priv_key <- y4, shared_key <- y5,
       asked <- y6, times <- y7
EdgeBytes == {0, 1, 127, 128, 255}
Co == INSTANCE Codecs WITH
       Codec <- {"base64", "base36", "hex", "base58", "key", "r1key", "vch", "compact",
                 "int64", "tohex", "variant"},
       Bytes <- {<<>>} \cup {<<a>> : a \in EdgeBytes} \cup {<<a, b>> : a, b \in EdgeBytes}
                       \cup {<<a, b, c>> : a, b, c \in EdgeBytes},
       Numbers <- {0, 127, 128, 255, 256, 32767, 32768, 65535, 65536, 8388607, 8388608, 16777215}
            \cup {-1, -127, -128, -255, -256, -32768, -65535, -65536, -8388608, -16777215},
       codec <- y1, data <- y2, text <- y3, back <- y4
Edges == {0, 7, 15}
Bf == INSTANCE Blowfish WITH
       BITS <- 1, MaxKey <- 6,
       InitP <- [i \in 0..17 |-> (i * 7 + 3) % 16],
       InitS <- [j \in 0..3 |-> [b \in 0..1 |-> (5 * j + 11 * b + 2) % 16]],
       Key <- {<<1>>, <<0, 1>>, <<1, 0, 1>>, <<1, 0, 0, 1, 1>>, <<1, 1, 1, 1, 1, 1, 0>>},
       Chain <- {<<0, 0>>, <<9, 4>>},
       Message <- {<<>>} \cup {<<<<a, b>>>> : a, b \in Edges}
                         \cup {<<<<a, b>>, <<c, a>>>> : a, b, c \in Edges}
                         \cup {<<<<a, b>>, <<b, a>>, <<1, a>>>> : a, b \in Edges},
       boxes <- y1, m_oChain <- y2, mode <- y3, plain <- y4, cipher <- y5, read <- y6
SomeBytes == <<{}, 0..7, {0}, {7}, {1, 3, 6}, {2, 4}, {0, 5, 7}, {}, {3}>>
Cr == INSTANCE Crc WITH
       Piece <- {[i \in 1..n |-> SomeBytes[((i + k) % 9) + 1]] :
                   n \in {0, 1, 3, 8, 11, 18}, k \in {0, 4}},
       Seed <- {{}, 0..31}, MaxPieces <- 2,
       crc <- y1, seed <- y2, fed <- y3, pieces <- y4
Ae == INSTANCE Aes WITH
       Key <- {"k1", "k2"}, Plain <- {"x", "y"}, Piece <- {<<1>>, <<1, 2>>, <<3, 4, 5, 6>>},
       MaxUnits <- 8,
       held <- y1, chained <- y2, sent <- y3, unchained <- y4, threw <- y5, accepted <- y6,
       file <- y7, saved <- y8, loaded <- y9

ASSUME /\ Ec!CurveAssumption /\ Co!CodecsAssumption
       /\ Bf!BlowfishAssumption /\ Cr!CrcAssumption

NoCheck == difficulty = 0 /\ result = <<>> /\ answered = FALSE /\ accepted = FALSE
NoBlock == class = "none" /\ obj = 0 /\ wire = {} /\ taken = FALSE
NoCipher == /\ y1 = 0 /\ y2 = 0 /\ y3 = 0 /\ y4 = 0 /\ y5 = 0 /\ y6 = 0 /\ y7 = 0 /\ y8 = 0
            /\ y9 = 0

MCInit ==
  \/ machine = "handles" /\ KeysInit /\ NoCheck /\ NoBlock /\ NoCipher
  \/ machine = "difficulty" /\ KeysInit /\ CheckInit /\ NoBlock /\ NoCipher
  \/ machine = "blocks" /\ KeysInit /\ NoCheck /\ BlockInit /\ NoCipher
  \/ /\ KeysInit /\ NoCheck /\ NoBlock
     /\ \/ machine = "keys" /\ Ec!Init
             /\ y6 = 0 /\ y7 = 0 /\ y8 = 0 /\ y9 = 0
        \/ machine = "dh" /\ Dh!Init
             /\ y8 = 0 /\ y9 = 0
        \/ machine = "codecs" /\ Co!Init
             /\ y5 = 0 /\ y6 = 0 /\ y7 = 0 /\ y8 = 0 /\ y9 = 0
        \/ machine = "blowfish" /\ Bf!Init
             /\ y7 = 0 /\ y8 = 0 /\ y9 = 0
        \/ machine = "crc" /\ Cr!Init
             /\ y5 = 0 /\ y6 = 0 /\ y7 = 0 /\ y8 = 0 /\ y9 = 0
        \/ machine = "aes" /\ Ae!Init

MCNext ==
  /\ UNCHANGED machine
  /\ \/ /\ UNCHANGED <<y1, y2, y3, y4, y5, y6, y7, y8, y9>>
        /\ \/ machine = "handles" /\ KeysNext /\ UNCHANGED <<check_vars, block_vars>>
           \/ machine = "difficulty" /\ Check /\ UNCHANGED <<key_vars, block_vars>>
           \/ machine = "blocks" /\ BlockNext /\ UNCHANGED <<key_vars, check_vars>>
     \/ /\ UNCHANGED <<key_vars, check_vars, block_vars>>
        /\ \/ machine = "keys" /\ Ec!Next /\ UNCHANGED <<y6, y7, y8, y9>>
           \/ machine = "dh" /\ Dh!Next /\ UNCHANGED <<y8, y9>>
           \/ machine = "codecs" /\ Co!Next /\ UNCHANGED <<y5, y6, y7, y8, y9>>
           \/ machine = "blowfish" /\ Bf!Next /\ UNCHANGED <<y7, y8, y9>>
           \/ machine = "crc" /\ Cr!Next /\ UNCHANGED <<y5, y6, y7, y8, y9>>
           \/ machine = "aes" /\ Ae!Next

MCSpec == MCInit /\ [][MCNext]_ys

-----------------------------------------------------------------------------
(* Signature and key, bytes and key, child and parent, and two that share  *)
(* a secret, belong together.                                              *)
KeysAgree ==
  CASE machine = "keys" -> Ec!KeysAgree [] machine = "dh" -> Dh!SharedKeysAgree [] OTHER -> TRUE

(* What was written, encrypted or saved is read, decrypted and loaded as   *)
(* it was, and a sum of bytes does not depend on how it is computed.       *)
ReadAsWritten ==
  CASE machine = "codecs" -> Co!RoundTrips
    [] machine = "blowfish" -> Bf!Deciphers
    [] machine = "aes" -> Ae!DecryptsWhatWasEncrypted
    [] machine = "crc" -> Cr!SumOfBytes
    [] OTHER -> TRUE
=============================================================================
