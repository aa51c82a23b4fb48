----------------------------- MODULE PowDifficulty -----------------------------
(***************************************************************************)
(* From a difficulty to the hashes that meet it: POW::DifficultyLevelInInt *)
(* and CheckSolnAgainstsTargetedDifficulty, and the boundary that          *)
(* MineFullGPUThread gives to the GPU (consensus/pow.cpp).                 *)
(*                                                                         *)
(* A hash is a function from byte positions to bytes, most significant     *)
(* first.  ethash_check_difficulty is libethash's: it compares two hashes  *)
(* as numbers.                                                             *)
(***************************************************************************)
EXTENDS Naturals, Sequences

CONSTANTS UINT256_SIZE,  \* bytes of a hash (32 in the code)
          Sample         \* the hashes to check

Pos == 0 .. UINT256_SIZE - 1

ASSUME SizeAssumption ==
  /\ UINT256_SIZE \in Nat \ {0}
  /\ Sample \subseteq [Pos -> 0..255]

Bits == 8 * UINT256_SIZE

\* the difficulties that have a byte b[difficulty / 8]
Difficulty == 0 .. Bits - 1

VARIABLES difficulty, result,  \* the arguments of one check
          answered, accepted   \* whether it returned, and what

check_vars == <<difficulty, result, answered, accepted>>

-----------------------------------------------------------------------------
(* The hex digits of a byte array, and back *)
BytesToHexString(b) ==
  [k \in 0 .. 2 * UINT256_SIZE - 1 |->
     IF k % 2 = 0 THEN b[k \div 2] \div 16 ELSE b[k \div 2] % 16]

StringToBlockhash(s) == [i \in Pos |-> 16 * s[2 * i] + s[2 * i + 1]]

masks == <<255, 127, 63, 31, 15, 7, 1, 0, 0>>

\* A variant with a slip of the kind this code invites.
LevelOneBitShort(d) ==
  [i \in Pos |-> CASE i < d \div 8 -> 0
                   [] i = d \div 8 /\ d % 8 > 0 -> masks[d % 8]
                   [] OTHER -> 255]

(* DifficultyLevelInInt: the largest hash that meets difficulty d *)
DifficultyLevelInInt(d) ==
  LET b == [i \in Pos |-> CASE i < d \div 8 -> 0
                            [] i = d \div 8 -> masks[(d % 8) + 1]
                            [] OTHER -> 255]
  IN  StringToBlockhash(BytesToHexString(b))

(* ethash_check_difficulty *)
AtMost(a, b) ==
  \/ a = b
  \/ \E i \in Pos : a[i] < b[i] /\ \A k \in 0 .. i - 1 : a[k] = b[k]

CheckSoln(r, d) == AtMost(r, DifficultyLevelInInt(d))

(* wp.boundary: (1 << 256) / (1 << d), kept in 256 bits *)
Boundary(d) ==
  [i \in Pos |-> IF d > 0 /\ (d - 1) \div 8 = i THEN 2 ^ (7 - ((d - 1) % 8)) ELSE 0]

-----------------------------------------------------------------------------
(* The smallest and the largest hash with z leading zero bits *)
LeastHash(z) == [i \in Pos |-> IF z < Bits /\ z \div 8 = i THEN 2 ^ (7 - (z % 8)) ELSE 0]
GreatestHash(z) ==
  [i \in Pos |-> CASE i < z \div 8 -> 0
                   [] i = z \div 8 -> 2 ^ (8 - (z % 8)) - 1
                   [] OTHER -> 255]

(* The number of leading zero bits *)
LeadingZeros(h) ==
  CHOOSE z \in 0..Bits : AtMost(LeastHash(z), h) /\ AtMost(h, GreatestHash(z))

(* ... and the hashes at which it changes *)
EdgeHashes == UNION {{LeastHash(z), GreatestHash(z)} : z \in 0..Bits}

CheckInit ==
  /\ difficulty \in Difficulty /\ result \in Sample
  /\ answered = FALSE /\ accepted = FALSE

(* CheckSolnAgainstsTargetedDifficulty, and the check of every mined or    *)
(* submitted hash                                                          *)
Check ==
  /\ ~answered /\ answered' = TRUE
  /\ accepted' = CheckSoln(result, difficulty)
  /\ UNCHANGED <<difficulty, result>>

CheckSpec == CheckInit /\ [][Check]_check_vars

-----------------------------------------------------------------------------
(* A hash that is accepted has at least difficulty leading zero bits, and  *)
(* lies within the boundary given to the GPU, so that no solution is out   *)
(* of the GPU's sight.  (At difficulty 0 the boundary does not fit in 256  *)
(* bits and becomes 0.)                                                    *)
HashesAccepted ==
  accepted =>
    /\ LeadingZeros(result) >= difficulty
    /\ difficulty > 0 => AtMost(result, Boundary(difficulty))

(* The difficulty is the "number of PoW leading zeros" (DSBlockHeader.h):  *)
(* a hash is accepted exactly if it has as many.                           *)
ExactlyLeadingZeros ==
  answered => (accepted <=> LeadingZeros(result) >= difficulty)
=============================================================================
