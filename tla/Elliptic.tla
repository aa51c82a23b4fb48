------------------------------ MODULE Elliptic ------------------------------
(***************************************************************************)
(* Keys and compact signatures of fc: private_key and public_key of        *)
(* elliptic_*.cpp in its three builds ("openssl", "secp256k1" and "mixed", *)
(* private keys of the second with public keys of the first) and of        *)
(* elliptic_r1.cpp ("r1").  The arithmetic is real, on a small curve       *)
(* y^2 = x^3 + A x + B over the integers modulo P with a prime number N of *)
(* points; numbers are W bits wide.                                        *)
(*                                                                         *)
(* A behaviour has one key pair: secret is the private key, and pub the    *)
(* public key as somebody follows it who has only that.  OpenSSL's and     *)
(* libsecp256k1's signing with a random nonce is external.                 *)
(***************************************************************************)
EXTENDS Integers, FiniteSets

CONSTANTS Build, P, A, B, N, G, W,
          BYTE,                            \* bits of a byte
          Secret, Digest, Nonce, Offset    \* those to look at

Width == 0..(2^W - 1)
(* What is asked of the constants *)
CurveAssumption ==
  /\ Build \subseteq {"openssl", "secp256k1", "mixed", "r1"}
  /\ N < P /\ P < 2^W
  /\ Secret \cup Digest \cup Offset \subseteq Width /\ Nonce \subseteq 1..(N - 1)

VARIABLES build, secret,
          pub,       \* a set: the public key, or empty when a call threw
          csig,      \* a set: the last signature <<nV, r, s, digest>>
          children   \* bound of the model

vars == <<build, secret, pub, csig, children>>

-----------------------------------------------------------------------------
(* The curve (OpenSSL's EC_POINT, libsecp256k1's points)                   *)
O == <<>>   \* infinity
Inverse(x, m) == CHOOSE y \in 1..(m - 1) : (x * y) % m = 1
Plus(Q, R) ==
  IF Q = O THEN R ELSE IF R = O THEN Q
  ELSE IF Q[1] = R[1] /\ (Q[2] + R[2]) % P = 0 THEN O
  ELSE LET num == IF Q = R THEN 3 * Q[1] * Q[1] + A ELSE R[2] - Q[2]
           den == IF Q = R THEN 2 * Q[2] ELSE R[1] - Q[1]
           l == (num * Inverse(den % P, P)) % P
           x == (l * l - Q[1] - R[1]) % P
       IN  <<x, (l * (Q[1] - x) - Q[2]) % P>>
RECURSIVE Times(_, _)
Times(k, Q) ==
  IF k = 0 THEN O
  ELSE LET half == Times(k \div 2, Q)
           both == Plus(half, half)
       IN  IF k % 2 = 1 THEN Plus(both, Q) ELSE both
\* set_compressed_coordinates: the point of x whose y is odd or even
Decompressed(x, odd) ==
  {<<x, y>> : y \in {z \in 0..(P - 1) : z % 2 = odd /\ (z * z - x * x * x - A * x - B) % P = 0}}

-----------------------------------------------------------------------------
(* The public key of a secret.  EC_KEY_regenerate_key takes any,           *)
(* secp256k1_ec_pubkey_create only those of the group.  Here and below r1  *)
(* has a copy of its own of what the OpenSSL build does.                   *)
OpensslPublicKey(sec) == {Times(sec, G)}
R1PublicKey(sec) == {Times(sec, G)}
Secp256k1PublicKey(sec) == IF sec \in 1..(N - 1) THEN {Times(sec, G)} ELSE {}
GetPublicKey(bd, sec) ==
  CASE bd = "openssl" -> OpensslPublicKey(sec) [] bd = "r1" -> R1PublicKey(sec)
    [] bd \in {"secp256k1", "mixed"} -> Secp256k1PublicKey(sec)

\* public_key_data: the low bit of y with x, or a zero byte when there is none
OpensslSerialize(Q) == IF Q = O THEN <<0>> ELSE <<2 + (Q[2] % 2), Q[1]>>
R1Serialize(Q) == OpensslSerialize(Q)
Serialize(bd, Q) == IF bd = "r1" THEN R1Serialize(Q) ELSE OpensslSerialize(Q)
OpensslFromKeyData(d) == IF d[1] = 0 THEN {O} ELSE Decompressed(d[2], d[1] % 2)
R1FromKeyData(d) == OpensslFromKeyData(d)
FromKeyData(bd, d) == IF bd = "r1" THEN R1FromKeyData(d) ELSE OpensslFromKeyData(d)

\* public_key::add; that of "mixed" is OpenSSL's and asks libsecp256k1 for the
\* public key of the digest
Sum(Q, digest) == LET sum == Plus(Times(digest, G), Q) IN IF sum = O THEN {} ELSE {sum}
OpensslAdd(bd, Q, digest) ==
  IF digest > N \/ GetPublicKey(bd, digest) = {} THEN {} ELSE Sum(Q, digest)
R1Add(Q, digest) == IF digest > N THEN {} ELSE Sum(Q, digest)
\* public_key::mult of r1, "broken, it is actually equivalent to add" where ecc
\* had it; there is no check
R1Mult(Q, digest) == {Plus(Times(digest, G), Q)}
Secp256k1Add(Q, digest) == IF digest >= N THEN {} ELSE Sum(Q, digest)
AddDigest(bd, Q, digest) ==
  CASE bd \in {"openssl", "mixed"} -> OpensslAdd(bd, Q, digest)
    [] bd = "r1" -> R1Add(Q, digest) [] bd = "secp256k1" -> Secp256k1Add(Q, digest)

\* what BN_bn2bin leaves, read as a number: the bytes of x without leading
\* zeros, from byte shift on of SIZE zero bytes
SIZE == (W + BYTE - 1) \div BYTE
NumBytes(x) == CHOOSE n \in 0..SIZE : x < 2^(BYTE * n) /\ (n = 0 \/ x >= 2^(BYTE * (n - 1)))
Placed(x, shift) == x * 2^(BYTE * (SIZE - shift - NumBytes(x)))

\* private_key::get_secret
OpensslGetSecret(sec) == Placed(sec, SIZE - NumBytes(sec))
R1GetSecret(sec) == OpensslGetSecret(sec)
GetSecret(bd, sec) ==
  CASE bd = "openssl" -> OpensslGetSecret(sec) [] bd = "r1" -> R1GetSecret(sec)
    [] bd \in {"secp256k1", "mixed"} -> sec

\* private_key::generate_from_seed
FromSeed(seed, offset) ==
  LET secexp == (seed + offset) % N IN Placed(secexp, SIZE - NumBytes(secexp))
R1FromSeed(seed, offset) == FromSeed(seed, offset)
SeedKey(bd, seed, offset) ==
  IF bd = "r1" THEN R1FromSeed(seed, offset) ELSE FromSeed(seed, offset)

\* Both sides of get_shared_secret hash the x of a point; libsecp256k1 works
\* on the bytes of the key
OpensslSharedSecret(sec, Q) == LET S == Times(sec, Q) IN IF S = O THEN O ELSE S[1]
R1SharedSecret(sec, Q) == OpensslSharedSecret(sec, Q)
Secp256k1SharedSecret(sec, Q) ==
  UNION {{OpensslSharedSecret(sec, R)} : R \in FromKeyData("secp256k1", Serialize("secp256k1", Q))}
MixedSharedSecret(sec, Q) == Secp256k1SharedSecret(sec, Q)
SharedSecret(bd, sec, Q) ==
  CASE bd = "openssl" -> {OpensslSharedSecret(sec, Q)} [] bd = "r1" -> {R1SharedSecret(sec, Q)}
    [] bd = "secp256k1" -> Secp256k1SharedSecret(sec, Q) [] bd = "mixed" -> MixedSharedSecret(sec, Q)

-----------------------------------------------------------------------------
(* ECDSA_SIG_recover_key_GFp: the key, or nothing                          *)
RecoverKey(r, s, e, recid, check) ==
  LET x == r + N * (recid \div 2)
      R == IF x >= P THEN {} ELSE Decompressed(x, recid % 2)
      inv == Inverse(r, N)
  IN  {Plus(Times(((N - (e % N)) * inv) % N, G), Times((s * inv) % N, Q)) :
         Q \in {q \in R : ~check \/ Times(N, q) = O}}

R1RecoverKey(r, s, e, recid, check) == RecoverKey(r, s, e, recid, check)

\* is_canonical: a clear top bit, and no zero byte too many
CanonicalNumber(x) == x < 2^(W - 1) /\ x >= 2^(W - 1 - BYTE)
IsCanonical(r, s) == CanonicalNumber(r) /\ CanonicalNumber(s)

\* ECDSA_do_sign and the signing of libsecp256k1, with nonce k
R1(k) == Times(k, G)[1] % N
Raw(sec, e, k) == (Inverse(k, N) * (e + R1(k) * sec)) % N
LowS(s) == IF s > N \div 2 THEN N - s ELSE s

\* the first of the four keys that is the signer's
RecId(Q, r, s, e) ==
  {i \in 0..3 : /\ RecoverKey(r, s, e, i, TRUE) = {Q}
                /\ \A j \in 0..(i - 1) : RecoverKey(r, s, e, j, TRUE) # {Q}}
\* A variant that looks for the key before it lowers s.
R1SignatureLate(Q, r, s, e) == {<<i + 31, r, LowS(s), e>> : i \in RecId(Q, r, s, e)}
\* signature_from_ecdsa of r1
R1Signature(Q, r, s, e) == {<<i + 31, r, LowS(s), e>> : i \in RecId(Q, r, LowS(s), e)}

\* sign_compact of OpenSSL: tried again until r and s have 32 bytes in DER
OpensslSignature(Q, r, s, e) ==
  IF IsCanonical(r, s) THEN {<<i + 31, r, s, e>> : i \in RecId(Q, r, s, e)} ELSE {}
\* sign_compact of libsecp256k1, which lowers s: again until it is canonical
Secp256k1Signature(Q, r, s, e) ==
  IF IsCanonical(r, LowS(s))
    THEN {<<i + 31, r, LowS(s), e>> : i \in RecId(Q, r, LowS(s), e)} ELSE {}

\* ECDSA_sign and ECDSA_verify
EcdsaVerify(Q, r, s, e) ==
  /\ {r, s} \subseteq 1..(N - 1)
  /\ LET R == Plus(Times((e * Inverse(s, N)) % N, G), Times((r * Inverse(s, N)) % N, Q))
     IN  R # O /\ R[1] % N = r
\* sign and verify of r1 take all 72 bytes of the buffer for the signature.  Its
\* DER has as many when both numbers have their top bit set; what is left over
\* else is ignored by an old OpenSSL, and refused since 1.0.1k
Fills(r, s) == r >= 2^(W - 1) /\ s >= 2^(W - 1)
R1Sign(sec, e, k) == <<R1(k), Raw(sec, e, k)>>
R1Verify(Q, e, sig) ==
  {EcdsaVerify(Q, sig[1], sig[2], e)} \cup (IF Fills(sig[1], sig[2]) THEN {} ELSE {FALSE})

\* public_key of a compact signature, as the callers ask it: with the check.
\* libsecp256k1 recovers by itself
OpensslFromSignature(c) ==
  IF c[1] \notin 27..34 \/ c[2] = 0 \/ ~IsCanonical(c[2], c[3]) THEN {}
  ELSE RecoverKey(c[2], c[3], c[4], (c[1] - 27) % 4, FALSE)
Secp256k1FromSignature(c) ==
  IF c[1] \notin 27..34 \/ c[2] = 0 \/ ~IsCanonical(c[2], c[3]) THEN {}
  ELSE RecoverKey(c[2], c[3], c[4], (c[1] - 27) % 4, FALSE)
R1FromSignature(c) ==
  IF c[1] \notin 27..34 \/ c[2] = 0 \/ c[3] > N \div 2 THEN {}
  ELSE R1RecoverKey(c[2], c[3], c[4], (c[1] - 27) % 4, FALSE)
FromSignature(bd, c) ==
  CASE bd \in {"openssl", "mixed"} -> OpensslFromSignature(c)
    [] bd = "secp256k1" -> Secp256k1FromSignature(c) [] bd = "r1" -> R1FromSignature(c)

-----------------------------------------------------------------------------
Init ==
  /\ build \in Build /\ csig = {} /\ children = 0
  /\ secret \in Secret /\ pub = GetPublicKey(build, secret)

\* regenerate, generate
Regenerate(sec) ==
  /\ children = 0 /\ csig = {}
  /\ secret' = sec /\ pub' = GetPublicKey(build, sec)
  /\ UNCHANGED <<build, csig, children>>
GenerateFromSeed(seed, offset) ==
  /\ children = 0 /\ csig = {}
  /\ secret' = SeedKey(build, seed, offset)
  /\ pub' = GetPublicKey(build, SeedKey(build, seed, offset))
  /\ UNCHANGED <<build, csig, children>>

\* private_key::child, and public_key::child of one who does not have the
\* secret; offset stands for the hash of the public key and the offset.  r1
\* has the two functions below it, generate_from_seed and add
Child(offset) ==
  /\ children = 0 /\ csig = {} /\ pub # {}
  /\ secret' = SeedKey(build, GetSecret(build, secret), offset)
  /\ pub' = UNION {AddDigest(build, Q, offset) : Q \in pub}
  /\ children' = children + 1
  /\ UNCHANGED <<build, csig>>

SignCompact(e, k) ==
  /\ csig = {} /\ GetPublicKey(build, secret) \ {O} # {}
  /\ \E Q \in GetPublicKey(build, secret) :
       LET s == Raw(secret, e, k)
       IN  /\ R1(k) # 0 /\ s # 0
           /\ csig' = CASE build = "r1" -> R1Signature(Q, R1(k), s, e)
                        [] build = "openssl" -> OpensslSignature(Q, R1(k), s, e)
                        [] build \in {"secp256k1", "mixed"} -> Secp256k1Signature(Q, R1(k), s, e)
  /\ csig' # {}
  /\ UNCHANGED <<build, secret, pub, children>>

Next ==
  \/ \E sec \in Secret : Regenerate(sec)
  \/ \E seed \in Secret, offset \in Offset : GenerateFromSeed(seed, offset)
  \/ \E offset \in Offset : Child(offset)
  \/ \E e \in Digest, k \in Nonce : SignCompact(e, k)

Spec == Init /\ [][Next]_vars

-----------------------------------------------------------------------------
(* The two halves of a key stay one key.  A compact signature gives back   *)
(* the key of who signed, and passes the checks of the build that made it; *)
(* who follows a public key through children or from its bytes has the     *)
(* public key of the followed private key; two keys agree on one shared    *)
(* secret; and a signature of r1 that fills its buffer is verified.        *)
KeysAgree ==
  /\ \A c \in csig : FromSignature(build, c) = GetPublicKey(build, secret)
  /\ \A Q \in pub :
       /\ GetPublicKey(build, secret) = {Q}
       /\ GetPublicKey(build, GetSecret(build, secret)) = {Q}
       /\ FromKeyData(build, Serialize(build, Q)) = {Q}
       /\ build = "r1" => \A e \in Digest : R1Add(Q, e) # {} => R1Mult(Q, e) = R1Add(Q, e)
       /\ build = "r1" => \A e \in Digest, k \in Nonce :
            LET sig == R1Sign(secret, e, k)
            IN  0 \notin {sig[1], sig[2]} =>
                  /\ TRUE \in R1Verify(Q, e, sig)
                  /\ Fills(sig[1], sig[2]) => FALSE \notin R1Verify(Q, e, sig)
       /\ \A d \in Nonce : \A R \in GetPublicKey(build, d) :
            SharedSecret(build, d, Q) = SharedSecret(build, secret, R)
=============================================================================
