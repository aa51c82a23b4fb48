------------------------------- MODULE Codecs -------------------------------
(***************************************************************************)
(* Bytes and numbers as text: base64.cpp, base36.cpp, hex.cpp, base58.cpp  *)
(* with its CBigNum, public keys in base58 (elliptic_common.cpp and        *)
(* elliptic_r1.cpp), and what bigint.cpp adds (fc, crypto/src).  A         *)
(* behaviour writes some data, lets it pass through other hands, and reads *)
(* it.                                                                     *)
(*                                                                         *)
(* A character is the value of the digit it stands for in the alphabet at  *)
(* hand (in hex and base36 a small letter and its capital are one), or     *)
(* Space, Pad ('='), Minus or Other.  BIGNUM is external.                  *)
(***************************************************************************)
EXTENDS Integers, SequencesExt

CONSTANTS Codec,      \* the codecs to look at
          Bytes,      \* byte sequences to write
          Numbers     \* numbers to write

(* What is asked of the constants *)
Byte == 0..255
CodecsAssumption ==
  /\ Codec \subseteq {"base64", "base36", "hex", "base58", "key", "r1key",
                      "vch", "compact", "int64", "tohex", "variant"}
  /\ Bytes \subseteq Seq(Byte) /\ Numbers \subseteq Int

VARIABLES codec,
          data,    \* bytes, or one number
          text,    \* a set: what was written
          back     \* a set: what was read, empty after an exception
vars == <<codec, data, text, back>>

Space == -1
Pad == -2
Minus == -3
Other == -4

-----------------------------------------------------------------------------
(* Numbers and their digits, most significant first                        *)
RECURSIVE Digits(_, _)
Digits(n, base) == IF n = 0 THEN <<>> ELSE Append(Digits(n \div base, base), n % base)
Value(ds, base) == FoldLeft(LAMBDA n, d : n * base + d, 0, ds)
Abs(n) == IF n < 0 THEN -n ELSE n

\* how many of the characters at the front are c
Leading(c, s) == CHOOSE k \in 0..Len(s) : /\ \A i \in 1..k : s[i] = c
                                          /\ k = Len(s) \/ s[k + 1] # c
Zeros(k) == [i \in 1..k |-> 0]
DropFirst(s, k) == SubSeq(s, k + 1, Len(s))
Chunks(s, k) ==
  [j \in 1..((Len(s) + k - 1) \div k) |->
     SubSeq(s, k * (j - 1) + 1, IF k * j <= Len(s) THEN k * j ELSE Len(s))]

-----------------------------------------------------------------------------
(* base64.cpp                                                              *)
Base64Encode(d) ==
  LET Four(c) ==
        LET b == c \o Zeros(3 - Len(c))
        IN  <<b[1] \div 4, (b[1] % 4) * 16 + b[2] \div 16,
              (b[2] % 16) * 4 + b[3] \div 64, b[3] % 64>>
      Group(c) == SubSeq(Four(c), 1, Len(c) + 1) \o [i \in 1..(3 - Len(c)) |-> Pad]
      groups == Chunks(d, 3)
  IN  FlattenSeq([j \in DOMAIN groups |-> Group(groups[j])])

\* what is missing in the last group is looked up in the alphabet, and is npos
Base64Decode(s) ==
  LET n == CHOOSE k \in 0..Len(s) : (\A i \in 1..k : s[i] >= 0) /\ (k = Len(s) \/ s[k + 1] < 0)
      Three(c) ==
        LET a == c \o [i \in 1..(4 - Len(c)) |-> 255]
        IN  <<(a[1] * 4 + ((a[2] \div 16) % 4)) % 256,
              ((a[2] % 16) * 16 + ((a[3] \div 4) % 16)) % 256, ((a[3] % 4) * 64 + a[4]) % 256>>
      groups == Chunks(SubSeq(s, 1, n), 4)
  IN  FlattenSeq([j \in DOMAIN groups |-> SubSeq(Three(groups[j]), 1, Len(groups[j]) - 1)])

-----------------------------------------------------------------------------
(* base36.cpp, hex.cpp                                                     *)
ToBase36(d) == Zeros(Leading(0, d)) \o Digits(Value(d, 256), 36)
\* a character that is none of base 36 is logged, and counts as a 0
FromBase36(s) ==
  LET value == Value([i \in DOMAIN s |-> IF s[i] >= 0 THEN s[i] ELSE 0], 36)
  IN  Zeros(Leading(0, s)) \o Digits(value, 256)
\* the characters that fit in the buffer to_base36 writes to
Room(len) == (16 * len) \div 10 + 1

ToHex(d) == FlattenSeq([i \in DOMAIN d |-> <<d[i] \div 16, d[i] % 16>>])
\* a last digit alone is the high one
FromHex(s) ==
  LET pairs == Chunks(s, 2)
  IN  [j \in DOMAIN pairs |-> 16 * pairs[j][1] + (IF Len(pairs[j]) = 2 THEN pairs[j][2] ELSE 0)]

-----------------------------------------------------------------------------
(* CBigNum's ways in and out.  An MPI of OpenSSL has the sign in the top   *)
(* bit, and for its sake a byte more when that bit is taken.               *)
Mpi(n) ==
  LET b == Digits(Abs(n), 256)
      room == IF b # <<>> /\ b[1] >= 128 THEN <<0>> \o b ELSE b
  IN  IF n < 0 THEN <<room[1] + 128>> \o Tail(room) ELSE room
FromMpi(b) ==
  IF b = <<>> THEN 0
  ELSE IF b[1] >= 128 THEN -Value(<<b[1] - 128>> \o Tail(b), 256) ELSE Value(b, 256)

SetVch(v) == FromMpi(Reverse(v))
GetVch(n) == Reverse(Mpi(n))

\* setint64, setuint64: the bytes, with the sign in them or before them
SetInt64(n) ==
  LET b == Digits(Abs(n), 256)
      sign == IF n < 0 THEN 128 ELSE 0
  IN  FromMpi(IF b = <<>> THEN <<>>
              ELSE IF b[1] >= 128 THEN <<sign>> \o b ELSE <<b[1] + sign>> \o Tail(b))

\* a size and the three most significant bytes
GetCompact(n) ==
  LET m == Mpi(n)
  IN  <<Len(m)>> \o [i \in 1..3 |-> IF i <= Len(m) THEN m[i] ELSE 0]
SetCompact(c) == FromMpi([i \in 1..c[1] |-> IF i <= 3 THEN c[i + 1] ELSE 0])

\* ToString(16) and SetHex, which skips space, a sign, "0x" and space again
GetHex(n) ==
  IF n = 0 THEN <<0>> ELSE (IF n < 0 THEN <<Minus>> ELSE <<>>) \o Digits(Abs(n), 16)
SetHex(s) ==
  LET t == DropFirst(s, Leading(Space, s))
      negative == t # <<>> /\ t[1] = Minus
      u == IF negative THEN Tail(t) ELSE t
      x == DropFirst(u, Leading(Space, u))
      n == CHOOSE k \in 0..Len(x) : (\A i \in 1..k : x[i] >= 0) /\ (k = Len(x) \/ x[k + 1] < 0)
      value == Value(SubSeq(x, 1, n), 16)
  IN  IF negative THEN -value ELSE value

\* bigint of fc in a variant: its bytes without a sign, in base64
ToVariant(n) == Base64Encode(Digits(Abs(n), 256))
FromVariant(s) == Value(Base64Decode(s), 256)

-----------------------------------------------------------------------------
(* EncodeBase58 and DecodeBase58                                           *)
\* A variant without the byte that keeps the number positive.
EncodeBase58Signed(d) ==
  LET bn == SetVch(Reverse(d))
  IN  Zeros(Leading(0, d)) \o (IF bn > 0 THEN Digits(bn, 58) ELSE <<>>)
EncodeBase58(d) ==
  LET bn == SetVch(Append(Reverse(d), 0))
  IN  Zeros(Leading(0, d)) \o (IF bn > 0 THEN Digits(bn, 58) ELSE <<>>)

\* nothing when a character is neither of the alphabet nor of spaces at an end
DecodeBase58(s) ==
  LET t == DropFirst(s, Leading(Space, s))
      n == CHOOSE k \in 0..Len(t) : (\A i \in 1..k : t[i] >= 0) /\ (k = Len(t) \/ t[k + 1] < 0)
      v == GetVch(Value(SubSeq(t, 1, n), 58))
      k == Len(v)
      trimmed == IF k >= 2 /\ v[k] = 0 /\ v[k - 1] >= 128 THEN SubSeq(v, 1, k - 1) ELSE v
  IN  IF \E i \in (n + 1)..Len(t) : t[i] # Space THEN {}
      ELSE {Zeros(Leading(0, t)) \o Reverse(trimmed)}

\* public_key::to_base58 and from_base58: the bytes of the key and four of their
\* SHA-256, here two bytes and one; r1 has its own
KeySize == 2
Check(d) == <<(3 * d[1] + 5 * d[2] + 7) % 256>>
ToBase58(d) == EncodeBase58(d \o Check(d))
FromBase58(s) ==
  {SubSeq(v, 1, KeySize) :
     v \in {u \in DecodeBase58(s) :
             /\ Len(u) = KeySize + 1
             /\ Check(SubSeq(u, 1, KeySize)) = SubSeq(u, KeySize + 1, Len(u))}}
R1ToBase58(d) == ToBase58(d)
R1FromBase58(s) == FromBase58(s)

-----------------------------------------------------------------------------
Init ==
  /\ codec \in Codec /\ text = {} /\ back = {}
  /\ data \in CASE codec \in {"base64", "base36", "hex", "base58"} -> Bytes
               [] codec \in {"key", "r1key"} -> {b \in Bytes : Len(b) = KeySize}
               [] codec \in {"vch", "compact", "int64", "tohex", "variant"} ->
                    {<<n>> : n \in Numbers}

Write ==
  /\ text = {}
  /\ text' = {CASE codec = "base64" -> Base64Encode(data) [] codec = "base36" -> ToBase36(data)
                [] codec = "hex" -> ToHex(data) [] codec = "base58" -> EncodeBase58(data)
                [] codec = "key" -> ToBase58(data) [] codec = "r1key" -> R1ToBase58(data)
                [] codec = "vch" -> GetVch(data[1]) [] codec = "compact" -> GetCompact(data[1])
                [] codec = "tohex" -> GetHex(data[1]) [] codec = "variant" -> ToVariant(data[1])
                [] codec = "int64" -> data}
  /\ UNCHANGED <<codec, data, back>>

\* What may happen to it on the way: spaces around it, padding lost or more
\* behind it
Carry ==
  /\ \E s \in text :
       text' = {CASE codec \in {"base58", "key", "r1key", "tohex"} -> <<Space>> \o s \o <<Space>>
                  [] codec = "base64" -> SelectSeq(s, LAMBDA c : c # Pad) \o <<Other>>
                  [] codec \notin {"base58", "key", "r1key", "tohex", "base64"} -> s}
  /\ text # {} /\ \A s \in text : \A i \in DOMAIN s : s[i] \notin {Space, Other}
  /\ UNCHANGED <<codec, data, back>>

Decoded(s) ==
  CASE codec = "base64" -> {Base64Decode(s)} [] codec = "base36" -> {FromBase36(s)}
    [] codec = "hex" -> {FromHex(s)} [] codec = "base58" -> DecodeBase58(s)
    [] codec = "key" -> FromBase58(s) [] codec = "r1key" -> R1FromBase58(s)
    [] codec = "vch" -> {<<SetVch(s)>>} [] codec = "compact" -> {<<SetCompact(s)>>}
    [] codec = "tohex" -> {<<SetHex(s)>>} [] codec = "variant" -> {<<FromVariant(s)>>}
    [] codec = "int64" -> {<<SetInt64(s[1])>>}
Read ==
  /\ text # {}
  /\ back' = UNION {Decoded(s) : s \in text}
  /\ UNCHANGED <<codec, data, text>>

Next == Write \/ Carry \/ Read

Spec == Init /\ [][Next]_vars

-----------------------------------------------------------------------------
(* What was written is what is read, leading zero bytes, negative numbers, *)
(* spaces and lost padding included; only a compact number loses bytes,    *)
(* those after the third, and a variant the sign.  And what to_base36      *)
(* writes fits in its buffer.  No read throws.                             *)
Kept(d) ==
  CASE codec = "compact" -> LET drop == 256 ^ (IF Len(Mpi(d[1])) > 3 THEN Len(Mpi(d[1])) - 3 ELSE 0)
                            IN  IF d[1] < 0 THEN <<-(((-d[1]) \div drop) * drop)>>
                                ELSE <<(d[1] \div drop) * drop>>
    [] codec = "variant" -> <<Abs(d[1])>>
    [] codec \notin {"compact", "variant"} -> d
RoundTrips ==
  /\ \A s \in text : Decoded(s) = {Kept(data)}
  /\ back \subseteq {Kept(data)}
  /\ codec = "base36" => \A s \in text : Len(s) <= Room(Len(data))
=============================================================================
