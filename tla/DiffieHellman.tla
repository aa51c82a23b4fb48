---------------------------- MODULE DiffieHellman ----------------------------
(***************************************************************************)
(* Two diffie_hellman objects of fc (crypto/src/dh.cpp) that agree on a    *)
(* key.  The arithmetic is real, with a small prime; a byte holds BASE     *)
(* values.                                                                 *)
(*                                                                         *)
(* generate_params uses a null DH and does not come back: p, which is      *)
(* public, comes from elsewhere.  DH_check is external, and so is          *)
(* DH_compute_key, which writes a key without its leading zeros.           *)
(***************************************************************************)
EXTENDS Integers, Sequences

CONSTANTS Party, P, G, BASE, Exponent

VARIABLES p, valid, pub_key, priv_key,
          shared_key,   \* bytes
          asked,        \* history: the keys each computed with, and its own
          times         \* history: how often each did; bound of the model
vars == <<p, valid, pub_key, priv_key, shared_key, asked, times>>

RECURSIVE Power(_, _)
Power(b, e) == IF e = 0 THEN 1 ELSE (b * Power(b, e - 1)) % P
Size(n) == IF n < BASE THEN 1 ELSE 2
Bytes(n) == IF n < BASE THEN <<n>> ELSE <<n \div BASE, n % BASE>>
Good(q) == q = {P}   \* DH_check

Init ==
  /\ p = [o \in Party |-> {}] /\ valid = [o \in Party |-> FALSE]
  /\ pub_key = [o \in Party |-> {}] /\ priv_key = [o \in Party |-> {}]
  /\ shared_key = [o \in Party |-> <<>>]
  /\ asked = [o \in Party |-> <<>>] /\ times = [o \in Party |-> 0]

\* somebody sets p, to a prime or to something else
SetP(o, q) == p[o] = {} /\ p' = [p EXCEPT ![o] = {q}]
              /\ UNCHANGED <<valid, pub_key, priv_key, shared_key, asked, times>>

Validate(o) ==
  /\ valid' = [valid EXCEPT ![o] = Good(p[o])]
  /\ UNCHANGED <<p, pub_key, priv_key, shared_key, asked, times>>

GeneratePubKey(o, x) ==
  /\ times[o] < 2
  /\ valid' = [valid EXCEPT ![o] = Good(p[o])]
  /\ IF Good(p[o])
       THEN pub_key' = [pub_key EXCEPT ![o] = {Power(G, x)}] /\ priv_key' = [priv_key EXCEPT ![o] = {x}]
       ELSE UNCHANGED <<pub_key, priv_key>>
  /\ UNCHANGED <<p, shared_key, asked, times>>

\* resize keeps the bytes that are there
Resized(s, n) == [i \in 1..n |-> IF i \in DOMAIN s THEN s[i] ELSE 0]
ComputeSharedKey(o, pk) ==
  /\ p[o] # {} /\ priv_key[o] # {} /\ times[o] < 2
  /\ valid' = [valid EXCEPT ![o] = Good(p[o])]
  /\ IF Good(p[o])
       THEN \E x \in priv_key[o], y \in pub_key[o] :
              LET key == Bytes(Power(pk, x))
                  room == Resized(shared_key[o], Size(P))
              IN  /\ shared_key' = [shared_key EXCEPT ![o] =
                                      [i \in 1..Size(P) |-> IF i \in DOMAIN key THEN key[i] ELSE room[i]]]
                  /\ asked' = [asked EXCEPT ![o] = <<y, pk>>]
                  /\ times' = [times EXCEPT ![o] = @ + 1]
       ELSE UNCHANGED <<shared_key, asked, times>>
  /\ UNCHANGED <<p, pub_key, priv_key>>

Next ==
  \E o \in Party :
    \/ \E q \in {P, P + 1} : SetP(o, q)
    \/ Validate(o)
    \/ \E x \in Exponent : GeneratePubKey(o, x)
    \/ \E other \in Party \ {o} : \E pk \in pub_key[other] : ComputeSharedKey(o, pk)

Spec == Init /\ [][Next]_vars

-----------------------------------------------------------------------------
(* Two objects that computed a key from one another's public key have the  *)
(* same one, in the same bytes, if each of them did so for the first time. *)
(* (After that a shorter key keeps the end of the one before it.)          *)
SharedKeysAgree ==
  \A a, b \in Party :
    times[a] = 1 /\ times[b] = 1 /\ asked[a] = <<asked[b][2], asked[b][1]>>
      => shared_key[a] = shared_key[b]
=============================================================================
