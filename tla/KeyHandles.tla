----------------------------- MODULE KeyHandles -----------------------------
(***************************************************************************)
(* Who owns an EC_KEY of OpenSSL: the public and private keys of           *)
(* elliptic_impl_pub.cpp and elliptic_openssl.cpp ("public", "private"),   *)
(* of elliptic_r1.cpp ("r1public", "r1private"), and the two places of the *)
(* libsecp256k1 build that hold one for a moment.  What the keys are is in *)
(* Elliptic.                                                               *)
(*                                                                         *)
(* The assignments of r1 do not ask whether an object is assigned to       *)
(* itself.  A move then empties it; a copy frees the EC_KEY and duplicates *)
(* what was freed, which may give an EC_KEY or none, or end the program.   *)
(***************************************************************************)
EXTENDS Integers

CONSTANTS Object,
          Kind,      \* Object -> its class
          MaxKeys    \* bound of the model: EC_KEYs made

NoKey == 0
(* What is asked of the constants *)
ASSUME HandlesAssumption ==
  Kind \in [Object -> {"public", "private", "r1public", "r1private"}] /\ MaxKeys \in Nat

VARIABLES exists,    \* the objects that live
          key,       \* _key of each
          heap,      \* EC_KEYs that are allocated
          made,      \* how many were
          lost,      \* those a failed o2i_ECPublicKey or generate left without an owner
          read_freed \* history: who copied whose EC_KEY after that was freed

key_vars == <<exists, key, heap, made, lost, read_freed>>

KeysInit ==
  exists = {} /\ key = [o \in Object |-> NoKey] /\ heap = {} /\ made = 0 /\ lost = {}
  /\ read_freed = {}

Ecc == {o \in Object : Kind[o] \in {"public", "private"}}
R1 == Object \ Ecc
New == made + 1
CanMake == made < MaxKeys

-----------------------------------------------------------------------------
(* Objects begin and end                                                   *)
Begin(o, k, h, m) ==
  /\ o \notin exists /\ exists' = exists \cup {o}
  /\ key' = [key EXCEPT ![o] = k] /\ heap' = h /\ made' = m
  /\ UNCHANGED lost

\* o is given a copy of p's EC_KEY when h is allocated
Reads(o, p, h) ==
  read_freed' = IF key[p] \in h THEN read_freed ELSE read_freed \cup {<<o, p>>}

Default(o) == Begin(o, NoKey, heap, made) /\ UNCHANGED read_freed
\* get_public_key, add, and the functions below: a new EC_KEY
Make(o) == CanMake /\ Begin(o, New, heap \cup {New}, New) /\ UNCHANGED read_freed
\* a constructor that throws after EC_KEY_new: the member's destructor frees it
FailRecover(o) == CanMake /\ o \notin exists /\ made' = New /\ UNCHANGED <<exists, key, heap, lost, read_freed>>
\* private_key::generate and regenerate: OpenSSL may make no key.  Only generate
\* of ecc throws before an object has the EC_KEY
Lose(o) ==
  /\ CanMake /\ o \notin exists
  /\ heap' = heap \cup {New} /\ lost' = lost \cup {New} /\ made' = New
  /\ UNCHANGED <<exists, key, read_freed>>
Generate(o, ok) == Kind[o] = "private" /\ IF ok THEN Make(o) ELSE Lose(o)
Regenerate(o, ok) == Kind[o] = "private" /\ IF ok THEN Make(o) ELSE FailRecover(o)
R1Generate(o, ok) == Kind[o] = "r1private" /\ IF ok THEN Make(o) ELSE FailRecover(o)
R1Regenerate(o, ok) == Kind[o] = "r1private" /\ IF ok THEN Make(o) ELSE FailRecover(o)
\* o2i_ECPublicKey answers null and does not free what it was given
FailDecode(o) == Kind[o] \in {"public", "r1public"} /\ Lose(o)

\* the copy constructors; the move constructors of all classes copy as well
Dup(o, p) ==
  /\ p \in exists /\ Kind[o] = Kind[p] /\ o # p
  /\ IF key[p] = NoKey THEN Begin(o, NoKey, heap, made) /\ UNCHANGED read_freed
     ELSE CanMake /\ Begin(o, New, heap \cup {New}, New) /\ Reads(o, p, heap)
PublicCopy(o, p) == Kind[o] = "public" /\ Dup(o, p)
PrivateCopy(o, p) == Kind[o] = "private" /\ Dup(o, p)
R1PublicCopy(o, p) == Kind[o] = "r1public" /\ Dup(o, p)
R1PrivateCopy(o, p) == Kind[o] = "r1private" /\ Dup(o, p)

Freed(o) == IF key[o] = NoKey THEN heap ELSE heap \ {key[o]}
Destroy(o) ==
  /\ o \in exists /\ exists' = exists \ {o}
  /\ heap' = Freed(o) /\ key' = [key EXCEPT ![o] = NoKey]
  /\ UNCHANGED <<made, lost, read_freed>>

-----------------------------------------------------------------------------
(* Assignments.  operator= of ecc frees, duplicates, or copies into the    *)
(* EC_KEY that is there, also when that is the same; the move frees its    *)
(* own and takes the other's.                                              *)
Both(o, p) == {o, p} \subseteq exists /\ Kind[o] = Kind[p]
Copied(o, p) ==
  /\ Both(o, p)
  /\ IF key[p] = NoKey THEN UNCHANGED read_freed ELSE Reads(o, p, heap)
  /\ CASE key[p] = NoKey -> heap' = Freed(o) /\ key' = [key EXCEPT ![o] = NoKey] /\ UNCHANGED made
       [] key[p] # NoKey /\ key[o] = NoKey ->
            /\ CanMake /\ made' = New
            /\ heap' = heap \cup {New} /\ key' = [key EXCEPT ![o] = New]
       [] key[p] # NoKey /\ key[o] # NoKey -> UNCHANGED <<heap, key, made>>
  /\ UNCHANGED <<exists, lost>>
PublicAssign(o, p) == Kind[o] = "public" /\ Copied(o, p)
PrivateAssign(o, p) == Kind[o] = "private" /\ Copied(o, p)

\* A variant that leaves the key with the object moved from as well.
TakenAndKept(o, p) ==
  /\ Both(o, p)
  /\ heap' = Freed(o) /\ key' = [key EXCEPT ![o] = key[p]]
  /\ UNCHANGED <<exists, made, lost, read_freed>>
Taken(o, p) ==
  /\ Both(o, p)
  /\ heap' = Freed(o)
  /\ key' = [key EXCEPT ![o] = key[p], ![p] = NoKey]
  /\ UNCHANGED <<exists, made, lost, read_freed>>
Guarded(o, p) == IF o = p THEN Both(o, p) /\ UNCHANGED key_vars ELSE Taken(o, p)
PublicMoveAssign(o, p) == Kind[o] = "public" /\ Guarded(o, p)
PrivateMoveAssign(o, p) == Kind[o] = "private" /\ Guarded(o, p)

\* r1: free, then take, or free, then EC_KEY_dup
R1PublicMoveAssign(o, p) == Kind[o] = "r1public" /\ Taken(o, p)
R1PrivateMoveAssign(o, p) == Kind[o] = "r1private" /\ Taken(o, p)
FreeAndDup(o, p) ==
  /\ Both(o, p)
  /\ IF key[p] = NoKey THEN UNCHANGED read_freed ELSE Reads(o, p, Freed(o))
  /\ \/ /\ key[p] \notin Freed(o)   \* no EC_KEY, or one just freed
        /\ heap' = Freed(o) /\ key' = [key EXCEPT ![o] = NoKey] /\ UNCHANGED made
     \/ /\ key[p] # NoKey /\ CanMake /\ made' = New
        /\ heap' = Freed(o) \cup {New} /\ key' = [key EXCEPT ![o] = New]
  /\ UNCHANGED <<exists, lost>>
R1PublicAssign(o, p) == Kind[o] = "r1public" /\ FreeAndDup(o, p)
R1PrivateAssign(o, p) == Kind[o] = "r1private" /\ FreeAndDup(o, p)

-----------------------------------------------------------------------------
(* libsecp256k1's build: private_key takes an EC_KEY's number and frees    *)
(* the EC_KEY; public_key decodes a point into one, serializes and frees.  *)
SecretOf(o) ==
  /\ CanMake /\ Kind[o] = "private" /\ made' = New
  /\ UNCHANGED <<exists, key, heap, lost, read_freed>>
PointToData(o, ok) ==
  /\ CanMake /\ Kind[o] = "public" /\ made' = New
  /\ heap' = IF ok THEN heap ELSE heap \cup {New}
  /\ lost' = IF ok THEN lost ELSE lost \cup {New}
  /\ UNCHANGED <<exists, key, read_freed>>

KeysNext ==
  \E o \in Object :
    \/ Default(o) \/ Make(o) \/ FailRecover(o) \/ FailDecode(o) \/ Destroy(o) \/ SecretOf(o)
    \/ \E ok \in BOOLEAN :
         \/ PointToData(o, ok) \/ Generate(o, ok) \/ Regenerate(o, ok)
         \/ R1Generate(o, ok) \/ R1Regenerate(o, ok)
    \/ \E p \in Object :
         \/ PublicCopy(o, p) \/ PrivateCopy(o, p) \/ R1PublicCopy(o, p) \/ R1PrivateCopy(o, p)
         \/ PublicAssign(o, p) \/ PrivateAssign(o, p) \/ R1PublicAssign(o, p) \/ R1PrivateAssign(o, p)
         \/ PublicMoveAssign(o, p) \/ PrivateMoveAssign(o, p)
         \/ R1PublicMoveAssign(o, p) \/ R1PrivateMoveAssign(o, p)

KeysSpec == KeysInit /\ [][KeysNext]_key_vars

-----------------------------------------------------------------------------
(* Every EC_KEY has one owner as long as it is allocated: no object holds  *)
(* one that was freed, two objects never free the same, and only a failed  *)
(* decode or generate leaves one behind, whatever copies, moves and        *)
(* exceptions happen.  Only an object of r1 that is copied to itself       *)
(* copies an EC_KEY that was freed.                                        *)
KeysOwnedOnce ==
  /\ \A o \in exists : key[o] # NoKey => key[o] \in heap \ lost
  /\ \A o, p \in exists : o # p /\ key[o] # NoKey => key[o] # key[p]
  /\ \A k \in heap \ lost : \E o \in exists : key[o] = k
  /\ \A r \in read_freed : r[1] = r[2] /\ r[1] \in R1

=============================================================================
