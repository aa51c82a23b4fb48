------------------------------- MODULE PowCalls -------------------------------
(***************************************************************************)
(* The calls of class POW that need a light client (PowLight), as their    *)
(* callers see them: who calls, for what blocks, and what is answered.     *)
(***************************************************************************)
EXTENDS Naturals

CONSTANTS Caller,           \* threads that call POW
          BlockNum,         \* block numbers
          OneBlockAtATime,  \* calls in progress are all for one block number
          None

ASSUME BlockNumAssumption == BlockNum \subseteq Nat /\ 0 \in BlockNum
ASSUME NoneAssumption == None \notin Caller \cup BlockNum

VARIABLES pc,       \* where each call is
          meets,    \* does the hash in question meet the difficulty?
          verdict   \* what the comparison said

(* PoWVerify "verifies a proof-of-work submission" (pow.h), and mining     *)
(* finds what it says: the comparison tells whether the hash that belongs  *)
(* to the call's block meets the difficulty.                               *)
AnswersRight == \A c \in Caller : pc[c] = "checked" => verdict[c] = meets[c]
=============================================================================
