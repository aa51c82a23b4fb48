------------------------------- MODULE PowLight -------------------------------
(***************************************************************************)
(* The light client that proof-of-work hashes are computed with, shared by *)
(* all calls of class POW (consensus/pow.h and pow.cpp).                   *)
(*                                                                         *)
(* EthashConfigureLightClient replaces the client under a mutex when the   *)
(* block number changes.  PoWVerify, LightHash and MineLight compute with  *)
(* the client after that mutex is released.  The renewal of the client is  *)
(* libethash's, which is outside this repository: it takes the old client, *)
(* works for a while, and returns one for the new number.  A hash computed *)
(* with a client that is replaced under way, or is for another block, may  *)
(* come out either way.                                                    *)
(***************************************************************************)
EXTENDS PowCalls

VARIABLES
  kind,                 \* which method was called
  blockNum,             \* its argument
  disturbed,            \* the client was not the right one all the time
  holder,               \* who has m_mutexLightClientConfigure
  ethash_light_client,  \* the block the client is for, None during a renewal
  currentBlockNum

call == <<kind, blockNum, meets>>
client == <<holder, ethash_light_client, currentBlockNum>>
vars == <<pc, call, verdict, disturbed, client>>

Kind == {"configure", "verify", "mine"}

Init ==
  /\ pc = [c \in Caller |-> "out"]
  /\ kind = [c \in Caller |-> "configure"]
  /\ blockNum = [c \in Caller |-> 0]
  /\ meets = [c \in Caller |-> FALSE]
  /\ verdict = [c \in Caller |-> FALSE]
  /\ disturbed = [c \in Caller |-> FALSE]
  /\ holder = None
  /\ ethash_light_client = 0
  /\ currentBlockNum = 0

-----------------------------------------------------------------------------
(* A call of EthashConfigureLightClient, PoWVerify or LightHash, PoWMine   *)
Call(c, k, b) ==
  /\ pc[c] = "out"
  /\ OneBlockAtATime => \A d \in Caller : pc[d] # "out" => blockNum[d] = b
  /\ pc' = [pc EXCEPT ![c] = "configure"]
  /\ kind' = [kind EXCEPT ![c] = k]
  /\ blockNum' = [blockNum EXCEPT ![c] = b]
  /\ meets' = [meets EXCEPT ![c] = FALSE]
  /\ verdict' = [verdict EXCEPT ![c] = FALSE]
  /\ disturbed' = [disturbed EXCEPT ![c] = FALSE]
  /\ UNCHANGED client

AfterConfigure(c) == IF kind[c] = "configure" THEN "done" ELSE "ready"

\* A variant without the lock_guard.
ConfigureUnlocked(c) ==
  /\ pc[c] = "configure"
  /\ IF blockNum[c] # currentBlockNum
       THEN /\ pc' = [pc EXCEPT ![c] = "renew"]
            /\ holder' = c
            /\ ethash_light_client' = None
            /\ disturbed' = [d \in Caller |-> disturbed[d] \/ pc[d] = "compute"]
       ELSE /\ pc' = [pc EXCEPT ![c] = AfterConfigure(c)]
            /\ UNCHANGED <<holder, ethash_light_client, disturbed>>
  /\ UNCHANGED <<call, verdict, currentBlockNum>>

(* EthashConfigureLightClient: lock, compare, begin to renew the client *)
Configure(c) ==
  /\ pc[c] = "configure" /\ holder = None
  /\ IF blockNum[c] # currentBlockNum
       THEN /\ pc' = [pc EXCEPT ![c] = "renew"]
            /\ holder' = c
            /\ ethash_light_client' = None
            /\ disturbed' = [d \in Caller |-> disturbed[d] \/ pc[d] = "compute"]
       ELSE /\ pc' = [pc EXCEPT ![c] = AfterConfigure(c)]
            /\ UNCHANGED <<holder, ethash_light_client, disturbed>>
  /\ UNCHANGED <<call, verdict, currentBlockNum>>

\* A variant that does not note the new number.
RenewedUnnoted(c) ==
  /\ pc[c] = "renew"
  /\ ethash_light_client' = blockNum[c]
  /\ holder' = None
  /\ pc' = [pc EXCEPT ![c] = AfterConfigure(c)]
  /\ UNCHANGED <<call, verdict, disturbed, currentBlockNum>>

(* The client is renewed and stored, the number is noted; unlock *)
Renewed(c) ==
  /\ pc[c] = "renew"
  /\ ethash_light_client' = blockNum[c]
  /\ currentBlockNum' = blockNum[c]
  /\ holder' = None
  /\ pc' = [pc EXCEPT ![c] = AfterConfigure(c)]
  /\ UNCHANGED <<call, verdict, disturbed>>

(* EthashLightCompute begins, for a nonce whose hash meets the difficulty  *)
(* or does not; EthashFullNew reads the client in the same way.            *)
BeginCompute(c, m) ==
  /\ pc[c] = "ready"
  /\ pc' = [pc EXCEPT ![c] = "compute"]
  /\ meets' = [meets EXCEPT ![c] = m]
  /\ disturbed' = [disturbed EXCEPT ![c] = ethash_light_client # blockNum[c]]
  /\ UNCHANGED <<kind, blockNum, verdict, client>>

(* EthashLightCompute ends, and ethash_check_difficulty compares *)
EndCompute(c) ==
  /\ pc[c] = "compute"
  /\ \E a \in IF disturbed[c] THEN BOOLEAN ELSE {meets[c]} :
       verdict' = [verdict EXCEPT ![c] = a]
  /\ pc' = [pc EXCEPT ![c] = "checked"]
  /\ UNCHANGED <<call, disturbed, client>>

(* MineLight tries the next nonce; it does not configure the client again *)
NextNonce(c) ==
  /\ pc[c] = "checked" /\ kind[c] = "mine" /\ ~verdict[c]
  /\ pc' = [pc EXCEPT ![c] = "ready"]
  /\ UNCHANGED <<call, verdict, disturbed, client>>

(* The call returns *)
Return(c) ==
  /\ pc[c] \in {"checked", "done"}
  /\ pc' = [pc EXCEPT ![c] = "out"]
  /\ UNCHANGED <<call, verdict, disturbed, client>>

Next ==
  \E c \in Caller :
    \/ \E k \in Kind, b \in BlockNum : Call(c, k, b)
    \/ Configure(c)
    \/ Renewed(c)
    \/ \E m \in BOOLEAN : BeginCompute(c, m)
    \/ EndCompute(c)
    \/ NextNonce(c)
    \/ Return(c)

Spec == Init /\ [][Next]_vars

-----------------------------------------------------------------------------
(* Variables keep their types, and only the owner of the mutex renews.     *)
TypeOK ==
  /\ pc \in [Caller -> {"out", "configure", "renew", "ready", "compute", "checked", "done"}]
  /\ kind \in [Caller -> Kind]
  /\ blockNum \in [Caller -> BlockNum]
  /\ meets \in [Caller -> BOOLEAN]
  /\ verdict \in [Caller -> BOOLEAN]
  /\ disturbed \in [Caller -> BOOLEAN]
  /\ holder \in Caller \cup {None}
  /\ ethash_light_client \in BlockNum \cup {None}
  /\ currentBlockNum \in BlockNum
  /\ \A c \in Caller : pc[c] = "renew" => holder = c

(* Whoever takes the mutex finds a client that is for the number noted, so *)
(* comparing numbers is enough (EthashConfigureLightClient), also when the *)
(* numbers go down.                                                        *)
NumberMatchesClient == holder = None => ethash_light_client = currentBlockNum
=============================================================================
