------------------------------ MODULE XElectNet ------------------------------
(***************************************************************************)
(* Election blocks among the nodes of a network: the chains (XChain) of    *)
(* several nodes, xsender::send_block, the dispatcher wrapper of           *)
(* xelect/xwrap.cpp, which delivers to the node itself before it sends to  *)
(* the others, and the way of a received block through the receiver and    *)
(* xqueue_blocks to append_net_block.                                      *)
(*                                                                         *)
(* The network (xmessage_dispatcher) and the manager are not in this       *)
(* repository.  A message may be overtaken, lost or doubled, so a block on *)
(* its way is a member of net until append_net_block has it: in flight, in *)
(* the receiver's queue or in xqueue_blocks, in any order (XReceiver shows *)
(* that the last part of the way keeps the order; nothing here needs it).  *)
(* The manager is modelled by what the methods it calls are for.  It reads *)
(* the last block, builds a block on it, appends it with append_new_block  *)
(* and broadcasts it if accepted; it gives received blocks to              *)
(* append_net_block and passes the accepted ones on ("don't print and      *)
(* broadcast received block again", xchain.cpp).  Nothing is stored, so a  *)
(* restarted node begins with the genesis block.                           *)
(***************************************************************************)
EXTENDS XBlocks, FiniteSets

CONSTANTS Node,
          MaxMined,     \* bound of the model: blocks mined in all
          MaxFaults,    \* bound of the model: messages lost or doubled
          MaxRestarts   \* bound of the model: restarts of nodes

VARIABLES chain,    \* m_blocks of every node's chain
          caches,    \* m_cache of every node's chain
          base,      \* the block every manager is building on
          net,       \* copies of blocks on their way to append_net_block
          mined,     \* history: all blocks made so far
          sent,      \* history: how often each node broadcast each block
          faults, restarts

vars == <<chain, caches, base, net, mined, sent, faults, restarts>>

Chain(n) == INSTANCE XChain WITH
              m_blocks <- chain[n], m_cache <- caches[n], held <- base[n]

LastBlock(n) == LastOf(chain[n])

Copy == [from : Node, to : Node, block : Block]

Init ==
  /\ chain = [n \in Node |-> <<Genesis>>]
  /\ caches = [n \in Node |-> {Genesis.hash}]
  /\ base = [n \in Node |-> NoBlock]
  /\ net = {}
  /\ mined = {}
  /\ sent = [n \in Node |-> [b \in Block |-> 0]]
  /\ faults = 0
  /\ restarts = 0

-----------------------------------------------------------------------------
(* xsender::send_block and xdispatcher_wrap::broadcast: a copy for         *)
(* everybody, the sender included; flying is what is in the network.       *)
Broadcast(n, b, flying) ==
  /\ net' = flying \cup {[from |-> n, to |-> m, block |-> b] : m \in Node}
  /\ sent' = [sent EXCEPT ![n][b] = @ + 1]

\* A variant that appends without dropping the oldest block.
AppendBlockOnly(n, b) ==
  /\ chain' = [chain EXCEPT ![n] = Append(@, b)]
  /\ caches' = [caches EXCEPT ![n] = @ \cup {b.hash}]

(* xchain::append_block on n's chain, for a block it accepts *)
AppendBlock(n, b) ==
  /\ chain' = [chain EXCEPT ![n] = BlocksWith(chain[n], b)]
  /\ caches' = [caches EXCEPT ![n] = CacheWith(chain[n], caches[n], b)]

(* Manager: get_last_block, to build a block on it *)
GetLastBlock(n) ==
  /\ base' = [base EXCEPT ![n] = LastBlock(n)]
  /\ UNCHANGED <<chain, caches, net, mined, sent, faults, restarts>>

(* Manager: the block is made; append_new_block, and send_block if it took *)
AppendNewBlock(n, b) ==
  /\ base[n] # NoBlock /\ BuiltOn(b, base[n])
  /\ b \notin mined /\ Cardinality(mined) < MaxMined
  /\ mined' = mined \cup {b}
  /\ IF Accepts(chain[n], b)
       THEN AppendBlock(n, b) /\ Broadcast(n, b, net)
       ELSE UNCHANGED <<chain, caches, net, sent>>
  /\ UNCHANGED <<base, faults, restarts>>

\* A variant that asks the cache only, and passes refused blocks on.
HandleNetBlockSendsAll(n, b, flying) ==
  IF b.hash \notin caches[n]
    THEN /\ Broadcast(n, b, flying)
         /\ IF Accepts(chain[n], b)
              THEN AppendBlock(n, b)
              ELSE UNCHANGED <<chain, caches>>
    ELSE net' = flying /\ UNCHANGED <<chain, caches, sent>>

(* append_net_block, and send_block if it took *)
HandleNetBlock(n, b, flying) ==
  IF b.hash \notin caches[n] /\ Accepts(chain[n], b)
    THEN AppendBlock(n, b) /\ Broadcast(n, b, flying)
    ELSE net' = flying /\ UNCHANGED <<chain, caches, sent>>

(* A copy reaches the manager it is for *)
AppendNetBlock(c) ==
  /\ HandleNetBlock(c.to, c.block, net \ {c})
  /\ UNCHANGED <<base, mined, faults, restarts>>

(* A copy reaches the manager and will come again *)
AppendDoubledBlock(c) ==
  /\ faults < MaxFaults /\ faults' = faults + 1
  /\ HandleNetBlock(c.to, c.block, net)
  /\ UNCHANGED <<base, mined, restarts>>

Lose(c) ==
  /\ faults < MaxFaults /\ faults' = faults + 1
  /\ net' = net \ {c}
  /\ UNCHANGED <<chain, caches, base, mined, sent, restarts>>

\* A variant that forgets to empty the cache.
RestartKeepsCache(n) ==
  /\ restarts < MaxRestarts /\ restarts' = restarts + 1
  /\ chain' = [chain EXCEPT ![n] = <<Genesis>>]
  /\ base' = [base EXCEPT ![n] = NoBlock]
  /\ sent' = [sent EXCEPT ![n] = [b \in Block |-> 0]]
  /\ UNCHANGED <<caches, net, mined, faults>>

(* A node stops and starts again: xchain::xchain, and its queues are lost *)
Restart(n) ==
  /\ restarts < MaxRestarts /\ restarts' = restarts + 1
  /\ chain' = [chain EXCEPT ![n] = <<Genesis>>]
  /\ caches' = [caches EXCEPT ![n] = {Genesis.hash}]
  /\ base' = [base EXCEPT ![n] = NoBlock]
  /\ sent' = [sent EXCEPT ![n] = [b \in Block |-> 0]]
  /\ \E queued \in SUBSET {c \in net : c.to = n} : net' = net \ queued
  /\ UNCHANGED <<mined, faults>>

Next ==
  \/ \E n \in Node : GetLastBlock(n)
  \/ \E n \in Node, b \in Block : AppendNewBlock(n, b)
  \/ \E c \in net : AppendNetBlock(c)
  \/ \E c \in net : AppendDoubledBlock(c)
  \/ \E c \in net : Lose(c)
  \/ \E n \in Node : Restart(n)

(* Copies that are not lost arrive, and managers handle what they get.     *)
(* Nobody has to make blocks.                                              *)
Fairness ==
  \A c \in Copy : WF_vars(c \in net /\ AppendNetBlock(c))

Spec == Init /\ [][Next]_vars /\ Fairness

-----------------------------------------------------------------------------
(* Variables keep their types, whatever is lost, doubled or restarted      *)
TypeOK ==
  /\ \A n \in Node : Chain(n)!TypeOK
  /\ net \subseteq Copy
  /\ mined \subseteq Block

(* Every chain is linked and its cache matches it, across restarts that    *)
(* begin with the genesis block while old copies are still on their way.   *)
ChainsSound ==
  \A n \in Node : Linked(chain[n]) /\ CacheFits(chain[n], caches[n])

(* Below a block that two nodes both retain, their chains are the same as  *)
(* far down as both retain blocks: forks never join again in a shared      *)
(* block, although jumps take blocks whose parent nobody checked.          *)
AgreeBelowSharedBlock == \A n, m \in Node : Agree(chain[n], chain[m])

(* A node broadcasts a block at most once as long as it is not restarted:  *)
(* its own echo, doubled copies and copies passed on by others stop at     *)
(* append_net_block, also after the block was evicted or jumped over.      *)
BroadcastOnce == \A n \in Node, b \in Block : sent[n][b] <= 1

(* Every node's chain behaves as XChain allows, so what is proved of       *)
(* XChain holds of every node of the network.                              *)
EveryNodeIsAChain ==
  [][\A n \in Node : Chain(n)!Next \/ UNCHANGED Chain(n)!vars]_vars

(* When no more blocks are made, the nodes' heights come within one of     *)
(* each other and stay there: a node on another branch refuses the next    *)
(* block but jumps to the one after it.                                    *)
HeightsMeet ==
  <>[](\A n, m \in Node : LastBlock(n).index <= LastBlock(m).index + 1)
=============================================================================
