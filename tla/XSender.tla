------------------------------- MODULE XSender -------------------------------
(***************************************************************************)
(* What a node announces: class xsender (xelect/xsender.cpp).  A timer     *)
(* thread calls on_ann_tick_proc, the manager calls start, stop,           *)
(* send_block and update_index; each method holds m_mutex throughout.      *)
(* None but stop tests m_running: after stop, or before start, they use a  *)
(* null pointer and the process dies there.                                *)
(***************************************************************************)
EXTENDS Naturals, Sequences

CONSTANTS Block, Index,
          MaxTicks,   \* bound of the model: ticks of the timer
          MaxSends    \* bound of the model: blocks sent

\* what xconfig holds of the node; it never changes
Config == [free_node : BOOLEAN, edge_node : BOOLEAN]

VARIABLES config,
          m_started, m_running, m_ann_no, m_ann_index,
          pointers,   \* m_dispatcher_ptr and m_config_ptr are set
          sent,       \* what was given to the dispatcher, in order
          index,      \* history: the index the manager asked for last
          died        \* a method used a null pointer

vars == <<config, m_started, m_running, m_ann_no, m_ann_index, pointers,
          sent, index, died>>
members == <<m_started, m_running, m_ann_no, m_ann_index, pointers>>

Init ==
  /\ config \in Config
  /\ m_started = FALSE /\ m_running = FALSE
  /\ m_ann_no = 0 /\ m_ann_index = 1
  /\ pointers = FALSE
  /\ sent = <<>> /\ index = 1 /\ died = FALSE

Start ==
  /\ ~m_started
  /\ m_started' = TRUE /\ m_running' = TRUE /\ pointers' = TRUE
  /\ UNCHANGED <<config, m_ann_no, m_ann_index, sent, index, died>>

\* A variant that leaves the pointers as they are.
StopKeepsPointers ==
  /\ m_running' = FALSE
  /\ UNCHANGED <<config, m_started, m_ann_no, m_ann_index, pointers, sent, index, died>>

Stop ==
  /\ IF m_running
       THEN m_running' = FALSE /\ pointers' = FALSE
       ELSE UNCHANGED <<m_running, pointers>>
  /\ UNCHANGED <<config, m_started, m_ann_no, m_ann_index, sent, index, died>>

(* The announcement a tick makes: a free node and a shard node are          *)
(* consensus nodes, an edge node is not and stays silent                   *)
Netann ==
  [ann_no |-> m_ann_no, ann_index |-> m_ann_index,
   type |-> IF ~config.free_node /\ config.edge_node THEN "rpc" ELSE "consensus",
   free_node |-> config.free_node,
   in_shard |-> ~config.free_node /\ ~config.edge_node]

(* on_ann_tick_proc and send_ann *)
OnAnnTick ==
  /\ m_ann_no' = m_ann_no + 1
  /\ IF pointers
       THEN /\ sent' = IF Netann.type = "consensus" THEN Append(sent, Netann) ELSE sent
            /\ UNCHANGED died
       ELSE died' = TRUE /\ UNCHANGED sent
  /\ UNCHANGED <<config, m_started, m_running, m_ann_index, pointers, index>>

SendBlock(b) ==
  /\ IF pointers
       THEN sent' = Append(sent, [block |-> b]) /\ UNCHANGED died
       ELSE died' = TRUE /\ UNCHANGED sent
  /\ UNCHANGED <<config, members, index>>

UpdateIndex(i) ==
  /\ m_ann_index' = i
  /\ index' = i
  /\ UNCHANGED <<config, m_started, m_running, m_ann_no, pointers, sent, died>>

Next ==
  /\ ~died
  /\ \/ Start
     \/ Stop
     \/ m_ann_no < MaxTicks /\ OnAnnTick
     \/ \E b \in Block : Len(sent) < MaxTicks + MaxSends /\ SendBlock(b)
     \/ \E i \in Index : UpdateIndex(i)

Spec == Init /\ [][Next]_vars

-----------------------------------------------------------------------------
(* What stops the timer from announcing a node after stop (or before       *)
(* start) is the null pointer alone, for a tick does not test m_running:   *)
(* nothing leaves the node unless the sender runs, and what leaves it is a *)
(* block, or an announcement of a consensus node for the index the manager *)
(* set last, under a number no earlier one had.                            *)
SendsOnlyWhenRunning ==
  [][sent' # sent =>
       /\ m_running
       /\ LET msg == sent'[Len(sent')]
          IN  "ann_no" \in DOMAIN msg =>
                /\ msg.ann_index = index
                /\ config.edge_node => config.free_node
                /\ \A k \in DOMAIN sent :
                     "ann_no" \in DOMAIN sent[k] => sent[k].ann_no < msg.ann_no]_vars
=============================================================================
