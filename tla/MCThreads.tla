------------------------------ MODULE MCThreads ------------------------------
(***************************************************************************)
(* Five parts whose threads share nothing but the processor, in one run:   *)
(* mining (PowMine), the light client (PowLight), the two queues of        *)
(* xqueue.h (XQueueCondv, XQueueTask) and the sender of announcements      *)
(* (XSender).  Each stands at an initial state; one of them, machine, runs.*)
(***************************************************************************)
EXTENDS PowMine, PowCalls, XQueueCondv, XTaskCalls, TLC

VARIABLES machine,
  kind, blockNum, disturbed, holder, ethash_light_client, currentBlockNum,
  m_started, t_running, m_work, m_handlers, ioctx_stopped, executing,
  thread, post,
  config, s_started, s_running, m_ann_no, m_ann_index, pointers, sent, s_index, died

light == <<pc, kind, blockNum, meets, verdict, disturbed, holder, ethash_light_client,
           currentBlockNum>>
tasks == <<m_started, t_running, m_work, m_handlers, ioctx_stopped, executing,
           thread, post, stop, posted, promised, executed>>
sender == <<config, s_started, s_running, m_ann_no, m_ann_index, pointers, sent, s_index, died>>

L == INSTANCE PowLight
T == INSTANCE XQueueTask WITH m_running <- t_running
S == INSTANCE XSender WITH
       Block <- {"b"}, Index <- {1, 2}, MaxTicks <- 3, MaxSends <- 1,
       m_started <- s_started, m_running <- s_running, index <- s_index

ASSUME ItemAssumption /\ T!TaskAssumption

MCInit ==
  /\ machine \in {"mine", "light", "queue", "tasks", "sender"}
  /\ Init /\ L!Init /\ QueueInit /\ T!Init /\ S!Init
  /\ machine # "sender" => ~config.free_node /\ ~config.edge_node

MCNext ==
  /\ UNCHANGED machine
  /\ \/ machine = "mine" /\ Next /\ UNCHANGED <<light, queue_vars, tasks, sender>>
     \/ machine = "light" /\ L!Next /\ UNCHANGED <<vars, queue_vars, tasks, sender>>
     \/ machine = "queue" /\ QueueNext /\ UNCHANGED <<vars, light, tasks, sender>>
     \/ machine = "tasks" /\ T!Next /\ UNCHANGED <<vars, light, queue_vars, sender>>
     \/ machine = "sender" /\ S!Next /\ UNCHANGED <<vars, light, queue_vars, tasks>>
     \* all tasks are posted and all calls of stop are over; a null pointer was used
     \/ /\ \/ machine = "tasks" /\ ~ENABLED T!Next
           \/ machine = "sender" /\ died
        /\ UNCHANGED <<vars, light, queue_vars, tasks, sender>>

MCSpec ==
  /\ MCInit /\ [][MCNext]_<<machine, vars, light, queue_vars, tasks, sender>>
  /\ Fairness /\ QueueFairness /\ T!Fairness

-----------------------------------------------------------------------------
(* The properties of the parts, stated where they are defined *)
TaskStopReturns == T!TaskStopReturns
SendsOnlyWhenRunning == S!SendsOnlyWhenRunning
=============================================================================
