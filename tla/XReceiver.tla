------------------------------ MODULE XReceiver ------------------------------
(***************************************************************************)
(* What a node does with election messages: class xreceiver (xelect/       *)
(* xreceiver.h and xreceiver.cpp) with its message queue (XQueueCondv) and *)
(* its thread (class xthread of xelect/xdefine.h).                         *)
(*                                                                         *)
(* Three kinds of threads meet here.  Dispatcher threads call on_message,  *)
(* which only queues.  The receiver thread takes one message at a time and *)
(* either adds an announcement to the current set, under m_mutex, or hands *)
(* a block to the callback m_on_net_block, without m_mutex.  The manager   *)
(* starts and stops the receiver, swaps the set out and moves the index.   *)
(* start and stop hold m_mutex over several steps of other objects, so     *)
(* they are several actions here; every other critical section is one.     *)
(***************************************************************************)
EXTENDS Integers, Sequences, SequencesExt, FiniteSets

CONSTANTS Ann,         \* announcements: records with ann_index and account
          NetBlock,    \* blocks in elect_result messages
          Garbled,     \* messages that unpack_from refuses
          Index,       \* values of m_res_index
          Null, None,  \* as in XQueueCondv
          MaxArrived,  \* bound of the model: messages queued altogether
          MaxSwaps     \* bound of the model: sets swapped out

Message == Ann \cup NetBlock \cup Garbled

ASSUME MessageAssumption ==
  /\ Ann \cap NetBlock = {} /\ Ann \cap Garbled = {} /\ NetBlock \cap Garbled = {}
  /\ Null \notin Message /\ None \notin Message /\ Null # None
  /\ 1 \in Index
  /\ MaxArrived \in Nat

VARIABLES m_deq, q_running, call, got,  \* m_queue_condv, see XQueueCondv
          lock,            \* which long method holds m_mutex, or "free"
          ctl,             \* how far the manager is in start and stop
          m_running,       \* xreceiver::m_running
          m_res_index,     \* index of the current set
          m_annset,        \* the announcements of the current set
          m_on_net_block,  \* whether the callback is set
          registered,      \* message types the dispatcher hands over
          thr_running,     \* xthread::m_running
          rpc,             \* what the receiver thread is doing
          arrived,         \* history: messages the queue accepted
          handled,         \* history: messages run_once is done with
          handed           \* history: the sets swapped out

queueVars == <<m_deq, q_running, call, got>>
setVars == <<m_res_index, m_annset, handed>>
ctlVars == <<ctl, m_running, m_on_net_block, registered, thr_running>>
vars == <<queueVars, setVars, ctlVars, lock, rpc, arrived, handled>>

receiver == "receiver"

Q == INSTANCE XQueueCondv WITH
       Item <- Message, Consumer <- {receiver},
       MaxQueued <- MaxArrived, NoItem <- None, m_running <- q_running

TypeOf(m) == IF m \in NetBlock THEN "elect_result" ELSE "elect_announce"

(* What push_back compares to tell a repeated announcement *)
SameAnn(a, b) == a.ann_index = b.ann_index /\ a.account = b.account

Init ==
  /\ Q!QueueInit
  /\ lock = "free"
  /\ ctl = "created"
  /\ m_running = FALSE
  /\ m_res_index = 1
  /\ m_annset = <<>>
  /\ m_on_net_block = FALSE
  /\ registered = {}
  /\ thr_running = FALSE
  /\ rpc = "none"
  /\ arrived = <<>>
  /\ handled = <<>>
  /\ handed = {}

-----------------------------------------------------------------------------
(* Dispatcher threads: on_message.  A stopped queue drops the message.     *)
OnMessage(m) ==
  /\ TypeOf(m) \in registered
  /\ Q!PushBack(m)
  /\ arrived' = IF q_running THEN Append(arrived, m) ELSE arrived
  /\ UNCHANGED <<setVars, ctlVars, lock, rpc, handled>>

-----------------------------------------------------------------------------
(* The manager: start, up to the started thread *)
Start ==
  /\ ctl = "created" /\ lock = "free"
  /\ lock' = "start"
  /\ ctl' = "register"
  /\ m_running' = TRUE
  /\ m_on_net_block' = TRUE
  /\ thr_running' = TRUE
  /\ rpc' = "begin"
  /\ UNCHANGED <<queueVars, setVars, registered, arrived, handled>>

(* start: register_handler for announcements, then for results *)
Register ==
  /\ ctl = "register"
  /\ IF registered = {}
       THEN /\ registered' = {"elect_announce"}
            /\ UNCHANGED <<ctl, lock>>
       ELSE /\ registered' = {"elect_announce", "elect_result"}
            /\ ctl' = "started"
            /\ lock' = "free"
  /\ UNCHANGED <<queueVars, setVars, m_running, m_on_net_block, thr_running,
                 rpc, arrived, handled>>

(* stop takes m_mutex.  unregister_handler does nothing (xwrap.cpp).       *)
StopBegin ==
  /\ ctl = "started" /\ lock = "free" /\ m_running
  /\ lock' = "stop"
  /\ ctl' = "stop_queue"
  /\ m_running' = FALSE
  /\ UNCHANGED <<queueVars, setVars, m_on_net_block, registered, thr_running,
                 rpc, arrived, handled>>

(* stop: m_queue_condv.stop() *)
StopQueue ==
  /\ ctl = "stop_queue"
  /\ Q!Stop
  /\ ctl' = "stop_thread"
  /\ UNCHANGED <<setVars, lock, m_running, m_on_net_block, registered,
                 thr_running, rpc, arrived, handled>>

\* Variants with a slip of the kind this code invites; nothing below uses them.
StopThreadNoFlag ==
  /\ ctl = "stop_thread"
  /\ ctl' = "join"
  /\ UNCHANGED <<queueVars, setVars, lock, m_running, m_on_net_block,
                 registered, thr_running, rpc, arrived, handled>>

StopNoJoin ==
  /\ ctl = "join"
  /\ m_on_net_block' = FALSE
  /\ ctl' = "stopped"
  /\ lock' = "free"
  /\ UNCHANGED <<queueVars, setVars, m_running, registered, thr_running, rpc,
                 arrived, handled>>

(* xthread::stop, up to the join *)
StopThread ==
  /\ ctl = "stop_thread"
  /\ thr_running' = FALSE
  /\ ctl' = "join"
  /\ UNCHANGED <<queueVars, setVars, lock, m_running, m_on_net_block,
                 registered, rpc, arrived, handled>>

(* xthread::stop joins the receiver thread; then stop clears its pointers  *)
(* and gives m_mutex back.                                                 *)
StopJoin ==
  /\ ctl = "join" /\ rpc = "exit"
  /\ m_on_net_block' = FALSE
  /\ ctl' = "stopped"
  /\ lock' = "free"
  /\ UNCHANGED <<queueVars, setVars, m_running, registered, thr_running, rpc,
                 arrived, handled>>

(* swap: the manager hands in an empty set and takes the current one *)
Swap ==
  /\ lock = "free"
  /\ handed' = handed \cup {[res_index |-> m_res_index, anns |-> m_annset]}
  /\ m_annset' = <<>>
  /\ UNCHANGED <<queueVars, ctlVars, lock, rpc, m_res_index, arrived, handled>>

UpdateIndex(i) ==
  /\ lock = "free"
  /\ m_res_index' = i
  /\ UNCHANGED <<queueVars, ctlVars, lock, rpc, m_annset, handed, arrived, handled>>

-----------------------------------------------------------------------------
(* The receiver thread: xthread::thread_proc before it calls m_proc *)
ThreadBegin ==
  /\ rpc = "begin"
  /\ rpc' = IF thr_running THEN "loop" ELSE "exit"
  /\ UNCHANGED <<queueVars, setVars, ctlVars, lock, arrived, handled>>

(* xreceiver::thread_proc: the test of the loop, and the call of get_front *)
Loop ==
  /\ rpc = "loop"
  /\ IF thr_running
       THEN rpc' = "run_once" /\ Q!CallGetFront(receiver)
       ELSE rpc' = "exit" /\ UNCHANGED queueVars
  /\ UNCHANGED <<setVars, ctlVars, lock, arrived, handled>>

(* run_once: inside get_front *)
GetFront ==
  /\ Q!GetFront(receiver)
  /\ UNCHANGED <<setVars, ctlVars, lock, rpc, arrived, handled>>

WakeSpuriously ==
  /\ Q!WakeFromWait(receiver)
  /\ UNCHANGED <<setVars, ctlVars, lock, rpc, arrived, handled>>

\* Variants with a slip of the kind this code invites; nothing below uses them.
WithAnnPerAccount(anns, a) ==
  IF \E i \in DOMAIN anns : anns[i].account = a.account
    THEN anns ELSE Append(anns, a)

WithAnnAlways(anns, a) == Append(anns, a)

(* The current set with announcement a added, unless it is a repetition *)
WithAnn(anns, a) ==
  IF \E i \in DOMAIN anns : SameAnn(anns[i], a) THEN anns ELSE Append(anns, a)

(* run_once is through with what get_front returned *)
Finish ==
  /\ Q!Use(receiver)
  /\ rpc' = "loop"
  /\ UNCHANGED <<ctlVars, lock, arrived, m_res_index, handed>>

(* run_once: an announcement goes through push_back, which needs m_mutex *)
HandleAnn ==
  /\ got[receiver] \in Ann
  /\ lock = "free"
  /\ m_annset' = WithAnn(m_annset, got[receiver])
  /\ handled' = Append(handled, got[receiver])
  /\ Finish

(* run_once: a block goes to the callback *)
HandleBlock ==
  /\ got[receiver] \in NetBlock
  /\ m_on_net_block
  /\ handled' = Append(handled, got[receiver])
  /\ Finish
  /\ UNCHANGED m_annset

\* A variant that does not look at what unpack_from returns.
HandleGarbledAsAnn ==
  /\ got[receiver] \in Garbled
  /\ lock = "free"
  /\ m_annset' = Append(m_annset, got[receiver])
  /\ handled' = Append(handled, got[receiver])
  /\ Finish

(* run_once: what cannot be unpacked is dropped *)
HandleGarbled ==
  /\ got[receiver] \in Garbled
  /\ handled' = Append(handled, got[receiver])
  /\ Finish
  /\ UNCHANGED m_annset

(* run_once: null means stop *)
HandleNull ==
  /\ got[receiver] = Null
  /\ Finish
  /\ UNCHANGED <<m_annset, handled>>

-----------------------------------------------------------------------------
(* One step of the receiver thread *)
ReceiverThread ==
  ThreadBegin \/ Loop \/ GetFront
    \/ HandleAnn \/ HandleBlock \/ HandleGarbled \/ HandleNull

StopSteps == StopQueue \/ StopThread \/ StopJoin

Next ==
  \/ \E m \in Message : (q_running => Len(arrived) < MaxArrived) /\ OnMessage(m)
  \/ Start
  \/ Register
  \/ StopBegin
  \/ StopSteps
  \/ Cardinality(handed) < MaxSwaps /\ Swap
  \/ \E i \in Index : UpdateIndex(i)
  \/ ReceiverThread
  \/ WakeSpuriously

(* Every thread that can run is run in the end, and m_mutex is handed to   *)
(* whoever waits for it.  Nothing forces the manager to call stop.         *)
Fairness == WF_vars(ReceiverThread) /\ WF_vars(Register \/ StopSteps)

Spec == Init /\ [][Next]_vars /\ Fairness

-----------------------------------------------------------------------------
(* What the receiver thread has taken and is not through with *)
InHand == IF got[receiver] \in Message THEN <<got[receiver]>> ELSE <<>>

(* Variables keep their types *)
TypeOK ==
  /\ Q!QueueTypeOK
  /\ lock \in {"free", "start", "stop"}
  /\ ctl \in {"created", "register", "started", "stop_queue", "stop_thread",
              "join", "stopped"}
  /\ m_running \in BOOLEAN /\ thr_running \in BOOLEAN /\ m_on_net_block \in BOOLEAN
  /\ m_res_index \in Index
  /\ m_annset \in Seq(Ann)
  /\ registered \subseteq {"elect_announce", "elect_result"}
  /\ rpc \in {"none", "begin", "loop", "run_once", "exit"}
  /\ arrived \in Seq(Message) /\ handled \in Seq(Message)
  /\ handed \subseteq [res_index : Index, anns : Seq(Ann)]

(* The callback is there whenever the receiver thread is about to call it, *)
(* although it reads it without m_mutex (xreceiver.cpp: "valid when thread *)
(* is running!").                                                          *)
CallbackValid ==
  rpc = "run_once" /\ got[receiver] \in NetBlock => m_on_net_block

(* Messages are handled one by one in the order they arrived, none twice   *)
(* and none skipped; only stop drops messages, those still queued.         *)
HandledInOrder ==
  IF q_running
    THEN arrived = handled \o InHand \o m_deq
    ELSE IsPrefix(handled \o InHand, arrived)

(* No set, the current one or one that was handed out, has two             *)
(* announcements of one account for one index.  The set that follows may   *)
(* have it again.                                                          *)
Distinct(anns) == \A i, j \in DOMAIN anns : SameAnn(anns[i], anns[j]) => i = j
AnnsDistinct == Distinct(m_annset) /\ \A s \in handed : Distinct(s.anns)

(* Every announcement that was handled is in the current set or in a set   *)
(* that was swapped out, itself or an earlier one it repeats.              *)
NoAnnLost ==
  \A k \in DOMAIN handled :
    handled[k] \in Ann =>
      \E anns \in {m_annset} \cup {s.anns : s \in handed} :
        \E i \in DOMAIN anns : SameAnn(anns[i], handled[k])

(* Once stop has returned the receiver handles nothing any more and leaves *)
(* the current set alone, though the dispatcher still calls on_message.    *)
SilentAfterStop ==
  [][ctl = "stopped" => handled' = handled /\ m_annset' \in {m_annset, <<>>}]_vars

(* A message that was queued is handled in the end unless stop is called:  *)
(* the receiver thread neither sleeps through it nor waits for m_mutex     *)
(* forever.                                                                *)
HandledUnlessStopped ==
  \A k \in 1..MaxArrived :
    Len(arrived) >= k ~> Len(handled) >= k \/ ~m_running

(* stop returns once it has begun (xdefine.h on the join in xthread::stop: *)
(* "wait exit").                                                           *)
StopReturns == ctl = "stop_queue" ~> ctl = "stopped"

(* The same with the one way it fails: stop waits under m_mutex for the    *)
(* receiver thread, and the thread has an announcement to push_back.       *)
StopReturnsUnlessPushing ==
  ctl = "stop_queue" ~>
    \/ ctl = "stopped"
    \/ ctl = "join" /\ rpc = "run_once" /\ got[receiver] \in Ann
=============================================================================
