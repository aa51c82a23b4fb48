---------------------------- MODULE XQueueCondv ----------------------------
(***************************************************************************)
(* The queue between the threads that deliver messages and the thread that *)
(* handles them: template xqueue_condv of xelect/xqueue.h.                 *)
(*                                                                         *)
(* push_back and stop run under m_mutex from their first to their last     *)
(* line and are atomic.  get_front gives the mutex up inside wait and      *)
(* takes it again when it is woken, so it is three actions: the call, the  *)
(* part up to the wait, and a return from the wait, which tests the        *)
(* predicate again.  C++ lets wait return without a notification.          *)
(***************************************************************************)
EXTENDS Integers, Sequences

CONSTANTS Consumer,   \* the threads that call get_front
          Item,       \* the non-null pointers that may be queued
          Null,       \* T(): "nullptr meens stop"
          NoItem,     \* the caller holds no result of get_front
          MaxQueued   \* bound of the model: how many items may wait

(* What is asked of the constants *)
ItemAssumption == Null \notin Item /\ NoItem \notin Item /\ Null # NoItem

VARIABLES m_deq,      \* the queued items
          m_running,  \* FALSE once stop was called
          call,       \* where each consumer is in get_front
          got         \* the result a consumer has and has not used up

queue_vars == <<m_deq, m_running, call, got>>

(* A consumer is out of get_front, at its entry (waits for the mutex),     *)
(* waiting (inside m_condv.wait) or woken (waits for the mutex again).     *)
QueueInit ==
  /\ m_deq = <<>>
  /\ m_running = TRUE
  /\ call = [c \in Consumer |-> "out"]
  /\ got = [c \in Consumer |-> NoItem]

(* m_condv.notify_all *)
NotifyAll(calls) ==
  [c \in Consumer |-> IF calls[c] = "waiting" THEN "woken" ELSE calls[c]]

\* Variants with a slip of the kind this code invites; nothing below uses them.
PushBackNotifiesIfBusy(t) ==
  /\ m_running
  /\ m_deq' = Append(m_deq, t)
  /\ call' = IF m_deq = <<>> THEN call ELSE NotifyAll(call)
  /\ UNCHANGED <<m_running, got>>

GetFrontNoPop(c) ==
  /\ call[c] \in {"entry", "woken"}
  /\ \/ m_running /\ m_deq = <<>> /\ call' = [call EXCEPT ![c] = "waiting"] /\ UNCHANGED got
     \/ /\ ~(m_running /\ m_deq = <<>>)
        /\ got' = [got EXCEPT ![c] = IF m_running THEN Head(m_deq) ELSE Null]
        /\ call' = [call EXCEPT ![c] = "out"]
  /\ UNCHANGED <<m_deq, m_running>>

StopPushesNull ==
  /\ m_running
  /\ m_deq' = Append(m_deq, Null)
  /\ call' = NotifyAll(call)
  /\ UNCHANGED <<m_running, got>>

StopKeepsItems ==
  /\ m_running' = FALSE
  /\ call' = NotifyAll(call)
  /\ UNCHANGED <<m_deq, got>>

(* xqueue_condv::push_back *)
PushBack(t) ==
  /\ IF m_running
       THEN /\ m_deq' = Append(m_deq, t)
            /\ call' = NotifyAll(call)
       ELSE UNCHANGED <<m_deq, call>>
  /\ UNCHANGED <<m_running, got>>

(* A consumer calls get_front *)
CallGetFront(c) ==
  /\ call[c] = "out" /\ got[c] = NoItem
  /\ call' = [call EXCEPT ![c] = "entry"]
  /\ UNCHANGED <<m_deq, m_running, got>>

(* get_front with the mutex: returns null, waits, or takes the first item. *)
(* The test after the wait is the same as the test before it.              *)
GetFront(c) ==
  /\ call[c] \in {"entry", "woken"}
  /\ \/ /\ ~m_running
        /\ got' = [got EXCEPT ![c] = Null]
        /\ call' = [call EXCEPT ![c] = "out"]
        /\ UNCHANGED m_deq
     \/ /\ m_running /\ m_deq = <<>>
        /\ call' = [call EXCEPT ![c] = "waiting"]
        /\ UNCHANGED <<m_deq, got>>
     \/ /\ m_running /\ m_deq # <<>>
        /\ got' = [got EXCEPT ![c] = Head(m_deq)]
        /\ m_deq' = Tail(m_deq)
        /\ call' = [call EXCEPT ![c] = "out"]
  /\ UNCHANGED m_running

(* m_condv.wait returns although nobody notified *)
WakeFromWait(c) ==
  /\ call[c] = "waiting"
  /\ call' = [call EXCEPT ![c] = "woken"]
  /\ UNCHANGED <<m_deq, m_running, got>>

(* The consumer is done with what get_front returned *)
Use(c) ==
  /\ got[c] # NoItem
  /\ got' = [got EXCEPT ![c] = NoItem]
  /\ UNCHANGED <<m_deq, m_running, call>>

(* xqueue_condv::stop *)
Stop ==
  /\ IF m_running
       THEN /\ m_running' = FALSE
            /\ m_deq' = <<>>
            /\ call' = NotifyAll(call)
       ELSE UNCHANGED <<m_deq, m_running, call>>
  /\ UNCHANGED got

ConsumerNext(c) ==
  CallGetFront(c) \/ GetFront(c) \/ WakeFromWait(c) \/ Use(c)

QueueNext ==
  \/ \E t \in Item : Len(m_deq) < MaxQueued /\ PushBack(t)
  \/ Stop
  \/ \E c \in Consumer : ConsumerNext(c)

(* The scheduler runs every thread that can run, and a thread that waits   *)
(* for the mutex gets it.                                                  *)
QueueFairness == \A c \in Consumer : WF_queue_vars(GetFront(c))

QueueSpec == QueueInit /\ [][QueueNext]_queue_vars /\ QueueFairness

-----------------------------------------------------------------------------
(* Variables keep their types *)
QueueTypeOK ==
  /\ m_deq \in Seq(Item)
  /\ m_running \in BOOLEAN
  /\ call \in [Consumer -> {"out", "entry", "waiting", "woken"}]
  /\ got \in [Consumer -> Item \cup {Null, NoItem}]

(* No thread sleeps in get_front while there is an item to take or the     *)
(* queue is stopped: every change that makes the predicate true notifies,  *)
(* and the test and the wait are one step under the mutex.                 *)
NobodySleepsOnWork ==
  \A c \in Consumer : call[c] = "waiting" => m_running /\ m_deq = <<>>

(* The queue implements the mailbox: a thread asks while it is anywhere in *)
(* get_front, and the waiting and waking in there are invisible.           *)
Box == INSTANCE Mailbox WITH
         box <- m_deq,
         open <- m_running,
         asking <- [c \in Consumer |-> call[c] # "out"],
         None <- NoItem

(* Items come out in order, each once, until stop; then everybody is told; *)
(* and nobody is left asking while there is an answer.                     *)
ImplementsMailbox == Box!Spec
=============================================================================
