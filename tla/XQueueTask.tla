------------------------------ MODULE XQueueTask ------------------------------
(***************************************************************************)
(* The task queue of one thread: class xqueue_task of xelect/xqueue.h on   *)
(* an asio::io_context.                                                    *)
(*                                                                         *)
(* start is one critical section.  post tests m_running under m_mutex and  *)
(* gives the task to the io_context after it has released it, so it is two *)
(* actions; stop clears m_running under m_mutex and then, without it,      *)
(* drops the work object and joins the thread: three actions.  Of the      *)
(* io_context the model keeps what the code relies on: run() executes the  *)
(* posted handlers in order and returns once no handler and no work object *)
(* is left, and from then on a posted handler stays in the queue.          *)
(***************************************************************************)
EXTENDS XTaskCalls

(* What is asked of the constants *)
TaskAssumption == Task \cap Stopper = {}

VARIABLES m_started, m_running,  \* members
          m_work,       \* m_work_ptr holds the work object of m_ioctx
          m_handlers,   \* handlers queued in m_ioctx
          ioctx_stopped,\* m_ioctx ran out of work once
          executing,    \* the handler run() has taken and not finished
          thread,       \* of m_thread_ptr: "none", "running", "ended"
          post          \* where the post of each task is

vars == <<m_started, m_running, m_work, m_handlers, ioctx_stopped, executing,
          thread, post, stop, posted, promised, executed>>
ioctx == <<m_handlers, ioctx_stopped, executing>>
history == <<posted, promised, executed>>

Init ==
  /\ m_started = FALSE /\ m_running = FALSE
  /\ m_work = FALSE
  /\ m_handlers = <<>> /\ ioctx_stopped = FALSE /\ executing = <<>>
  /\ thread = "none"
  /\ post = [t \in Task |-> "new"]
  /\ stop = [s \in Stopper |-> "out"]
  /\ posted = <<>> /\ promised = <<>> /\ executed = <<>>

(* xqueue_task::start *)
Start ==
  /\ ~m_started
  /\ m_started' = TRUE /\ m_running' = TRUE
  /\ m_work' = TRUE
  /\ thread' = "running"
  /\ UNCHANGED <<ioctx, post, stop, history>>

(* post under m_mutex; the assertion is the caller's duty *)
PostTest(t) ==
  /\ post[t] = "new" /\ m_started
  /\ post' = [post EXCEPT ![t] = IF m_running THEN "tested" ELSE "refused"]
  /\ UNCHANGED <<m_started, m_running, m_work, ioctx, thread, stop, history>>

(* m_ioctx.post(task) *)
PostTask(t) ==
  /\ post[t] = "tested"
  /\ post' = [post EXCEPT ![t] = "posted"]
  /\ m_handlers' = Append(m_handlers, t)
  /\ posted' = Append(posted, t)
  /\ UNCHANGED <<m_started, m_running, m_work, ioctx_stopped, executing,
                 thread, stop, promised, executed>>

(* stop under m_mutex: only the first call after start goes on *)
StopTest(s) ==
  /\ stop[s] = "out"
  /\ IF m_running
       THEN /\ m_running' = FALSE
            /\ stop' = [stop EXCEPT ![s] = "reset"]
            /\ promised' = posted
       ELSE /\ stop' = [stop EXCEPT ![s] = "returned"]
            /\ UNCHANGED <<m_running, promised>>
  /\ UNCHANGED <<m_started, m_work, ioctx, thread, post, posted, executed>>

\* Variants of m_work_ptr.reset with a slip of the kind this code invites:
\* the io_context is stopped at once, or the work object is kept.
StopAtOnce(s) ==
  /\ stop[s] = "reset"
  /\ stop' = [stop EXCEPT ![s] = "join"]
  /\ m_work' = FALSE /\ ioctx_stopped' = TRUE
  /\ UNCHANGED <<m_started, m_running, m_handlers, executing, thread, post, history>>

StopKeepsWork(s) ==
  /\ stop[s] = "reset"
  /\ stop' = [stop EXCEPT ![s] = "join"]
  /\ UNCHANGED <<m_started, m_running, m_work, ioctx, thread, post, history>>

(* m_work_ptr.reset(): without handlers the io_context is out of work *)
StopReset(s) ==
  /\ stop[s] = "reset"
  /\ stop' = [stop EXCEPT ![s] = "join"]
  /\ m_work' = FALSE
  /\ ioctx_stopped' = (ioctx_stopped \/ (m_handlers = <<>> /\ executing = <<>>))
  /\ UNCHANGED <<m_started, m_running, m_handlers, executing, thread, post, history>>

(* m_thread_ptr->join() returns *)
StopJoin(s) ==
  /\ stop[s] = "join" /\ thread = "ended"
  /\ stop' = [stop EXCEPT ![s] = "joined"]
  /\ UNCHANGED <<m_started, m_running, m_work, ioctx, thread, post, history>>

(* thread_proc: run() takes the next handler, ... *)
RunHandler ==
  /\ thread = "running" /\ ~ioctx_stopped
  /\ executing = <<>> /\ m_handlers # <<>>
  /\ executing' = <<Head(m_handlers)>>
  /\ m_handlers' = Tail(m_handlers)
  /\ UNCHANGED <<m_started, m_running, m_work, ioctx_stopped, thread, post, stop, history>>

(* ... finishes it, which may leave the io_context out of work, ... *)
FinishHandler ==
  /\ executing # <<>>
  /\ executed' = executed \o executing
  /\ executing' = <<>>
  /\ ioctx_stopped' = (ioctx_stopped \/ (m_handlers = <<>> /\ ~m_work))
  /\ UNCHANGED <<m_started, m_running, m_work, m_handlers, thread, post, stop, posted, promised>>

(* ... and returns when there is no work *)
RunReturns ==
  /\ thread = "running" /\ ioctx_stopped /\ executing = <<>>
  /\ thread' = "ended"
  /\ UNCHANGED <<m_started, m_running, m_work, ioctx, post, stop, history>>

Poster(t) == PostTest(t) \/ PostTask(t)
StopCall(s) == StopTest(s) \/ StopReset(s) \/ StopJoin(s)
Worker == RunHandler \/ FinishHandler \/ RunReturns

Next ==
  \/ Start
  \/ \E t \in Task : Poster(t)
  \/ \E s \in Stopper : StopCall(s)
  \/ Worker

(* Every thread inside post or stop goes on, and the worker runs; nobody   *)
(* has to call start, post or stop.                                        *)
Fairness ==
  /\ WF_vars(Worker)
  /\ \A t \in Task : WF_vars(PostTask(t))
  /\ \A s \in Stopper : WF_vars(StopReset(s) \/ StopJoin(s))

Spec == Init /\ [][Next]_vars /\ Fairness

-----------------------------------------------------------------------------
(* A call of stop that finds the queue running returns, whoever posts at   *)
(* the same time.                                                          *)
TaskStopReturns == \A s \in Stopper : stop[s] = "reset" ~> stop[s] = "joined"
=============================================================================
