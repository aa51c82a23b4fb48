------------------------------ MODULE XTaskCalls ------------------------------
(* The task queue as those see it who post to it and stop it (xelect/xqueue.h) *)
EXTENDS Naturals, Sequences, SequencesExt

CONSTANTS Task,     \* each task is posted once, by a thread of its own
          Stopper   \* threads that call stop

VARIABLES
  stop,         \* where each call of stop is
  posted,       \* history: tasks given to the io_context, in order
  promised,     \* history: posted as it was when m_running was cleared
  executed      \* history: tasks run, in order

(* Tasks run in the order of their posts, each once and none left out, and *)
(* once stop has joined the thread every task whose post had returned when *)
(* stop was called has run: dropping the work object lets the io_context   *)
(* run dry instead of cutting it off.  A task whose post is overtaken by   *)
(* stop may stay in the queue for good.                                    *)
StopDrains ==
  /\ IsPrefix(executed, posted)
  /\ \A s \in Stopper : stop[s] = "joined" => IsPrefix(promised, executed)
=============================================================================
