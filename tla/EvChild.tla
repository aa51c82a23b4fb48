------------------------------- MODULE EvChild ------------------------------
(***************************************************************************)
(* Child watchers (net/libev-3.7/ev.c).  One SIGCHLD may stand for several *)
(* children, so the callback of the signal asks waitpid for one child and  *)
(* feeds itself again until there is none.  A watcher has room for one     *)
(* status: its callback must be called before the next child is asked for. *)
(*                                                                         *)
(* The way of a signal to its watcher is in EvAsync; here it is fed at     *)
(* some time.  The children, the kernel and waitpid are external.          *)
(***************************************************************************)
EXTENDS Integers, Sequences, FiniteSets

CONSTANTS ChildWatcher,
          childev,           \* the watcher of SIGCHLD
          child_pending_w,   \* libev's pending_w
          Pid, pid, traced,  \* of a watcher: its pid or 0, whether stops count
          EV_PID_HASHSIZE, EV_MAXPRI, ChildPri,
          MaxReports         \* bound of the model: changes of a child

(* What is asked of the constants *)
ASSUME ChildAssumption ==
  /\ Pid \subseteq Nat \ {0} /\ pid \in [ChildWatcher -> Pid \cup {0}]
  /\ traced \in [ChildWatcher -> BOOLEAN]
  /\ childev \notin ChildWatcher /\ child_pending_w \notin ChildWatcher \cup {childev}
  /\ ChildPri \subseteq Nat /\ {0, EV_MAXPRI} \subseteq ChildPri
  /\ \A p \in ChildPri : p <= EV_MAXPRI
  /\ EV_PID_HASHSIZE \in Nat \ {0}

ReapWatcher == ChildWatcher \cup {childev}
CP == INSTANCE EvPending WITH
        Watcher <- ReapWatcher, Pri <- ChildPri, pending_w <- child_pending_w

VARIABLES childs,    \* lists of active watchers by pid
          child_active, child_priority, rstatus,
          child_pending, sigchld,
          waitable,  \* what waitpid will report: pid and status
          child_changes  \* history: per child, how often its state changed

child_vars == <<childs, child_active, child_priority, rstatus, child_pending, sigchld,
                waitable, child_changes>>

NoStatus == [pid |-> 0, status |-> "none"]
ChildInit ==
  /\ childs = [c \in 0..EV_PID_HASHSIZE - 1 |-> <<>>]
  /\ child_active = [w \in ChildWatcher |-> FALSE]
  /\ child_priority = [w \in ReapWatcher |-> IF w = childev THEN EV_MAXPRI ELSE 0]
  /\ rstatus = [w \in ChildWatcher |-> NoStatus]
  /\ child_pending = CP!NoneFed /\ sigchld = FALSE
  /\ waitable = {} /\ child_changes = [p \in Pid |-> 0]

Chain(p) == p % EV_PID_HASHSIZE

(* A child stops, goes on or exits; a status not asked for is replaced *)
Change(p, status) ==
  /\ child_changes[p] < MaxReports /\ [pid |-> p, status |-> "exited"] \notin waitable
  /\ child_changes' = [child_changes EXCEPT ![p] = IF status = "exited" THEN MaxReports ELSE @ + 1]
  /\ waitable' = {x \in waitable : x.pid # p} \cup {[pid |-> p, status |-> status]}
  /\ sigchld' = TRUE
  /\ UNCHANGED <<childs, child_active, child_priority, rstatus, child_pending>>

\* the signal reaches ev_feed_signal_event
FeedSignal ==
  /\ sigchld /\ sigchld' = FALSE
  /\ child_pending' = CP!FeedEvent(child_pending, childev, {"EV_SIGNAL"}, child_priority)
  /\ UNCHANGED <<childs, child_active, child_priority, rstatus, waitable, child_changes>>

(* ev_child_start, ev_child_stop *)
ChildStart(w) ==
  /\ ~child_active[w]
  /\ childs' = [childs EXCEPT ![Chain(pid[w])] = <<w>> \o @]
  /\ child_active' = [child_active EXCEPT ![w] = TRUE]
  /\ UNCHANGED <<child_priority, rstatus, child_pending, sigchld, waitable, child_changes>>

\* wlist_del
Delisted(list, w) ==
  IF \E i \in 1..Len(list) : list[i] = w
    THEN LET i == CHOOSE i \in 1..Len(list) : list[i] = w
         IN  SubSeq(list, 1, i - 1) \o SubSeq(list, i + 1, Len(list))
    ELSE list

ChildStop(w) ==
  /\ child_pending' = CP!ClearPending(child_pending, w, child_priority)
  /\ childs' = [childs EXCEPT ![Chain(pid[w])] = Delisted(@, w)]
  /\ child_active' = [child_active EXCEPT ![w] = FALSE]
  /\ UNCHANGED <<child_priority, rstatus, sigchld, waitable, child_changes>>

-----------------------------------------------------------------------------
(* child_reap: of a chain those hear of x that wait for its pid or for any *)
Concerned(x) ==
  {w \in ChildWatcher : pid[w] \in {x.pid, 0} /\ (x.status = "exited" \/ traced[w])}
Hears(w, x) ==
  /\ w \in Concerned(x)
  /\ \E c \in {Chain(x.pid), 0} : \E i \in 1..Len(childs[c]) : childs[c][i] = w
Raised(x) == [w \in ReapWatcher |-> IF Hears(w, x) THEN EV_MAXPRI ELSE child_priority[w]]
child_reap(Q, chain, x) ==
  CP!QueueChosen(Q, childs[chain], Concerned(x), {"EV_CHILD"}, Raised(x))
Reaped(Q, x) ==
  LET R == child_reap(Q, Chain(x.pid), x)
  IN  IF EV_PID_HASHSIZE > 1 THEN child_reap(R, 0, x) ELSE R

\* A variant that feeds the signal again after the watchers.
FedLast(Q, x) == CP!FeedEvent(Reaped(Q, x), childev, {"EV_SIGNAL"}, child_priority)

\* the signal again, then the watchers of both chains
FedAgain(Q, x) == Reaped(CP!FeedEvent(Q, childev, {"EV_SIGNAL"}, child_priority), x)

(* ev_invoke_pending calls childcb, or the callback of a child watcher *)
ChildCb ==
  /\ CP!AnyPending(child_pending) /\ CP!Next_(child_pending).w = childev
  /\ \/ /\ waitable = {}
        /\ child_pending' = CP!Popped(child_pending)
        /\ UNCHANGED <<child_priority, rstatus, waitable>>
     \/ \E x \in waitable :
          /\ waitable' = waitable \ {x}
          /\ child_priority' = Raised(x)
          /\ rstatus' = [w \in ChildWatcher |-> IF Hears(w, x) THEN x ELSE rstatus[w]]
          /\ child_pending' = FedAgain(CP!Popped(child_pending), x)
  /\ UNCHANGED <<childs, child_active, sigchld, child_changes>>

ChildCallback ==
  /\ CP!AnyPending(child_pending) /\ CP!Next_(child_pending).w # childev
  /\ child_pending' = CP!Popped(child_pending)
  /\ UNCHANGED <<childs, child_active, child_priority, rstatus, sigchld, waitable, child_changes>>

ChildNext ==
  \/ \E p \in Pid, status \in {"exited", "stopped"} : Change(p, status)
  \/ \E w \in ChildWatcher : ChildStart(w) \/ ChildStop(w)
  \/ FeedSignal \/ ChildCb \/ ChildCallback

ChildSpec == ChildInit /\ [][ChildNext]_child_vars

-----------------------------------------------------------------------------
(* childcb is "called again until all children have been reaped", however  *)
(* many change behind one signal: as long as waitpid has something to tell *)
(* the signal is on its way or its watcher is pending.  And "the callback  *)
(* gets called before we continue": the status a watcher has not yet been  *)
(* called for is not replaced by the next child's.                         *)
NobodyLeftWaiting == waitable # {} => sigchld \/ child_pending.at[childev] # 0
ReapStep ==
  /\ NobodyLeftWaiting'
  /\ \A w \in ChildWatcher :
       child_pending.at[w] # 0 /\ child_pending'.at[w] # 0 => rstatus'[w] = rstatus[w]
ReapedOneByOne == [][ReapStep]_child_vars
=============================================================================
