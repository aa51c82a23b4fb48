------------------------------- MODULE EvLoop -------------------------------
(***************************************************************************)
(* ev_loop of net/libev-3.7/ev.c: one turn queues fork watchers, prepare   *)
(* watchers, what the backend found, idle watchers and check watchers, and *)
(* calls the callbacks, the last queued first.  A callback may start and   *)
(* stop watchers, feed events, tell of a fork, unloop, and call ev_loop    *)
(* again.                                                                  *)
(*                                                                         *)
(* "plain" watchers stand for those the backend and the heaps feed.        *)
(***************************************************************************)
EXTENDS Integers, Sequences, FiniteSets

CONSTANTS LoopWatcher, kind, LoopPri, loop_priority,
          loop_pending_w,  \* libev's pending_w
          MaxDepth,        \* bound of the model: calls of ev_loop in each other
          MaxPolls,        \* bound of the model: loop_count
          MaxLoopSteps     \* bound of the model: what callbacks do

(* What is asked of the constants *)
ASSUME LoopAssumption ==
  /\ kind \in [LoopWatcher -> {"fork", "prepare", "check", "idle", "plain"}]
  /\ IsFiniteSet(LoopWatcher) /\ loop_pending_w \notin LoopWatcher
  /\ LoopPri \subseteq Nat /\ \E m \in LoopPri : \A p \in LoopPri : p <= m
  /\ loop_priority \in [LoopWatcher -> LoopPri]

LP == INSTANCE EvPending WITH
        Watcher <- LoopWatcher, Pri <- LoopPri, pending_w <- loop_pending_w

\* forks, prepares, checks, and an array of idle watchers for each priority
Idles(p) == <<"idle", p>>
The(k) == <<k, 0>>
Arrays == {The(k) : k \in {"fork", "prepare", "check", "plain"}} \cup {Idles(p) : p \in LoopPri}
ArrayOf(w) == IF kind[w] = "idle" THEN Idles(loop_priority[w]) ELSE The(kind[w])

VARIABLES array, actives, activecnt, pendings,
          loop_done, postfork, loop_count,
          frames,       \* the calls of ev_loop, innermost last
          refs,         \* history: ev_ref less ev_unref by the program
          unheard,      \* history: fork watchers to hear of the fork told last
          ending,       \* history: EVUNLOOP_ALL, and ev_loop not called since
          loop_steps

loop_vars == <<array, actives, activecnt, pendings, loop_done, postfork, loop_count,
               frames, refs, unheard, ending, loop_steps>>

LoopInit ==
  /\ array = [a \in Arrays |-> <<>>] /\ actives = [w \in LoopWatcher |-> 0]
  /\ activecnt = 0 /\ refs = 0
  /\ pendings = LP!NoneFed
  /\ loop_done = "EVUNLOOP_CANCEL" /\ postfork = FALSE /\ loop_count = 0
  /\ frames = <<>>
  /\ unheard = {} /\ ending = FALSE /\ loop_steps = 0

Top == frames[Len(frames)]
\* user code runs: the main program, or a callback of the innermost ev_loop
Running == IF frames = <<>> THEN TRUE ELSE Top.running
ByProgram == Running /\ loop_steps < MaxLoopSteps /\ loop_steps' = loop_steps + 1
At(at) == frames # <<>> /\ ~Top.running /\ Top.at = at
MaxPri == CHOOSE p \in LoopPri : \A o \in LoopPri : o <= p
\* EV_INVOKE_PENDING: the priorities above Top.pri are done with
Ripe == {p \in LoopPri : p <= Top.pri /\ pendings.q[p] # <<>>}
To(at) == frames' = [frames EXCEPT ![Len(frames)] =
                       [@ EXCEPT !.at = at, !.pri = MaxPri]]
\* the call goes on without EV_INVOKE_PENDING
Past(at) == frames' = [frames EXCEPT ![Len(frames)].at = at]

-----------------------------------------------------------------------------
(* Watchers *)
\* ev_prepare_start and its like
LoopStart(w) ==
  /\ ByProgram /\ actives[w] = 0
  /\ array' = [array EXCEPT ![ArrayOf(w)] = Append(@, w)]
  /\ actives' = [actives EXCEPT ![w] = Len(array[ArrayOf(w)]) + 1]
  /\ activecnt' = activecnt + 1
  /\ UNCHANGED <<pendings, loop_done, postfork, loop_count, frames, refs, unheard, ending>>

\* A variant that does not tell the watcher that moved its new place.
Removed(w, a) ==
  /\ array' = [array EXCEPT ![a] =
                 SubSeq([@ EXCEPT ![actives[w]] = array[a][Len(array[a])]], 1, Len(@) - 1)]
  /\ actives' = [actives EXCEPT ![w] = 0]

\* the last of the array takes the place of w
ArrayRemove(w, a) ==
  LET last == array[a][Len(array[a])]
  IN  /\ array' = [array EXCEPT ![a] = SubSeq([@ EXCEPT ![actives[w]] = last], 1, Len(@) - 1)]
      /\ actives' = [actives EXCEPT ![last] = actives[w], ![w] = 0]

\* ev_prepare_stop and its like
LoopStop(w) ==
  /\ ByProgram
  /\ pendings' = LP!ClearPending(pendings, w, loop_priority)
  /\ IF actives[w] = 0 THEN UNCHANGED <<array, actives, activecnt>>
     ELSE ArrayRemove(w, ArrayOf(w)) /\ activecnt' = activecnt - 1
  /\ unheard' = unheard \ {w}
  /\ UNCHANGED <<loop_done, postfork, loop_count, frames, refs, ending>>

FeedEvent(w) ==
  /\ ByProgram
  /\ pendings' = LP!FeedEvent(pendings, w, {"EV_CUSTOM"}, loop_priority)
  /\ UNCHANGED <<array, actives, activecnt, loop_done, postfork, loop_count, frames, refs, unheard, ending>>

\* one reference given up at most, and taken back
Unref == refs = 0 /\ activecnt > 0 /\ activecnt' = activecnt - 1 /\ refs' = -1
Ref == refs = -1 /\ activecnt' = activecnt + 1 /\ refs' = 0
Refs ==
  /\ ByProgram /\ (Ref \/ Unref)
  /\ UNCHANGED <<array, actives, pendings, loop_done, postfork, loop_count, frames, unheard, ending>>

Unloop(how) ==
  /\ ByProgram /\ frames # <<>>
  /\ loop_done' = how
  /\ ending' = (how = "EVUNLOOP_ALL")
  /\ UNCHANGED <<array, actives, activecnt, pendings, postfork, loop_count, frames, refs, unheard>>

\* told by a callback of the forks or prepares of this turn, it comes late
LoopFork ==
  /\ ByProgram
  /\ postfork' = TRUE
  /\ unheard' = IF \E i \in 1..Len(frames) : frames[i].at \in {"forks", "prepares"} THEN {}
                ELSE {w \in LoopWatcher : kind[w] = "fork" /\ actives[w] # 0}
  /\ UNCHANGED <<array, actives, activecnt, pendings, loop_done, loop_count, frames, refs, ending>>

CallbackDone ==
  /\ frames # <<>> /\ Top.running
  /\ frames' = [frames EXCEPT ![Len(frames)].running = FALSE]
  /\ UNCHANGED <<array, actives, activecnt, pendings, loop_done, postfork, loop_count, refs, unheard, ending, loop_steps>>

-----------------------------------------------------------------------------
(* ev_loop; once stands for EVLOOP_ONESHOT and EVLOOP_NONBLOCK *)
Loop(once) ==
  /\ ByProgram /\ Len(frames) < MaxDepth
  /\ loop_done' = "EVUNLOOP_CANCEL"
  /\ frames' = Append(frames, [at |-> "enter", pri |-> MaxPri, running |-> FALSE, once |-> once])
  /\ ending' = FALSE
  /\ UNCHANGED <<array, actives, activecnt, pendings, postfork, loop_count, refs, unheard>>

InvokePending ==
  /\ frames # <<>> /\ ~Top.running /\ Ripe # {}
  /\ LET p == CHOOSE p \in Ripe : \A o \in Ripe : o <= p
         w == LP!Last(pendings, p).w
     IN  /\ pendings' = LP!PoppedFrom(pendings, p)
         /\ frames' = [frames EXCEPT ![Len(frames)] =
                         [@ EXCEPT !.pri = p, !.running = (w # loop_pending_w)]]
         /\ unheard' = unheard \ {w}
  /\ UNCHANGED <<array, actives, activecnt, loop_done, postfork, loop_count, refs, ending, loop_steps>>

\* A variant that looks for a fork between two turns, and not before the first.
ForkedBetween == postfork /\ Top.at = "turn"
\* the fork watchers are due
Forked == postfork

QueueForks ==
  /\ At("enter") \/ At("turn")
  /\ Ripe = {}
  /\ IF Forked /\ array[The("fork")] # <<>>
       THEN /\ pendings' = LP!QueueEvents(pendings, array[The("fork")], {"EV_FORK"}, loop_priority)
            /\ To("forks")
       ELSE UNCHANGED pendings /\ Past("forks")
  /\ UNCHANGED <<array, actives, activecnt, loop_done, postfork, loop_count, refs, unheard, ending, loop_steps>>

QueuePrepares ==
  /\ At("forks") /\ Ripe = {}
  /\ IF array[The("prepare")] # <<>>
       THEN /\ pendings' = LP!QueueEvents(pendings, array[The("prepare")], {"EV_PREPARE"}, loop_priority)
            /\ To("prepares")
       ELSE UNCHANGED pendings /\ Past("prepares")
  /\ UNCHANGED <<array, actives, activecnt, loop_done, postfork, loop_count, refs, unheard, ending, loop_steps>>

\* idle_reify: the highest priority that has idle watchers, unless events
\* of it or of a higher one are pending
IdleReified(Q) ==
  LET Busy == {p \in LoopPri : Q.q[p] # <<>> \/ array[Idles(p)] # <<>>}
      top == CHOOSE p \in Busy : \A o \in Busy : o <= p
  IN  IF Busy = {} \/ Q.q[top] # <<>> THEN Q ELSE LP!QueueEvents(Q, array[Idles(top)], {"EV_IDLE"}, loop_priority)

\* loop_fork if need be, the poll, and all that it made pending
LoopPoll ==
  /\ At("prepares") /\ Ripe = {} /\ loop_done = "EVUNLOOP_CANCEL"
  /\ loop_count < MaxPolls /\ loop_count' = loop_count + 1
  /\ postfork' = FALSE
  /\ \E came \in {<<>>} \cup {<<w>> : w \in {x \in LoopWatcher : kind[x] = "plain" /\ actives[x] # 0}} :
       LET Q == LP!QueueEvents(pendings, came, {"EV_READ"}, loop_priority)
       IN  pendings' = LP!QueueEvents(IdleReified(Q), array[The("check")], {"EV_CHECK"}, loop_priority)
  /\ To("checks")
  /\ UNCHANGED <<array, actives, activecnt, loop_done, refs, unheard, ending, loop_steps>>

Again ==
  /\ At("checks") /\ Ripe = {}
  /\ activecnt # 0 /\ loop_done = "EVUNLOOP_CANCEL" /\ ~Top.once
  /\ Past("turn")
  /\ UNCHANGED <<array, actives, activecnt, pendings, loop_done, postfork, loop_count, refs, unheard, ending, loop_steps>>

\* A variant in which any unloop ends with the innermost call.
LeftBy(how) == "EVUNLOOP_CANCEL"
\* what is left of how when ev_loop returns
LeaveWith(how) == IF how = "EVUNLOOP_ONE" THEN "EVUNLOOP_CANCEL" ELSE how

Return ==
  /\ \/ At("prepares") /\ Ripe = {} /\ loop_done # "EVUNLOOP_CANCEL"
     \/ At("checks") /\ Ripe = {}
        /\ (activecnt = 0 \/ loop_done # "EVUNLOOP_CANCEL" \/ Top.once)
  /\ loop_done' = LeaveWith(loop_done)
  /\ frames' = SubSeq(frames, 1, Len(frames) - 1)
  /\ ending' = (ending /\ Len(frames) > 1)
  /\ UNCHANGED <<array, actives, activecnt, pendings, postfork, loop_count, refs, unheard, loop_steps>>

LoopNext ==
  \/ \E w \in LoopWatcher : LoopStart(w) \/ LoopStop(w) \/ FeedEvent(w)
  \/ Refs \/ LoopFork
  \/ \E how \in {"EVUNLOOP_ONE", "EVUNLOOP_ALL"} : Unloop(how)
  \/ \E once \in BOOLEAN : Loop(once)
  \/ CallbackDone \/ InvokePending
  \/ QueueForks \/ QueuePrepares \/ LoopPoll \/ Again \/ Return

LoopSpec == LoopInit /\ [][LoopNext]_loop_vars

-----------------------------------------------------------------------------
(* What ev_loop_verify asserts of the arrays: every watcher is where its   *)
(* active field says, a pending one where its pending field says, and      *)
(* activecnt counts the active ones, so a loop ends exactly when it may.   *)
LoopVerified ==
  /\ \A a \in Arrays : \A i \in 1..Len(array[a]) : actives[array[a][i]] = i
  /\ \A w \in LoopWatcher :
       actives[w] # 0 => \E i \in 1..Len(array[ArrayOf(w)]) :
                           actives[w] = i /\ array[ArrayOf(w)][i] = w
  /\ activecnt = Cardinality({w \in LoopWatcher : actives[w] # 0}) + refs
  /\ LP!PendingVerified(pendings, loop_priority)

\* a step that may poll after a fork, and one that does poll
ForkStep == postfork /\ ~postfork' => unheard = {}
UnloopedStep == loop_count' # loop_count => ~ending

(* Before the loop polls after a fork, every fork watcher that was active  *)
(* when the loop was told has been called or stopped, unless a fork or     *)
(* prepare callback told: the watchers of that turn are queued before it,  *)
(* and loop_fork puts the mark out after it.  And after ev_unloop with     *)
(* EVUNLOOP_ALL no call polls again, however deep they are in each other,  *)
(* unless ev_loop is entered or unloop is called anew.                     *)
LoopObeys == [][ForkStep /\ UnloopedStep]_loop_vars
=============================================================================
