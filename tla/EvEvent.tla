------------------------------- MODULE EvEvent -------------------------------
(***************************************************************************)
(* The libevent interface of libev (net/libev-3.7/event.c) and ev_once of  *)
(* ev.c.  An event has a watcher for its descriptor or signal and one for  *)
(* its timeout, so it may be pending twice; ev_once has the same two and   *)
(* is freed by the first that is called.                                   *)
(* When a watcher becomes due is left open: any active one may.            *)
(***************************************************************************)
EXTENDS Integers, Sequences, FiniteSets

CONSTANTS Event, Once,  \* struct event, and calls of ev_once
          signal,       \* the events that are for signals
          timeouts,     \* those for neither a signal nor a descriptor
          persist,      \* those with EV_PERSIST
          pending_w,
          MaxSteps      \* bound of the model: calls of the program

(* What is asked of the constants *)
ASSUME EventAssumption ==
  /\ Event \cap Once = {} /\ signal \subseteq Event /\ persist \subseteq Event
  /\ timeouts \subseteq Event \ signal
  /\ pending_w \notin (Event \cup Once) \X {"iosig", "to"}

iosig(e) == <<e, "iosig">>
to(e) == <<e, "to">>
Watchers == (Event \cup Once) \X {"iosig", "to"}
priority == [w \in Watchers |-> 0]
P == INSTANCE EvPending WITH Watcher <- Watchers, Pri <- {0}

VARIABLES active_w,   \* watchers
          pending,
          repeat,   \* to.repeat of an event is not 0
          phase,    \* "collect" due watchers, or "invoke" what is pending
          state,    \* of an ev_once: "unused", "allocated" or "freed"
          called,   \* history: callbacks of an ev_once
          deleted,  \* history: deleted, and not added or activated since
          byhand,   \* history: what event_active gave and event_del leaves
          steps

event_vars == <<active_w, pending, repeat, phase, state, called, deleted, byhand, steps>>

(* event_set *)
EventInit ==
  /\ active_w = {} /\ pending = P!NoneFed
  /\ repeat = [e \in Event |-> FALSE]
  /\ phase = "collect"
  /\ state = [o \in Once |-> "unused"] /\ called = [o \in Once |-> 0]
  /\ deleted = Event /\ byhand = {} /\ steps = 0

-----------------------------------------------------------------------------
(* Watchers of the loop, on a record of active and pending *)
Here == [active |-> active_w, pending |-> pending]
Stopped(s, w) == [active |-> s.active \ {w}, pending |-> P!ClearPending(s.pending, w, priority)]
Fed(s, w, revents) == [s EXCEPT !.pending = P!FeedEvent(@, w, revents, priority)]
LoopBecomes(s) == active_w' = s.active /\ pending' = s.pending

(* What event_add starts for the descriptor or signal, if there is one *)
Listener(e) == IF e \in timeouts THEN {} ELSE {iosig(e)}
Unlistened(s, e) == IF e \in timeouts THEN s ELSE Stopped(s, iosig(e))

\* A variant that stops the timeout only of an event with nothing else.
DelKeepsTimer(s, e) == Unlistened(s, e)

(* event_del: it clears no timeout whose timer is not active, and no read  *)
(* or write given to an event without a descriptor                         *)
Deleted(s, e) ==
  LET t == Unlistened(s, e)
  IN  IF to(e) \in t.active THEN Stopped(t, to(e)) ELSE t

-----------------------------------------------------------------------------
(* The program, also in callbacks *)
Step == steps < MaxSteps /\ steps' = steps + 1 /\ UNCHANGED phase

(* event_add, without a timeout *)
EventAdd(e) ==
  /\ Step
  /\ LoopBecomes(Stopped([Here EXCEPT !.active = @ \cup Listener(e)], to(e)))
  /\ deleted' = deleted \ {e} /\ byhand' = byhand \ {to(e)}
  /\ UNCHANGED <<repeat, state, called>>

(* event_add with one, by ev_timer_again; one of 0 stops it *)
EventAddTimeout(e, again) ==
  /\ Step
  /\ repeat' = [repeat EXCEPT ![e] = again]
  /\ LET s == [Here EXCEPT !.active = @ \cup Listener(e)]
     IN  LoopBecomes(IF again THEN [s EXCEPT !.active = @ \cup {to(e)}]
                 ELSE IF to(e) \in active_w THEN Stopped(s, to(e)) ELSE s)
  /\ deleted' = deleted \ {e}
  /\ UNCHANGED <<state, called, byhand>>

EventDel(e) ==
  /\ Step
  /\ LoopBecomes(Deleted(Here, e))
  /\ deleted' = deleted \cup {e}
  /\ byhand' = IF to(e) \in active_w THEN byhand \ {to(e)} ELSE byhand
  /\ UNCHANGED <<repeat, state, called>>

EventActive(e, w) ==
  /\ Step
  /\ LoopBecomes(Fed(Here, w, {IF w = to(e) THEN "EV_TIMEOUT" ELSE "EV_IOSIG"}))
  /\ deleted' = deleted \ {e}
  /\ byhand' = IF w \notin active_w \cup Listener(e) THEN byhand \cup {w} ELSE byhand
  /\ UNCHANGED <<repeat, state, called>>

(* event_once, event_loopexit: ev_once with a descriptor, a timeout or both *)
EvOnce(o, ws) ==
  /\ Step /\ state[o] = "unused"
  /\ state' = [state EXCEPT ![o] = "allocated"]
  /\ active_w' = active_w \cup ws
  /\ UNCHANGED <<pending, repeat, called, deleted, byhand>>

-----------------------------------------------------------------------------
(* The loop: an active watcher is due; a timer that does not repeat stops *)
Due(w) ==
  /\ phase = "collect" /\ w \in active_w
  /\ LET oneshot == w[2] = "to" /\ w[1] \in Once
         s == IF oneshot THEN Stopped(Here, w) ELSE Here
     IN  LoopBecomes(Fed(s, w, {IF w[2] = "to" THEN "EV_TIMEOUT" ELSE "EV_IOSIG"}))
  /\ UNCHANGED <<repeat, phase, state, called, deleted, byhand, steps>>

(* fd_kill *)
FdKill(e) ==
  /\ phase = "collect" /\ iosig(e) \in active_w /\ e \notin signal
  /\ LoopBecomes(Fed(Stopped(Here, iosig(e)), iosig(e), {"EV_IOSIG", "EV_ERROR"}))
  /\ UNCHANGED <<repeat, phase, state, called, deleted, byhand, steps>>

Invoking ==
  /\ phase = "collect" /\ P!AnyPending(pending)
  /\ phase' = "invoke"
  /\ UNCHANGED <<active_w, pending, repeat, state, called, deleted, byhand, steps>>

Popped(w) == /\ phase = "invoke" /\ P!AnyPending(pending) /\ P!Next_(pending).w = w

(* ev_x_cb_io, ev_x_cb_sig and ev_x_cb_to, then the callback of the event *)
Deletes(e, w, revents) ==
  \/ w = to(e)
  \/ "EV_ERROR" \in revents
  \/ e \notin signal /\ e \notin persist
EventCallback(e) ==
  /\ \E w \in {iosig(e), to(e)} :
       /\ Popped(w)
       /\ LET s == [Here EXCEPT !.pending = P!Popped(@)]
              del == Deletes(e, w, P!Next_(pending).events)
          IN  /\ LoopBecomes(IF del THEN Deleted(s, e) ELSE s)
              /\ deleted' = IF del THEN deleted \cup {e} ELSE deleted
       /\ byhand' = byhand \ {w}
  /\ UNCHANGED <<repeat, phase, state, called, steps>>

\* A variant that only stops the watcher that was called.
OnceStopsOne(s, o, w) == Stopped(s, w)

\* once_cb: both are stopped and the memory is freed
OnceDone(s, o, w) == Stopped(Stopped(s, iosig(o)), to(o))
OnceCallback(o) ==
  /\ \E w \in {iosig(o), to(o)} :
       Popped(w) /\ LoopBecomes(OnceDone([Here EXCEPT !.pending = P!Popped(@)], o, w))
  /\ state' = [state EXCEPT ![o] = "freed"]
  /\ called' = [called EXCEPT ![o] = @ + 1]
  /\ UNCHANGED <<repeat, phase, deleted, byhand, steps>>

\* Nothing is left, or what is left was stopped
Skip ==
  /\ phase = "invoke"
  /\ \/ ~P!AnyPending(pending) /\ phase' = "collect" /\ UNCHANGED pending
     \/ Popped(pending_w) /\ pending' = P!Popped(pending) /\ UNCHANGED phase
  /\ UNCHANGED <<active_w, repeat, state, called, deleted, byhand, steps>>

EventNext ==
  \/ \E e \in Event :
       \/ EventAdd(e) \/ EventDel(e) \/ EventCallback(e)
       \/ \E again \in BOOLEAN : EventAddTimeout(e, again)
       \/ \E w \in {iosig(e), to(e)} : EventActive(e, w)
  \/ \E o \in Once :
       \/ OnceCallback(o)
       \/ \E ws \in (SUBSET {iosig(o), to(o)}) \ {{}} : EvOnce(o, ws)
  \/ \E w \in Watchers : Due(w)
  \/ \E e \in Event \cup Once : FdKill(e)
  \/ Invoking \/ Skip

EventSpec == EventInit /\ [][EventNext]_event_vars

-----------------------------------------------------------------------------
(* No watcher that was stopped is called, though descriptor and timeout    *)
(* may be due together.  ev_once calls its callback once, and then nothing *)
(* of what it freed is active or pending; an event that event_del stopped  *)
(* is silent, but for what event_active gave by hand and event_del leaves: *)
(* a timeout, or a read or write of an event without a descriptor.         *)
OnceOver(o) ==
  /\ called[o] <= 1
  /\ called[o] = 1 => \A w \in {iosig(o), to(o)} : w \notin active_w /\ pending.at[w] = 0
CallStep ==
  /\ \A o \in Once : OnceOver(o)'
  /\ \A e \in deleted : EventCallback(e) => \E w \in {iosig(e), to(e)} \cap byhand : Popped(w)
CalledInTime == [][CallStep]_event_vars
=============================================================================
