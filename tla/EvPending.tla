------------------------------ MODULE EvPending ------------------------------
(***************************************************************************)
(* The events libev has still to deliver: ev_feed_event, clear_pending and *)
(* the array walk of ev_invoke_pending (net/libev-3.7/ev.c).               *)
(*                                                                         *)
(* A record: q, an array for each priority, and at, the place of every     *)
(* watcher in the array of its priority, 0 if it is not pending.           *)
(***************************************************************************)
EXTENDS Naturals, Sequences, FiniteSets

CONSTANTS Watcher, Pri,   \* priorities, numbers as in ABSPRI
          pending_w       \* takes the place of a watcher that was stopped

NoneFed == [q |-> [p \in Pri |-> <<>>], at |-> [w \in Watcher |-> 0]]

\* A variant that forgets the watcher but not its event.
ClearPlaceOnly(P, w, pri) == [P EXCEPT !.at[w] = 0]

(* clear_pending, and ev_clear_pending but for its answer *)
ClearPending(P, w, pri) ==
  IF P.at[w] = 0 THEN P
  ELSE [q |-> [P.q EXCEPT ![pri[w]][P.at[w]].w = pending_w], at |-> [P.at EXCEPT ![w] = 0]]

\* A variant that appends an event for a watcher that already has one.
FeedTwice(P, w, revents, pri) ==
  [q |-> [P.q EXCEPT ![pri[w]] = Append(@, [w |-> w, events |-> revents])],
   at |-> [P.at EXCEPT ![w] = Len(P.q[pri[w]]) + 1]]

(* ev_feed_event: a pending watcher only gets more events *)
FeedEvent(P, w, revents, pri) ==
  IF P.at[w] # 0
  THEN [q |-> [P.q EXCEPT ![pri[w]][P.at[w]].events = @ \cup revents], at |-> P.at]
  ELSE [q |-> [P.q EXCEPT ![pri[w]] = Append(@, [w |-> w, events |-> revents])],
        at |-> [P.at EXCEPT ![w] = Len(P.q[pri[w]]) + 1]]

(* An event for each of ws that is among chosen, one after the other *)
QueueChosen(P, ws, chosen, revents, pri) ==
  LET fed[n \in 0..Len(ws)] ==
        IF n = 0 THEN P
        ELSE IF ws[n] \in chosen THEN FeedEvent(fed[n - 1], ws[n], revents, pri)
        ELSE fed[n - 1]
  IN  fed[Len(ws)]

(* queue_events, and with the sequence reversed feed_reverse_done *)
QueueEvents(P, ws, revents, pri) == QueueChosen(P, ws, Watcher, revents, pri)

(* ev_invoke_pending takes the last entry of an array *)
Last(P, p) == P.q[p][Len(P.q[p])]
PoppedFrom(P, p) ==
  [q |-> [P.q EXCEPT ![p] = SubSeq(@, 1, Len(@) - 1)],
   at |-> IF Last(P, p).w = pending_w THEN P.at ELSE [P.at EXCEPT ![Last(P, p).w] = 0]]

(* and of the arrays that of the highest priority first *)
AnyPending(P) == \E p \in Pri : P.q[p] # <<>>
TopPri(P) == CHOOSE p \in Pri : P.q[p] # <<>> /\ \A o \in Pri : o > p => P.q[o] = <<>>
Next_(P) == Last(P, TopPri(P))
Popped(P) == PoppedFrom(P, TopPri(P))

(* verify_watcher: a pending watcher is where it says, and nowhere else *)
PendingVerified(P, pri) ==
  \A w \in Watcher, p \in Pri : \A i \in 1..Len(P.q[p]) :
    P.q[p][i].w = w <=> p = pri[w] /\ P.at[w] = i
=============================================================================
