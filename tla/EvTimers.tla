------------------------------- MODULE EvTimers -------------------------------
(***************************************************************************)
(* The clocks and timers of libev's loop (net/libev-3.7/ev.c): relative    *)
(* timers on the monotonic clock, periodics on the wall clock, which may   *)
(* jump, and the part of ev_loop that sleeps, reads the clocks and makes   *)
(* what is due pending.  Callbacks start, stop and restart any watcher and *)
(* set the intervals in which events are collected.  Times are integers;   *)
(* TIME_EPSILON is less than their unit.                                   *)
(***************************************************************************)
EXTENDS Integers, Sequences, SequencesExt, FiniteSets

CONSTANTS Timer, Periodic, TimerPri, timer_priority,
          timer_pending_w,
          DHEAP,          \* children in a heap: 4, or 2 if built small
          MIN_TIMEJUMP,   \* in units
          MAX_BLOCKTIME,
          backend_fudge,  \* what a poll may return too early: 0 but for ports
          Blocktime,      \* bound of the model: the collect intervals
          Delay, Interval,\* bounds of the model: arguments of the watchers
          Skew,           \* wall clock minus monotonic clock
          MaxClock        \* bound of the model: the clock's last value

TimeWatcher == Timer \cup Periodic

(* What is asked of the constants *)
TimersAssumption ==
  /\ Timer \cap Periodic = {} /\ timer_pending_w \notin TimeWatcher
  /\ timer_priority \in [TimeWatcher -> TimerPri]
  /\ TimerPri \subseteq Nat /\ IsFiniteSet(TimerPri)
  /\ Delay \subseteq Nat /\ Interval \subseteq Nat /\ DHEAP \in {2, 4}
  /\ Skew \subseteq Int /\ MAX_BLOCKTIME \in Nat /\ MaxClock \in Nat
  /\ MIN_TIMEJUMP \in Nat \ {0} /\ backend_fudge \in Nat /\ Blocktime \subseteq Nat
  /\ IsFiniteSet(Timer) /\ IsFiniteSet(Periodic)

VARIABLES clock, skew,        \* what get_clock and ev_time measure
          mn_now, ev_rt_now, now_floor, rtmn_diff,
          timers, periodics,  \* heaps
          due_at,             \* w->at of an active watcher, else 0
          timer_repeat,       \* of a timer; of a periodic its interval
          offset,             \* of a periodic
          timers_pending,     \* see EvPending
          io_blocktime, timeout_blocktime,
          waittime, sleeptime,\* what the backend is told to wait, and slept before
          timers_phase        \* "run" callbacks, or in the "poll"

timers_vars == <<clock, skew, mn_now, ev_rt_now, now_floor, rtmn_diff, timers, periodics, due_at,
                 timer_repeat, offset, timers_pending, io_blocktime, timeout_blocktime,
                 waittime, sleeptime, timers_phase>>
clocks == <<clock, skew, mn_now, ev_rt_now, now_floor, rtmn_diff>>
blocktimes == <<io_blocktime, timeout_blocktime>>
waits == <<waittime, sleeptime>>

TP == INSTANCE EvPending WITH Watcher <- TimeWatcher, Pri <- TimerPri,
                             pending_w <- timer_pending_w

-----------------------------------------------------------------------------
(* The heaps: upheap, downheap, adjustheap and reheap, for both branching   *)
(* factors.  A heap is a record: ent, the array from HEAP0 on, whose        *)
(* entries hold a watcher and a copy of its time (ANHE), and active, which  *)
(* gives every watcher its place in the array, 0 if it has none.            *)
HPARENT(k) == ((k - 2) \div DHEAP) + 1
Children(h, k) == (DHEAP * (k - 1) + 2) .. (DHEAP * k + 1) \cap DOMAIN h.ent

\* An entry is moved into place k, and its watcher told so.
Put(h, k, he) == [ent |-> [h.ent EXCEPT ![k] = he],
                  active |-> [h.active EXCEPT ![he.w] = k]]

(* The hole at k moves towards the root until he fits in *)
UpHole(h0, k0, he) ==
  LET hole[n \in 0..k0] ==
        IF n = 0 THEN [h |-> h0, k |-> k0]
        ELSE LET h == hole[n - 1].h
                 k == hole[n - 1].k
             IN  IF k = 1 \/ h.ent[HPARENT(k)].at <= he.at THEN hole[n - 1]
                 ELSE [h |-> Put(h, k, h.ent[HPARENT(k)]), k |-> HPARENT(k)]
  IN  Put(hole[k0].h, hole[k0].k, he)

upheap(h, k) == UpHole(h, k, h.ent[k])

(* The child with the least time, the first of several *)
MinChild(h, k) ==
  CHOOSE c \in Children(h, k) : \A d \in Children(h, k) :
    h.ent[c].at < h.ent[d].at \/ (h.ent[c].at = h.ent[d].at /\ c <= d)

(* The hole at k moves away from the root *)
DownHole(h0, k0, he) ==
  LET hole[n \in 0..Len(h0.ent)] ==
        IF n = 0 THEN [h |-> h0, k |-> k0]
        ELSE LET h == hole[n - 1].h
                 k == hole[n - 1].k
             IN  IF Children(h, k) = {} \/ he.at <= h.ent[MinChild(h, k)].at THEN hole[n - 1]
                 ELSE [h |-> Put(h, k, h.ent[MinChild(h, k)]), k |-> MinChild(h, k)]
  IN  Put(hole[Len(h0.ent)].h, hole[Len(h0.ent)].k, he)

downheap(h, k) == DownHole(h, k, h.ent[k])

\* A variant that only ever moves an element down.
AdjustDownOnly(h, k) == downheap(h, k)

adjustheap(h, k) ==
  IF k > 1 /\ h.ent[HPARENT(k)].at >= h.ent[k].at THEN upheap(h, k) ELSE downheap(h, k)

(* reheap: upheap for every element from the root on *)
reheap(h) ==
  LET heaped[n \in 0..Len(h.ent)] == IF n = 0 THEN h ELSE upheap(heaped[n - 1], n)
  IN  heaped[Len(h.ent)]

(* What ev_timer_start and ev_periodic_start do to the heap *)
HeapInsert(h, w, t) == upheap([h EXCEPT !.ent = Append(@, [w |-> w, at |-> t])], Len(h.ent) + 1)

(* What ev_timer_stop and ev_periodic_stop do: the last entry fills the    *)
(* place, and ev_stop forgets the place of w                               *)
HeapDelete(h, w) ==
  LET k == h.active[w]
      n == Len(h.ent)
      short == [h EXCEPT !.ent = SubSeq(@, 1, n - 1)]
      rest == IF k < n THEN adjustheap([short EXCEPT !.ent[k] = h.ent[n]], k) ELSE short
  IN  [rest EXCEPT !.active[w] = 0]

(* verify_heap: the places are right, no child is before its parent, and   *)
(* the copies of the times agree with the watchers' own                    *)
HeapVerified(h, times) ==
  /\ \A i \in DOMAIN h.ent :
       /\ h.active[h.ent[i].w] = i
       /\ i > 1 => h.ent[HPARENT(i)].at <= h.ent[i].at
       /\ h.ent[i].at = times[h.ent[i].w]
  /\ \A w \in DOMAIN h.active : h.active[w] # 0 => h.ent[h.active[w]].w = w

-----------------------------------------------------------------------------

EmptyHeap(W) == [ent |-> <<>>, active |-> [w \in W |-> 0]]
IsActive(w) == IF w \in Timer THEN timers.active[w] # 0 ELSE periodics.active[w] # 0

(* loop_init *)
TimersInit ==
  /\ clock = 0 /\ skew \in Skew
  /\ mn_now = clock /\ now_floor = clock
  /\ ev_rt_now = clock + skew /\ rtmn_diff = skew
  /\ timers = EmptyHeap(Timer) /\ periodics = EmptyHeap(Periodic)
  /\ due_at = [w \in TimeWatcher |-> 0]
  /\ timer_repeat = [w \in TimeWatcher |-> 0] /\ offset = [w \in Periodic |-> 0]
  /\ timers_pending = TP!NoneFed
  /\ io_blocktime = 0 /\ timeout_blocktime = 0
  /\ waittime = 0 /\ sleeptime = 0
  /\ timers_phase = "run"

-----------------------------------------------------------------------------
(* Watchers.  What stop leaves in w->at, the time remaining, is not kept:  *)
(* here every start sets the time.                                         *)
StartTimer(w, t) ==
  /\ due_at' = [due_at EXCEPT ![w] = t]
  /\ timers' = HeapInsert(timers, w, t)

\* ev_timer_set and ev_timer_start
TimerStart(w) ==
  /\ ~IsActive(w)
  /\ \E d \in Delay, r \in Interval :
       StartTimer(w, mn_now + d) /\ timer_repeat' = [timer_repeat EXCEPT ![w] = r]
  /\ UNCHANGED <<periodics, offset, timers_pending>>

TimerStop(w) ==
  /\ timers_pending' = TP!ClearPending(timers_pending, w, timer_priority)
  /\ IF IsActive(w)
       THEN /\ timers' = HeapDelete(timers, w)
            /\ due_at' = [due_at EXCEPT ![w] = 0]
       ELSE UNCHANGED <<timers, due_at>>
  /\ UNCHANGED <<periodics, timer_repeat, offset>>

\* A variant that sets the time anew but not its copy in the heap.
TimerAgainNoCache(w) ==
  /\ IF IsActive(w) /\ timer_repeat[w] # 0
       THEN /\ due_at' = [due_at EXCEPT ![w] = mn_now + timer_repeat[w]]
            /\ timers' = adjustheap(timers, timers.active[w])
       ELSE UNCHANGED <<due_at, timers>>
  /\ UNCHANGED <<periodics, timer_repeat, offset, timers_pending>>

\* ev_timer_again
TimerAgain(w) ==
  \/ /\ IsActive(w) /\ timer_repeat[w] # 0
     /\ due_at' = [due_at EXCEPT ![w] = mn_now + timer_repeat[w]]
     /\ timers' = adjustheap([timers EXCEPT !.ent[timers.active[w]].at = due_at'[w]],
                             timers.active[w])
     /\ UNCHANGED <<periodics, timer_repeat, offset, timers_pending>>
  \/ IsActive(w) /\ timer_repeat[w] = 0 /\ TimerStop(w)
  \/ /\ ~IsActive(w) /\ timer_repeat[w] # 0
     /\ StartTimer(w, mn_now + timer_repeat[w])
     /\ UNCHANGED <<periodics, timer_repeat, offset, timers_pending>>

\* The next multiple of the interval, from t on
Ceil(a, b) == -((-a) \div b)
NextAt(off, ival, t) == off + Ceil(t - off, ival) * ival

StartAt(off, ival) == IF ival # 0 THEN NextAt(off, ival, ev_rt_now) ELSE off

\* ev_periodic_set and ev_periodic_start; intervals are counted from 0
PeriodicStart(w) ==
  /\ ~IsActive(w)
  /\ \E o \in Delay, i \in Interval :
       /\ i # 0 => o = 0
       /\ due_at' = [due_at EXCEPT ![w] = StartAt(o, i)]
       /\ periodics' = HeapInsert(periodics, w, StartAt(o, i))
       /\ timer_repeat' = [timer_repeat EXCEPT ![w] = i]
       /\ offset' = [offset EXCEPT ![w] = o]
  /\ UNCHANGED <<timers, timers_pending>>

PeriodicStop(w) ==
  /\ timers_pending' = TP!ClearPending(timers_pending, w, timer_priority)
  /\ periodics' = IF IsActive(w) THEN HeapDelete(periodics, w) ELSE periodics
  /\ due_at' = [due_at EXCEPT ![w] = 0]
  /\ UNCHANGED <<timers, timer_repeat, offset>>

\* ev_periodic_again: stop and start
PeriodicAgain(w) ==
  LET rest == IF IsActive(w) THEN HeapDelete(periodics, w) ELSE periodics
      t == StartAt(offset[w], timer_repeat[w])
  IN  /\ timers_pending' = TP!ClearPending(timers_pending, w, timer_priority)
      /\ due_at' = [due_at EXCEPT ![w] = t]
      /\ periodics' = HeapInsert(rest, w, t)
      /\ UNCHANGED <<timers, timer_repeat, offset>>

(* A callback, or the program before the loop, uses a watcher *)
TimersUse ==
  /\ timers_phase = "run"
  /\ \/ \E w \in Timer : TimerStart(w) \/ TimerStop(w) \/ TimerAgain(w)
     \/ \E w \in Periodic : PeriodicStart(w) \/ PeriodicStop(w) \/ PeriodicAgain(w)
  /\ UNCHANGED <<clocks, blocktimes, waits, timers_phase>>

(* ev_set_io_collect_interval and ev_set_timeout_collect_interval *)
CollectInterval ==
  /\ timers_phase = "run"
  /\ \/ io_blocktime' \in Blocktime /\ UNCHANGED timeout_blocktime
     \/ timeout_blocktime' \in Blocktime /\ UNCHANGED io_blocktime
  /\ UNCHANGED <<clocks, timers, periodics, due_at, timer_repeat, offset, timers_pending,
                 waits, timers_phase>>

(* ev_invoke_pending calls the next callback *)
TimersInvoke ==
  /\ timers_phase = "run" /\ TP!AnyPending(timers_pending)
  /\ timers_pending' = TP!Popped(timers_pending)
  /\ UNCHANGED <<clocks, timers, periodics, due_at, timer_repeat, offset, blocktimes, waits,
                 timers_phase>>

-----------------------------------------------------------------------------
(* time_update with a monotonic clock (the only branch modelled): the wall *)
(* clock is read now and then and reckoned in between; a jump is noticed   *)
(* when it is read                                                         *)
ReadsWall == clock' - now_floor >= MIN_TIMEJUMP \div 2
Abs(x) == IF x < 0 THEN -x ELSE x
Jumped == ReadsWall /\ Abs(rtmn_diff - skew') >= MIN_TIMEJUMP
TimeUpdate ==
  /\ mn_now' = clock'
  /\ now_floor' = IF ReadsWall THEN clock' ELSE now_floor
  /\ rtmn_diff' = IF ReadsWall THEN skew' ELSE rtmn_diff
  /\ ev_rt_now' = clock' + rtmn_diff'

(* The clocks go on; the wall clock may be set (while the loop waits)      *)
ClockMoves == clock' \in clock..MaxClock
ClocksMove == ClockMoves /\ skew' \in Skew

(* periodics_reschedule, if time_update found a jump: state s as below *)
Copies(h, a) ==
  [h EXCEPT !.ent = [i \in DOMAIN h.ent |-> [h.ent[i] EXCEPT !.at = a[h.ent[i].w]]]]

Rescheduled(s) ==
  LET t == [w \in TimeWatcher |->
              IF w \in Periodic /\ s.periodics.active[w] # 0 /\ timer_repeat[w] # 0
                THEN NextAt(offset[w], timer_repeat[w], ev_rt_now') ELSE s.at[w]]
  IN  [s EXCEPT !.at = t, !.periodics = reheap(Copies(s.periodics, t))]

TimersHere == [timers |-> timers, periodics |-> periodics, at |-> due_at,
               pending |-> timers_pending, rfeeds |-> <<>>]
Updated == IF Jumped THEN Rescheduled(TimersHere) ELSE TimersHere

(* The loop before it polls: the clocks, then the time to wait, from the   *)
(* roots of the heaps, though not less than timeout_blocktime; what is     *)
(* left of io_blocktime it sleeps before it polls                          *)
Least(S) == CHOOSE x \in S : \A y \in S : x <= y
ToWait ==
  LET due == {timers.ent[i].at - mn_now' + backend_fudge : i \in DOMAIN timers.ent \cap {1}}
               \cup {periodics'.ent[i].at - ev_rt_now' + backend_fudge :
                       i \in DOMAIN periodics'.ent \cap {1}}
      least == Least(due \cup {MAX_BLOCKTIME})
  IN  IF least < timeout_blocktime THEN timeout_blocktime ELSE least

ToSleep(wait) ==
  LET left == io_blocktime - (mn_now' - mn_now)
      time == IF left > wait - backend_fudge THEN wait - backend_fudge ELSE left
  IN  IF io_blocktime # 0 /\ time > 0 THEN time ELSE 0

WaitsFirst ==
  /\ ClockMoves /\ UNCHANGED skew /\ TimeUpdate
  /\ \E s \in {Updated} : periodics' = s.periodics /\ due_at' = s.at
  /\ \E wait \in {ToWait} :
       sleeptime' = ToSleep(wait) /\ waittime' = wait - sleeptime'

\* With EVLOOP_NONBLOCK, an idle watcher, or no watcher: clocks are not read
WaitsNot ==
  /\ waittime' = 0 /\ sleeptime' = 0
  /\ UNCHANGED <<clocks, periodics, due_at>>

TimersSleep ==
  /\ timers_phase = "run" /\ ~TP!AnyPending(timers_pending)
  /\ WaitsFirst \/ WaitsNot
  /\ timers_phase' = "poll"
  /\ UNCHANGED <<timers, timer_repeat, offset, timers_pending, blocktimes>>

(* timers_reify: what is due is set anew or stopped *)
TimerDue(s) ==
  LET w == s.timers.ent[1].w
      next == s.at[w] + timer_repeat[w]
      t == IF next < mn_now' THEN mn_now' ELSE next
  IN  IF s.timers.ent = <<>> \/ s.timers.ent[1].at >= mn_now' THEN s
      ELSE IF timer_repeat[w] # 0
        THEN [s EXCEPT !.at[w] = t, !.rfeeds = Append(@, w),
                       !.timers = downheap([s.timers EXCEPT !.ent[1].at = t], 1)]
      ELSE [s EXCEPT !.at[w] = 0, !.rfeeds = Append(@, w), !.timers = HeapDelete(s.timers, w),
                     !.pending = TP!ClearPending(@, w, timer_priority)]
TimersDue(s) ==
  LET due[n \in 0..Len(s.timers.ent)] == IF n = 0 THEN s ELSE TimerDue(due[n - 1])
  IN  due[Len(s.timers.ent)]

(* periodics_reify, the same on the wall clock *)
PeriodicDue(s) ==
  LET w == s.periodics.ent[1].w
      up == NextAt(offset[w], timer_repeat[w], ev_rt_now')
      t == IF up = ev_rt_now' THEN up + timer_repeat[w] ELSE up
  IN  IF s.periodics.ent = <<>> \/ s.periodics.ent[1].at >= ev_rt_now' THEN s
      ELSE IF timer_repeat[w] # 0
        THEN [s EXCEPT !.at[w] = t, !.rfeeds = Append(@, w),
                       !.periodics = downheap([s.periodics EXCEPT !.ent[1].at = t], 1)]
      ELSE [s EXCEPT !.at[w] = 0, !.rfeeds = Append(@, w), !.periodics = HeapDelete(s.periodics, w),
                     !.pending = TP!ClearPending(@, w, timer_priority)]
PeriodicsDue(s) ==
  LET due[n \in 0..Len(s.periodics.ent)] == IF n = 0 THEN s ELSE PeriodicDue(due[n - 1])
  IN  due[Len(s.periodics.ent)]

\* A variant that feeds in the order in which the timers were due.
FedInOrder(s, revents) ==
  [s EXCEPT !.pending = TP!QueueEvents(@, s.rfeeds, revents, timer_priority),
            !.rfeeds = <<>>]

(* feed_reverse_done *)
FedReversed(s, revents) ==
  [s EXCEPT !.pending = TP!QueueEvents(@, Reverse(s.rfeeds), revents, timer_priority),
            !.rfeeds = <<>>]

(* The poll returns, on time, late, or early for an event of another kind; *)
(* the clocks are read, and timers and periodics are looked at             *)
Wake ==
  /\ timers_phase = "poll"
  /\ ClocksMove /\ TimeUpdate
  /\ \E s0 \in {Updated} :
     \E s1 \in {TimersDue(s0)} :
     \E s2 \in {FedReversed(s1, {"EV_TIMEOUT"})} :
     \E s3 \in {PeriodicsDue(s2)} :
     \E s \in {FedReversed(s3, {"EV_PERIODIC"})} :
         /\ timers' = s.timers /\ periodics' = s.periodics
         /\ due_at' = s.at /\ timers_pending' = s.pending
  /\ timers_phase' = "run" /\ waittime' = 0 /\ sleeptime' = 0
  /\ UNCHANGED <<timer_repeat, offset, blocktimes>>

(* ev_suspend, time passes, and ev_resume: relative timers are put off by  *)
(* the time in between, periodics are calculated anew                      *)
Resume ==
  /\ timers_phase = "run"
  /\ ClocksMove /\ TimeUpdate
  /\ LET put_off == [w \in TimeWatcher |->
                       due_at[w] + IF w \in Timer /\ IsActive(w) THEN clock' - mn_now ELSE 0]
         s == Rescheduled([TimersHere EXCEPT !.at = put_off, !.timers = Copies(timers, put_off)])
     IN  timers' = s.timers /\ periodics' = s.periodics /\ due_at' = s.at
  /\ UNCHANGED <<timer_repeat, offset, timers_pending, blocktimes, waits, timers_phase>>

TimersNext == TimersUse \/ CollectInterval \/ TimersInvoke \/ TimersSleep \/ Wake \/ Resume

TimersSpec == TimersInit /\ [][TimersNext]_timers_vars

-----------------------------------------------------------------------------
(* The heaps and the pending events are what ev_loop_verify asserts,       *)
(* whatever the callbacks do with the watchers and the clocks with time.   *)
HeapsVerified ==
  /\ HeapVerified(timers, due_at) /\ HeapVerified(periodics, due_at)
  /\ TP!PendingVerified(timers_pending, timer_priority)

(* The loop never sleeps and has the backend wait beyond the first timer   *)
(* or periodic, wherever that is in its heap, and the backend's fudge:     *)
(* unless timeout_blocktime is longer, and then no longer than that.  Nor  *)
(* is a backend given a negative time, which is for ever.                  *)
NeverOversleeps ==
  timers_phase = "poll" =>
    /\ waittime >= 0
    /\ \A w \in TimeWatcher : IsActive(w) =>
         \/ sleeptime + waittime <= timeout_blocktime
         \/ sleeptime + waittime <=
              backend_fudge + due_at[w] - IF w \in Timer THEN mn_now ELSE ev_rt_now

(* When the poll has returned, exactly the watchers that are due are       *)
(* pending, each once; of the same priority a timer due earlier is called  *)
(* earlier, and periodics before timers ("absolute timers called first").  *)
DueStep ==
  timers_phase = "poll" /\ timers_phase' = "run" =>
    \A s \in {Updated} :
      LET Due(w) == IsActive(w) /\ s.at[w] < IF w \in Timer THEN mn_now' ELSE ev_rt_now'
          Before(v, w) == timers_pending'.at[v] > timers_pending'.at[w]
      IN  /\ \A w \in TimeWatcher : Due(w) <=> timers_pending'.at[w] # 0
          /\ \A v, w \in TimeWatcher : Due(v) /\ Due(w) /\ timer_priority[v] = timer_priority[w] =>
               /\ v \in Periodic /\ w \in Timer => Before(v, w)
               /\ (v \in Timer <=> w \in Timer) /\ s.at[v] < s.at[w] => Before(v, w)
DueInOrder == [][DueStep]_timers_vars
=============================================================================
