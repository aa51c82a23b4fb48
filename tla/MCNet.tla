-------------------------------- MODULE MCNet --------------------------------
(***************************************************************************)
(* What is under net/, in one run: the port forwarding (Nat) and the parts *)
(* of libev.  A behaviour is one of theirs; machine says whose.            *)
(***************************************************************************)
EXTENDS Nat, EvAsync, EvStat, EvEvent, EvLoop, EvChild, EvTimers, EvEpoll, EvBackends

VARIABLE machine

net_vars == <<machine, vars, async_vars, stat_vars, event_vars, loop_vars, child_vars, timers_vars,
              epoll_vars, backend_vars>>

MCkind == [f |-> "fork", p |-> "prepare", c1 |-> "check", c2 |-> "check", i |-> "idle",
           o |-> "plain"]
MCpriority == [f |-> 0, p |-> 0, c1 |-> 1, c2 |-> 0, i |-> 0, o |-> 0]
MCpid == [w0 |-> 0, w1 |-> 1, w2 |-> 2]
MCtraced == [w0 |-> FALSE, w1 |-> TRUE, w2 |-> FALSE]

MCTimerPriority == [t1 |-> 0, t2 |-> 0, p |-> 0]
MCSkew == {0, -3}
MCIoPriority == [v |-> 0, w |-> 0]

(* Two watchers in one generation, or one through several.  One of them    *)
(* never asks for writing alone, which is much like reading alone          *)
TwoWatchers ==
  /\ LoopForked => \A fd \in Fd : anfds[fd].egen = 0
  /\ io'["w"].events # {"EV_WRITE"}
OneWatcher == ~io'["w"].active /\ io'["v"].events # {"EV_WRITE"}

(* Events with a descriptor or a signal, or of a timeout alone *)
InUse(e) == \E w \in {iosig(e), to(e)} : w \in active_w' \/ pending'.at[w] # 0
ListeningEvents == \A e \in timeouts : ~InUse(e)
TimeoutEvents == \A e \in Event \ timeouts : ~InUse(e)

(* Two timers, of which one repeats, or one with intervals to collect      *)
(* events in                                                               *)
TwoTimers == ~CollectInterval /\ timer_repeat'["t2"] = 0
OneTimer == timers'.active["t2"] = 0

ASSUME MachinesAssumption ==
  TimersAssumption /\ EpollAssumption /\ AsyncAssumption /\ BackendsAssumption

MCInit ==
  /\ machine \in {"nat", "async", "stat", "event", "timeouts", "loop", "child", "timers",
                 "intervals", "epoll", "generations", "backends"}
  /\ Init /\ AsyncInit /\ StatInit /\ EventInit /\ LoopInit /\ ChildInit
  /\ TimersInit /\ EpollInit /\ BackendInit
  /\ machine # "nat" => router = [p \in Port |-> Free]
  /\ machine # "async" => \A s \in Sender : item[s] \in Async
  /\ skew = 0
  /\ machine # "backends" => backend = "poll"

MCNext ==
  /\ UNCHANGED machine
  /\ \/ machine = "nat" /\ Next
     \/ machine # "nat" /\ UNCHANGED vars
  /\ \/ machine = "async" /\ AsyncNext
     \/ machine # "async" /\ UNCHANGED async_vars
  /\ \/ machine = "stat" /\ StatNext
     \/ machine # "stat" /\ UNCHANGED stat_vars
  /\ \/ machine = "event" /\ EventNext /\ ListeningEvents
     \/ machine = "timeouts" /\ EventNext /\ TimeoutEvents
     \/ machine \notin {"event", "timeouts"} /\ UNCHANGED event_vars
  /\ \/ machine = "loop" /\ LoopNext
     \/ machine # "loop" /\ UNCHANGED loop_vars
  /\ \/ machine = "child" /\ ChildNext
     \/ machine # "child" /\ UNCHANGED child_vars
  /\ \/ machine = "timers" /\ TimersNext /\ TwoTimers
     \/ machine = "intervals" /\ TimersNext /\ OneTimer
     \/ machine \notin {"timers", "intervals"} /\ UNCHANGED timers_vars
  /\ \/ machine = "epoll" /\ EpollNext /\ TwoWatchers
     \/ machine = "generations" /\ EpollNext /\ OneWatcher
     \/ machine \notin {"epoll", "generations"} /\ UNCHANGED epoll_vars
  /\ \/ machine = "backends" /\ BackendNext
     \/ machine # "backends" /\ UNCHANGED backend_vars

MCSpec == MCInit /\ [][MCNext]_net_vars

-----------------------------------------------------------------------------
(* ev_loop_verify: what it asserts of timers and pending events, of the    *)
(* lists of the descriptors, and of the arrays of the other watchers.      *)
LoopVerify == HeapsVerified /\ FdsVerified /\ LoopVerified

(* Whichever the backend, it waits for what the watchers want.             *)
BackendsKnow == KernelKnows /\ BackendKnows
=============================================================================
