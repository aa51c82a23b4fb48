------------------------------- MODULE EvStat -------------------------------
(***************************************************************************)
(* Stat watchers with inotify (net/libev-3.7/ev.c) on a local file system: *)
(* the path is looked at by lstat when its inotify watch reports something *)
(* or a timer expires; where libev trusts inotify there is no timer.       *)
(*                                                                         *)
(* All watchers watch one path, in a directory that stays.  Between any    *)
(* two system calls of libev other programs may change the path.  A watch  *)
(* belongs to a file and is shared by all who add it.  lstat, inotify and  *)
(* the file system are external.  A new inotify can always be had.         *)
(***************************************************************************)
EXTENDS Integers, Sequences, FiniteSets, Functions

CONSTANTS StatWatcher,
          MaxPathChanges,   \* bound of the model: changes of the path
          MaxQueued,    \* events inotify keeps before it reports an overflow
          MaxStarts     \* bound of the model: ev_stat_start and ev_loop_fork

ASSUME StatAssumption == IsFiniteSet(StatWatcher) /\ MaxQueued \in Nat

VARIABLES path,      \* the file: ino 0 if there is none, and its attributes
          inodes,    \* history: files made
          path_changes, \* history
          watch,     \* the watches of fs_fd: wd and what it is on
          queue,     \* events of fs_fd
          wds,       \* watches made, the source of new numbers
          st,        \* per watcher: active, attr, wd, timer, fed
          ops,       \* system calls of the running callback still to come
          since,     \* history: per watcher, the path when its watch was added
          blind,     \* history: watchers whose watch is for another path than
                     \* they know, or was ended by another and they are not told
          starts,
          heard,     \* fs_w is started for the number of fs_fd
          reading    \* infy_cb waits in the read of fs_fd

stat_vars == <<path, inodes, path_changes, watch, queue, wds, st, ops, since, blind, starts,
               heard, reading>>
files == <<path, inodes, path_changes>>
fs == <<heard, reading>>

Missing == [ino |-> 0, ver |-> 0]
Dir == 0    \* what the watch of the directory is on

StatInit ==
  /\ path = [ino |-> 1, ver |-> 0] /\ inodes = 1 /\ path_changes = 0
  /\ watch = {} /\ queue = <<>> /\ wds = 0
  /\ st = [w \in StatWatcher |->
             [active |-> FALSE, attr |-> Missing, wd |-> -2, timer |-> FALSE, fed |-> FALSE]]
  /\ ops = <<>> /\ starts = 0 /\ heard = TRUE /\ reading = FALSE
  /\ since = [w \in StatWatcher |-> Missing] /\ blind = {}

-----------------------------------------------------------------------------
(* inotify *)
Queued(q, e) ==
  IF q # <<>> /\ q[Len(q)] = e THEN q
  ELSE IF Len(q) < MaxQueued THEN Append(q, e)
  ELSE IF Len(q) = MaxQueued THEN Append(q, [wd |-> -1, mask |-> "IN_Q_OVERFLOW"]) ELSE q

Reports(q, on, mask) ==
  LET of == {x \in watch : x.on = on}
  IN  IF of = {} THEN q ELSE Queued(q, [wd |-> (CHOOSE x \in of : TRUE).wd, mask |-> mask])

\* file f is gone: its watch reports and ends
Ends(f) == watch' = {x \in watch : x.on # f}

(* Other programs.  A file that is moved away or replaced keeps its watch  *)
(* while it lives.                                                         *)
Changing == path_changes < MaxPathChanges /\ path_changes' = path_changes + 1
            /\ UNCHANGED <<wds, st, ops, since, blind, starts, fs>>

Write ==
  /\ Changing /\ path.ino # 0
  /\ path' = [path EXCEPT !.ver = @ + 1]
  /\ queue' = Reports(queue, path.ino, "IN_MODIFY")
  /\ UNCHANGED <<inodes, watch>>

Delete ==
  /\ Changing /\ path.ino # 0
  /\ path' = Missing
  /\ queue' = Reports(queue, path.ino, "IN_DELETE_SELF")
  /\ Ends(path.ino)
  /\ UNCHANGED inodes

MoveAway ==
  /\ Changing /\ path.ino # 0
  /\ path' = Missing
  /\ queue' = Reports(queue, path.ino, "IN_MOVE_SELF")
  /\ UNCHANGED <<inodes, watch>>

\* a new file, made at path or moved there over the old one
Create ==
  /\ Changing
  /\ path' = [ino |-> inodes + 1, ver |-> 0] /\ inodes' = inodes + 1
  /\ queue' = Reports(IF path.ino = 0 THEN queue ELSE Reports(queue, path.ino, "IN_DELETE_SELF"),
                      Dir, "IN_CREATE")
  /\ IF path.ino = 0 THEN UNCHANGED watch ELSE Ends(path.ino)

-----------------------------------------------------------------------------
(* inotify_add_watch on the path, or on the directory if that fails *)
\* A variant of infy_add that watches nothing when the path is missing.
AddPathOnly(k) ==
  IF path.ino = 0 THEN [k EXCEPT !.wd = -1, !.timer = FALSE]
  ELSE LET of == {x \in k.watch : x.on = path.ino}
       IN  IF of # {} THEN [k EXCEPT !.wd = (CHOOSE x \in of : TRUE).wd]
           ELSE [k EXCEPT !.wd = k.wds + 1, !.wds = @ + 1,
                          !.watch = @ \cup {[wd |-> k.wds + 1, on |-> path.ino]}]

\* infy_add: a timer too unless the path is there
Add(k) ==
  LET on == IF path.ino = 0 THEN Dir ELSE path.ino
      of == {x \in k.watch : x.on = on}
      timer == k.timer \/ path.ino = 0
  IN  IF of # {} THEN [k EXCEPT !.wd = (CHOOSE x \in of : TRUE).wd, !.timer = timer]
      ELSE [k EXCEPT !.wd = k.wds + 1, !.wds = @ + 1, !.timer = timer,
                     !.watch = @ \cup {[wd |-> k.wds + 1, on |-> on]}]

\* infy_del: inotify_rm_watch reports IN_IGNORED to all who share the watch
Del(k) ==
  LET of == {x \in k.watch : x.wd = k.wd}
  IN  [k EXCEPT !.watch = @ \ of, !.wd = -2,
                !.queue = IF of = {} THEN @ ELSE Queued(@, [wd |-> k.wd, mask |-> "IN_IGNORED"])]

\* the watchers that share the watch of w and will not hear of its end
Unheard(w) == IF Len(queue) < MaxQueued THEN {}
              ELSE {v \in StatWatcher \ {w} : st[v].wd = st[w].wd /\ st[v].wd >= 0}

Kernel(w) == [watch |-> watch, queue |-> queue, wds |-> wds, wd |-> st[w].wd, timer |-> st[w].timer]
Becomes(w, k) ==
  /\ watch' = k.watch /\ queue' = k.queue /\ wds' = k.wds
  /\ st' = [st EXCEPT ![w].wd = k.wd, ![w].timer = k.timer]

(* The system calls a callback makes, each a step *)
Call(op, w) == ops # <<>> /\ Head(ops) = <<op, w>>

Stat(w) ==
  /\ Call("stat", w) /\ ops' = Tail(ops)
  /\ st' = [st EXCEPT ![w].attr = path]
  /\ blind' = IF st[w].wd < 0 \/ path = since[w] THEN blind \ {w} ELSE blind \cup {w}
  /\ UNCHANGED <<files, watch, queue, wds, since, starts, fs>>

InfyAdd(w) ==
  /\ Call("add", w) /\ ops' = Tail(ops)
  /\ Becomes(w, Add(Kernel(w)))
  /\ since' = [since EXCEPT ![w] = path]
  /\ blind' = IF st[w].attr # path THEN blind \cup {w} ELSE blind \ {w}
  /\ UNCHANGED <<files, starts, fs>>

InfyDel(w) ==
  /\ Call("del", w) /\ ops' = Tail(ops)
  /\ Becomes(w, Del(Kernel(w)))
  /\ blind' = blind \cup Unheard(w)
  /\ UNCHANGED <<files, since, starts, fs>>

\* what stat_timer_cb does about a change
Rewatch(w) == <<<<"del", w>>, <<"add", w>>, <<"stat", w>>>>

\* stat_timer_cb
Check(w) ==
  /\ Call("check", w)
  /\ ops' = IF path = st[w].attr THEN Tail(ops) ELSE Rewatch(w) \o Tail(ops)
  /\ st' = [st EXCEPT ![w].attr = path, ![w].fed = (@ \/ path # st[w].attr)]
  /\ blind' = IF path # st[w].attr THEN blind \ {w} ELSE blind
  /\ UNCHANGED <<files, watch, queue, wds, since, starts, fs>>

-----------------------------------------------------------------------------
\* the loop is at no system call
LoopFree == ops = <<>> /\ ~reading

\* ev_stat_start
StatStart(w) ==
  /\ LoopFree /\ ~st[w].active /\ starts < MaxStarts /\ starts' = starts + 1
  /\ st' = [st EXCEPT ![w].active = TRUE]
  /\ ops' = <<<<"stat", w>>, <<"add", w>>>>
  /\ UNCHANGED <<files, watch, queue, wds, since, blind, fs>>

\* ev_stat_stop
StatStop(w) ==
  /\ LoopFree /\ st[w].active
  /\ LET k == IF st[w].wd < 0 THEN Kernel(w) ELSE Del(Kernel(w))
     IN  /\ watch' = k.watch /\ queue' = k.queue /\ UNCHANGED wds
         /\ st' = [st EXCEPT ![w] = [@ EXCEPT !.active = FALSE, !.wd = k.wd,
                                              !.timer = FALSE, !.fed = FALSE]]
  /\ blind' = blind \cup Unheard(w)
  /\ UNCHANGED <<files, ops, since, starts, fs>>

\* fs_hash lists watchers in an order that is of no account here
Walks(ws) == Bijection(1..Cardinality(ws), ws)
Each(op, of) == [i \in 1..Len(of) |-> <<op, of[i]>>]
AddAndCheck(of) == [i \in 1..2 * Len(of) |-> IF i % 2 = 1 THEN <<"add", of[(i + 1) \div 2]>>
                                             ELSE <<"check", of[i \div 2]>>]

\* fs_w is fed for another descriptor than fs_fd, or because its own is no
\* more (fd_kill): infy_cb then reads fs_fd, which has to wait for an event.
InfyCbUnasked ==
  /\ LoopFree /\ ~heard /\ reading' = TRUE
  /\ UNCHANGED <<files, watch, queue, wds, st, ops, since, blind, starts, heard>>

\* infy_cb reads an event; infy_wd goes through the watchers of wd
InfyCb ==
  /\ ops = <<>> /\ (heard \/ reading) /\ reading' = FALSE
  /\ queue # <<>> /\ queue' = Tail(queue)
  /\ LET e == Head(queue)
     IN  \E of \in Walks({w \in StatWatcher : st[w].wd >= 0 /\ e.wd \in {st[w].wd, -1}}) :
           ops' = IF e.mask \in {"IN_IGNORED", "IN_DELETE_SELF"} THEN AddAndCheck(of)
                  ELSE Each("check", of)
  /\ UNCHANGED <<files, watch, wds, st, since, blind, starts, heard>>

TimerCb(w) ==
  /\ LoopFree /\ st[w].timer
  /\ ops' = <<<<"check", w>>>>
  /\ UNCHANGED <<files, watch, queue, wds, st, since, blind, starts, fs>>

\* the callback of the watcher
Callback(w) ==
  /\ LoopFree /\ st[w].fed
  /\ st' = [st EXCEPT ![w].fed = FALSE]
  /\ UNCHANGED <<files, watch, queue, wds, ops, since, blind, starts, fs>>

\* infy_fork: a new inotify, every watcher is added again.  fs_w is left as it
\* is: it listens to the new one only if that has the number of the old, that
\* is, if no lower descriptor is free.
InfyFork ==
  /\ LoopFree /\ heard' \in BOOLEAN /\ UNCHANGED reading
  /\ starts < MaxStarts /\ starts' = starts + 1
  /\ watch' = {} /\ queue' = <<>>
  /\ \E of \in Walks({w \in StatWatcher : st[w].wd >= 0}) : ops' = Each("add", of)
  /\ UNCHANGED <<files, wds, st, since, blind>>

StatNext ==
  \/ Write \/ Delete \/ MoveAway \/ Create
  \/ \E w \in StatWatcher : \/ StatStart(w) \/ StatStop(w) \/ TimerCb(w) \/ Callback(w)
                        \/ Stat(w) \/ InfyAdd(w) \/ InfyDel(w) \/ Check(w)
  \/ InfyCb \/ InfyCbUnasked \/ InfyFork

StatSpec == StatInit /\ [][StatNext]_stat_vars

-----------------------------------------------------------------------------
Idle == ops = <<>> /\ queue = <<>>
Knows(w) == st[w].timer \/ st[w].attr = path

(* What inotify must not change about ev_stat: once libev has nothing to   *)
(* do, every watcher knows the path as it is, or a timer will look again.  *)
ChangesNoticed == Idle => \A w \in StatWatcher : st[w].active => Knows(w)

(* It holds however watches are shared and files come and go, unless the   *)
(* path changes between an lstat and the inotify watch meant for what it   *)
(* saw (ev_stat_start, the last lstat of stat_timer_cb, infy_fork), or an  *)
(* overflow swallows that another watcher ended the shared watch, and      *)
(* unless the inotify that infy_fork made is not the one fs_w listens to.  *)
ChangesNoticedUnlessBlind ==
  heard /\ Idle => \A w \in StatWatcher : st[w].active /\ w \notin blind => Knows(w)
=============================================================================
