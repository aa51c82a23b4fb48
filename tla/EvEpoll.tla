------------------------------- MODULE EvEpoll -------------------------------
(***************************************************************************)
(* File descriptors in libev: ev_io watchers, the lists of watchers per    *)
(* descriptor and the changes not yet made known (net/libev-3.7/ev.c),     *)
(* with the epoll backend (ev_epoll.c) and the kernel's epoll set.         *)
(*                                                                         *)
(* Callbacks start and stop watchers and open, close and reuse             *)
(* descriptors.  An epoll entry belongs to a descriptor number and the     *)
(* file it stood for, and lives until the file is closed everywhere, so    *)
(* events of a file may come under a number that stands for another.       *)
(* The kernel, open, dup and close are external.                           *)
(***************************************************************************)
EXTENDS Integers, Sequences, FiniteSets, SequencesExt

CONSTANTS Fd, File,     \* descriptor numbers, open files
          None,         \* a number that stands for no file
          IoWatcher, IoPri, io_priority, io_pending_w,
          MaxOpens,     \* bound of the model: files opened
          MaxGen        \* bound of the model: generations of a number

EV_RW == {"EV_READ", "EV_WRITE"}

(* What is asked of the constants *)
EpollAssumption ==
  /\ None \notin File /\ io_pending_w \notin IoWatcher
  /\ IsFiniteSet(Fd) /\ Fd # {}
  /\ IoPri \subseteq Nat /\ IsFiniteSet(IoPri) /\ io_priority \in [IoWatcher -> IoPri]

VARIABLES file,       \* the file each number stands for
          elsewhere,  \* files also open elsewhere (dup, another process)
          kernel,     \* the epoll set: entries [fd, file, mask, gen]
          anfds,      \* per number: head, events, reify, emask, egen
          fdchanges,
          io,         \* per watcher: fd, events, active
          io_pending, \* see EvPending
          epoll_postfork,
          epoll_events,  \* what epoll_wait returned and is not yet handled
          epoll_phase,   \* "run" callbacks, "reify", "poll"
          unset,      \* history: numbers reused and not told by ev_io_set
          returned,   \* history: numbers whose file came back to its old entry
          opened      \* history: files opened

epoll_vars == <<file, elsewhere, kernel, anfds, fdchanges, io, io_pending, epoll_postfork,
                epoll_events, epoll_phase, unset, returned, opened>>
world == <<file, elsewhere, unset, returned, opened>>

IP == INSTANCE EvPending WITH Watcher <- IoWatcher, Pri <- IoPri, pending_w <- io_pending_w

EpollInit ==
  /\ file = [fd \in Fd |-> None] /\ elsewhere = {}
  /\ kernel = {}
  /\ anfds = [fd \in Fd |-> [head |-> <<>>, events |-> {}, reify |-> {}, emask |-> {}, egen |-> 0]]
  /\ fdchanges = <<>>
  /\ io = [w \in IoWatcher |-> [fd |-> CHOOSE fd \in Fd : TRUE, events |-> {}, active |-> FALSE]]
  /\ io_pending = IP!NoneFed
  /\ epoll_postfork = FALSE
  /\ epoll_events = {}
  /\ epoll_phase = "run"
  /\ unset = {} /\ returned = {} /\ opened = {}

-----------------------------------------------------------------------------
(* What libev keeps, as one record s: a step may change it several times   *)
IoHere == [kernel |-> kernel, anfds |-> anfds, fdchanges |-> fdchanges, io |-> io,
         pending |-> io_pending]
IoBecomes(s) ==
  /\ kernel' = s.kernel /\ anfds' = s.anfds /\ fdchanges' = s.fdchanges
  /\ io' = s.io /\ io_pending' = s.pending

FdChange(s, fd, flags) ==
  [s EXCEPT !.anfds[fd].reify = @ \cup flags,
            !.fdchanges = IF s.anfds[fd].reify = {} THEN Append(@, fd) ELSE @]

\* A variant that takes the first watcher off the list, whichever stops.
IoStoppedFirst(s, w) ==
  LET t == [s EXCEPT !.pending = IP!ClearPending(@, w, io_priority)]
      fd == s.io[w].fd
  IN  IF ~s.io[w].active THEN t
      ELSE FdChange([t EXCEPT !.anfds[fd].head = Tail(@), !.io[w].active = FALSE],
                    fd, {"EV_ANFD_REIFY"})

\* wlist_del
Unlisted(list, w) ==
  LET i == CHOOSE i \in 1..Len(list) : list[i] = w
  IN  SubSeq(list, 1, i - 1) \o SubSeq(list, i + 1, Len(list))

\* ev_io_stop
IoStopped(s, w) ==
  LET t == [s EXCEPT !.pending = IP!ClearPending(@, w, io_priority)]
      fd == s.io[w].fd
  IN  IF ~s.io[w].active THEN t
      ELSE FdChange([t EXCEPT !.anfds[fd].head = Unlisted(@, w), !.io[w].active = FALSE],
                    fd, {"EV_ANFD_REIFY"})

\* fd_kill: each watcher of the list is stopped and told
KilledPending(Q, ws) ==
  LET killed[n \in 0..Len(ws)] ==
        IF n = 0 THEN Q
        ELSE IP!FeedEvent(IP!ClearPending(killed[n - 1], ws[n], io_priority), ws[n],
                          {"EV_ERROR", "EV_READ", "EV_WRITE"}, io_priority)
  IN  killed[Len(ws)]
Watching(s, fd) == {s.anfds[fd].head[i] : i \in 1..Len(s.anfds[fd].head)}
FdKilled(s, fd) ==
  IF s.anfds[fd].head = <<>> THEN s
  ELSE FdChange([s EXCEPT !.pending = KilledPending(@, s.anfds[fd].head),
                          !.io = [w \in IoWatcher |-> [s.io[w] EXCEPT
                                    !.active = @ /\ w \notin Watching(s, fd)]],
                          !.anfds[fd].head = <<>>], fd, {"EV_ANFD_REIFY"})

(* The kernel's side of epoll_ctl, for the file the number stands for      *)
Entry(s, fd) == {e \in s.kernel : e.fd = fd /\ e.file = file[fd]}
Error(s, fd, op) ==
  IF file[fd] = None THEN "EBADF"
  ELSE CASE op = "ADD" /\ Entry(s, fd) # {} -> "EEXIST"
         [] op # "ADD" /\ Entry(s, fd) = {} -> "ENOENT"
         [] OTHER -> "none"
Controlled(s, fd, mask, gen) ==
  [s EXCEPT !.kernel = (@ \ Entry(s, fd)) \cup
              (IF mask = {} THEN {} ELSE {[fd |-> fd, file |-> file[fd], mask |-> mask, gen |-> gen]})]

\* A variant that does not number the entries anew.
ModifyKeepsGen(s, fd, oev, nev) ==
  LET t == [s EXCEPT !.anfds[fd].emask = nev]
  IN  IF nev = {} THEN s
      ELSE IF Error(s, fd, "ADD") \in {"none", "EEXIST"}
        THEN Controlled(t, fd, nev, s.anfds[fd].egen) ELSE FdKilled(t, fd)

\* epoll_modify: a removal is ignored; the second try answers "the fd went
\* away" and "we ignored a previous DEL"
EpollModify(s, fd, oev, nev) ==
  LET oldmask == s.anfds[fd].emask
      t == [s EXCEPT !.anfds[fd].emask = nev]
      gen == s.anfds[fd].egen + 1
      done == Controlled([t EXCEPT !.anfds[fd].egen = gen], fd, nev, gen)
      first == Error(s, fd, IF oev # {} THEN "MOD" ELSE "ADD")
  IN  IF nev = {} THEN s
      ELSE CASE first \in {"none", "ENOENT"} -> done
             [] first = "EEXIST" -> IF oldmask = nev THEN t ELSE done
             [] OTHER -> FdKilled(t, fd)

\* fd_rearm_all
RearmAll(s) ==
  LET armed == {fd \in Fd : s.anfds[fd].events # {}}
  IN  [s EXCEPT !.anfds = [fd \in Fd |->
                             IF fd \notin armed THEN s.anfds[fd]
                             ELSE [s.anfds[fd] EXCEPT !.events = {}, !.emask = {},
                                     !.reify = @ \cup {"EV__IOFDSET", "EV_ANFD_REIFY"}]],
                !.fdchanges = @ \o SetToSeq({fd \in armed : s.anfds[fd].reify = {}})]

\* epoll_fork: a new epoll set
EpollForked(s) == RearmAll([s EXCEPT !.kernel = {}])

-----------------------------------------------------------------------------
(* The program: open, or dup2 of a file that is open; close, dup and the   *)
(* end of a dup.  dup2 may bring a file back to the number it had.         *)
Open(fd, f) ==
  /\ file[fd] = None
  /\ \/ f \notin opened /\ Cardinality(opened) < MaxOpens
     \/ f \in opened /\ (f \in elsewhere \/ \E gd \in Fd : file[gd] = f)
  /\ file' = [file EXCEPT ![fd] = f]
  /\ opened' = opened \cup {f}
  /\ unset' = unset \cup {fd}
  /\ returned' = IF \E e \in kernel : e.fd = fd /\ e.file = f THEN returned \cup {fd} ELSE returned
  /\ UNCHANGED <<elsewhere, kernel>>

Gone(f) == kernel' = {e \in kernel : e.file # f}

Close(fd) ==
  /\ file[fd] # None
  /\ file' = [file EXCEPT ![fd] = None]
  /\ IF file[fd] \in elsewhere \/ \E gd \in Fd \ {fd} : file[gd] = file[fd]
       THEN UNCHANGED kernel ELSE Gone(file[fd])
  /\ returned' = returned \ {fd}
  /\ UNCHANGED <<elsewhere, unset, opened>>

Dup(fd) ==
  /\ file[fd] # None
  /\ elsewhere' = elsewhere \cup {file[fd]}
  /\ UNCHANGED <<file, kernel, unset, returned, opened>>

CloseElsewhere(f) ==
  /\ f \in elsewhere
  /\ elsewhere' = elsewhere \ {f}
  /\ IF \E fd \in Fd : file[fd] = f THEN UNCHANGED kernel ELSE Gone(f)
  /\ UNCHANGED <<file, unset, returned, opened>>

Program ==
  /\ epoll_phase = "run"
  /\ \/ \E fd \in Fd : Close(fd) \/ Dup(fd) \/ \E f \in File : Open(fd, f)
     \/ \E f \in File : CloseElsewhere(f)
  /\ UNCHANGED <<anfds, fdchanges, io, io_pending, epoll_postfork, epoll_events, epoll_phase>>

(* ev_io_set, which raises EV__IOFDSET, and ev_io_start; or a stopped      *)
(* watcher is started again as it is                                       *)
IoStart(w) ==
  /\ epoll_phase = "run" /\ ~io[w].active
  /\ \/ \E fd \in Fd, ev \in (SUBSET EV_RW) \ {{}} :
          /\ IoBecomes(FdChange([IoHere EXCEPT !.io[w] = [fd |-> fd, events |-> ev, active |-> TRUE],
                                           !.anfds[fd].head = <<w>> \o @],
                              fd, {"EV__IOFDSET", "EV_ANFD_REIFY"}))
          /\ unset' = unset \ {fd}
     \/ /\ io[w].events # {}
        /\ IoBecomes(FdChange([IoHere EXCEPT !.io[w].active = TRUE,
                                         !.anfds[io[w].fd].head = <<w>> \o @],
                            io[w].fd, {"EV_ANFD_REIFY"}))
        /\ UNCHANGED unset
  /\ UNCHANGED <<file, elsewhere, returned, opened, epoll_postfork, epoll_events, epoll_phase>>

IoStop(w) ==
  /\ epoll_phase = "run"
  /\ IoBecomes(IoStopped(IoHere, w))
  /\ UNCHANGED <<world, epoll_postfork, epoll_events, epoll_phase>>

(* ev_invoke_pending calls the next callback *)
IoInvoke ==
  /\ epoll_phase = "run" /\ IP!AnyPending(io_pending)
  /\ io_pending' = IP!Popped(io_pending)
  /\ UNCHANGED <<world, kernel, anfds, fdchanges, io, epoll_postfork, epoll_events, epoll_phase>>

-----------------------------------------------------------------------------
(* ev_loop up to the poll: loop_fork if need be *)
LoopForked ==
  /\ epoll_phase = "run" /\ ~IP!AnyPending(io_pending)
  /\ \A fd \in Fd : anfds[fd].egen < MaxGen
  /\ IoBecomes(IF epoll_postfork THEN EpollForked(IoHere) ELSE IoHere)
  /\ returned' = IF epoll_postfork THEN {} ELSE returned
  /\ epoll_postfork' = FALSE
  /\ epoll_phase' = "reify"
  /\ UNCHANGED <<file, elsewhere, unset, opened, epoll_events>>

(* fd_reify, one turn of its loop; what fd_kill adds to fdchanges has its  *)
(* turn too                                                                *)
Wanted(s, fd) == UNION {s.io[s.anfds[fd].head[i]].events : i \in 1..Len(s.anfds[fd].head)}
Reified(s, fd) ==
  LET old == s.anfds[fd]
      new == Wanted(s, fd)
      t == [s EXCEPT !.anfds[fd].reify = {}, !.anfds[fd].events = new, !.fdchanges = Tail(@)]
  IN  IF old.events # new \/ "EV__IOFDSET" \in old.reify
        THEN EpollModify(t, fd, old.events, new) ELSE t
FdReify ==
  /\ epoll_phase = "reify" /\ fdchanges # <<>>
  /\ IoBecomes(Reified(IoHere, Head(fdchanges)))
  /\ UNCHANGED <<world, epoll_postfork, epoll_events, epoll_phase>>

(* epoll_wait: events of some entries; a hangup is reported unasked *)
EpollWait ==
  /\ epoll_phase = "reify" /\ fdchanges = <<>>
  /\ \E es \in {{}} \cup {{e} : e \in kernel} \cup {kernel} :
     \E got \in [es -> (SUBSET EV_RW) \ {{}}] :
       /\ \A e \in es : got[e] \subseteq e.mask \/ got[e] = EV_RW
       /\ epoll_events' = {[entry |-> e, got |-> got[e]] : e \in es}
  /\ epoll_phase' = "poll"
  /\ UNCHANGED <<world, kernel, anfds, fdchanges, io, io_pending, epoll_postfork>>

\* fd_event: nothing for a number that changed in the meantime
FdEventNc(s, fd, got) ==
  LET ws == s.anfds[fd].head
      fed[n \in 0..Len(ws)] ==
        IF n = 0 THEN s.pending
        ELSE IF s.io[ws[n]].events \cap got = {} THEN fed[n - 1]
        ELSE IP!FeedEvent(fed[n - 1], ws[n], s.io[ws[n]].events \cap got, io_priority)
  IN  [s EXCEPT !.pending = fed[Len(ws)]]
FdEvent(s, fd, got) == IF s.anfds[fd].reify # {} THEN s ELSE FdEventNc(s, fd, got)

(* epoll_poll, one event: an event of an older entry only tells that the   *)
(* epoll set must be made anew; an event nobody wants is taken out         *)
PollEvent(x) ==
  LET fd == x.entry.fd
      want == anfds[fd].events
      t == [IoHere EXCEPT !.anfds[fd].emask = want]
      failed == Error(t, fd, IF want # {} THEN "MOD" ELSE "DEL") # "none"
  IN  /\ epoll_phase = "poll" /\ x \in epoll_events
      /\ epoll_events' = epoll_events \ {x}
      /\ \/ /\ x.entry.gen # anfds[fd].egen
            /\ epoll_postfork' = TRUE /\ IoBecomes(IoHere)
         \/ /\ x.entry.gen = anfds[fd].egen /\ ~(x.got \subseteq want)
            /\ IF failed
                 THEN epoll_postfork' = TRUE /\ IoBecomes(t)
                 ELSE UNCHANGED epoll_postfork /\ IoBecomes(FdEvent(Controlled(t, fd, want, x.entry.gen), fd, x.got))
         \/ /\ x.entry.gen = anfds[fd].egen /\ x.got \subseteq want
            /\ UNCHANGED epoll_postfork /\ IoBecomes(FdEvent(IoHere, fd, x.got))
      /\ UNCHANGED <<world, epoll_phase>>

PollDone ==
  /\ epoll_phase = "poll" /\ epoll_events = {}
  /\ epoll_phase' = "run"
  /\ UNCHANGED <<world, kernel, anfds, fdchanges, io, io_pending, epoll_postfork, epoll_events>>

EpollNext ==
  \/ Program
  \/ \E w \in IoWatcher : IoStart(w) \/ IoStop(w)
  \/ IoInvoke
  \/ LoopForked \/ FdReify
  \/ EpollWait
  \/ \E x \in epoll_events : PollEvent(x)
  \/ PollDone

EpollSpec == EpollInit /\ [][EpollNext]_epoll_vars

-----------------------------------------------------------------------------
(* What ev_loop_verify asserts of descriptors, and that a number waits in  *)
(* fdchanges exactly once if anything about it changed.                    *)
FdsVerified ==
  /\ \A fd \in Fd :
       /\ \A i \in 1..Len(anfds[fd].head) :
            io[anfds[fd].head[i]].active /\ io[anfds[fd].head[i]].fd = fd
       /\ Cardinality({i \in 1..Len(fdchanges) : fdchanges[i] = fd})
            = IF anfds[fd].reify = {} THEN 0 ELSE 1
  /\ IP!PendingVerified(io_pending, io_priority)

(* Before the loop sleeps, the kernel watches every open file for what its *)
(* watchers want, under the current generation: no event will be missed.   *)
(* The program's part is to call ev_io_set when a number has a new file,   *)
(* and to bring no file back (dup2) to a number under which the epoll set  *)
(* has it: such an entry may be taken for one that asks for the same.      *)
KernelKnows ==
  epoll_phase = "reify" /\ fdchanges = <<>> => \A fd \in Fd :
    Wanted(IoHere, fd) # {} /\ file[fd] # None /\ fd \notin unset \cup returned =>
      \E e \in Entry(IoHere, fd) : Wanted(IoHere, fd) \subseteq e.mask /\ e.gen = anfds[fd].egen

(* No watcher is told of an event of a file its number no longer stands    *)
(* for, though the kernel goes on reporting a file that is open elsewhere; *)
(* but where a file was brought back, another's generation may be current. *)
EventStep ==
  \A x \in epoll_events :
    x \notin epoll_events' /\ io_pending' # io_pending /\ x.entry.fd \notin unset \cup returned
      => file[x.entry.fd] \in {None, x.entry.file}
NoStaleEvent == [][EventStep]_epoll_vars
=============================================================================
