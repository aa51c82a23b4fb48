----------------------------- MODULE EvBackends -----------------------------
(***************************************************************************)
(* The other backends of libev behind the two functions backend_modify and *)
(* backend_poll: ev_poll.c, ev_select.c, ev_kqueue.c and ev_port.c, with   *)
(* fd_reify and fd_kill of ev.c as in EvEpoll, seen through the events all *)
(* watchers of a descriptor want together.                                 *)
(*                                                                         *)
(* poll and select are given the descriptors on every call; kqueue and     *)
(* port keep them in the kernel, which forgets a descriptor that is closed *)
(* (and port one that was reported).  The kernels are external.            *)
(***************************************************************************)
EXTENDS Integers, Sequences, SequencesExt, FiniteSets

CONSTANTS Backend,     \* those to look at
          BackendFd,
          NFDBITS,     \* descriptors in a word of select's sets
          MaxBackendChanges   \* bound of the model: what the program does

RW == {"EV_READ", "EV_WRITE"}
(* What is asked of the constants *)
BackendsAssumption ==
  /\ Backend \subseteq {"poll", "select", "kqueue", "port"}
  /\ BackendFd \subseteq Nat /\ IsFiniteSet(BackendFd) /\ NFDBITS \in Nat \ {0}

VARIABLES backend,
          open_fds,
          want,        \* what the watchers of each descriptor want
          events,      \* anfds[fd].events
          changed,     \* fdchanges, and whether EV__IOFDSET is set
          polls, pollidxs,
          vec_ri, vec_wi, vec_max,
          kqueue_changes,
          kernel_has,  \* kqueue: the filters of each; port: the same, associated
          backend_phase,
          not_told,    \* history: reopened and not told by ev_io_set
          backend_changes

be == <<polls, pollidxs, vec_ri, vec_wi, vec_max, kqueue_changes, kernel_has>>
backend_vars == <<backend, open_fds, want, events, changed, be, backend_phase, not_told,
                  backend_changes>>

BackendInit ==
  /\ backend \in Backend
  /\ open_fds = BackendFd /\ not_told = {} /\ backend_changes = 0 /\ backend_phase = "run"
  /\ want = [fd \in BackendFd |-> {}] /\ events = [fd \in BackendFd |-> {}] /\ changed = <<>>
  /\ polls = <<>> /\ pollidxs = [fd \in BackendFd |-> -1]
  /\ vec_ri = {} /\ vec_wi = {} /\ vec_max = 0
  /\ kqueue_changes = <<>> /\ kernel_has = [fd \in BackendFd |-> {}]

-----------------------------------------------------------------------------
(* backend_modify, on a record b of be *)
Backed == [polls |-> polls, pollidxs |-> pollidxs, ri |-> vec_ri, wi |-> vec_wi, max |-> vec_max,
         kq |-> kqueue_changes, kernel |-> kernel_has, killed |-> {}]

\* A variant that does not tell the descriptor that moved its new place.
PollRemoveOnly(b, fd, oev, nev) ==
  LET new == b.pollidxs[fd] < 0
      idx == IF new THEN Len(b.polls) ELSE b.pollidxs[fd]
      ps == IF new THEN Append(b.polls, [fd |-> fd, events |-> {}]) ELSE b.polls
  IN  IF oev = nev THEN b
      ELSE IF nev # {} THEN [b EXCEPT !.polls = [ps EXCEPT ![idx + 1].events = nev],
                                      !.pollidxs[fd] = idx]
      ELSE [b EXCEPT !.polls = Front([ps EXCEPT ![idx + 1] = Last(ps)]), !.pollidxs[fd] = -1]

\* poll_modify: the last of polls takes the place of the one removed
PollModify(b, fd, oev, nev) ==
  LET new == b.pollidxs[fd] < 0
      idx == IF new THEN Len(b.polls) ELSE b.pollidxs[fd]
      ps == IF new THEN Append(b.polls, [fd |-> fd, events |-> {}]) ELSE b.polls
      last == Last(ps)
  IN  IF oev = nev THEN b
      ELSE IF nev # {} THEN [b EXCEPT !.polls = [ps EXCEPT ![idx + 1].events = nev],
                                      !.pollidxs[fd] = idx]
      ELSE [b EXCEPT !.polls = Front([ps EXCEPT ![idx + 1] = last]),
                     !.pollidxs = IF last.fd = fd THEN [@ EXCEPT ![fd] = -1]
                                  ELSE [@ EXCEPT ![fd] = -1, ![last.fd] = idx]]

\* select_modify: the sets grow by words, which are cleared
SelectModify(b, fd, oev, nev) ==
  LET word == fd \div NFDBITS
      Old(S) == {x \in S : x \div NFDBITS < b.max}
      Put(S, ev) == IF ev \in nev THEN Old(S) \cup {fd} ELSE Old(S) \ {fd}
  IN  IF oev = nev THEN b
      ELSE [b EXCEPT !.max = IF @ <= word THEN word + 1 ELSE @,
                     !.ri = Put(@, "EV_READ"), !.wi = Put(@, "EV_WRITE")]

\* kqueue_modify: deleted if they change, and added in any case
Filters(fd, op, evs) ==
  LET filter(ev) == IF ev \in evs THEN <<[fd |-> fd, op |-> op, ev |-> ev]>> ELSE <<>>
  IN  filter("EV_READ") \o filter("EV_WRITE")
KqueueModify(b, fd, oev, nev) ==
  [b EXCEPT !.kq = @ \o (IF oev # nev THEN Filters(fd, "EV_DELETE", oev) ELSE <<>>)
                     \o Filters(fd, "EV_ADD", nev)]

\* port_modify; EBADFD kills the descriptor
PortModify(b, fd, oev, nev) ==
  IF nev = {} THEN [b EXCEPT !.kernel[fd] = IF oev # {} THEN {} ELSE @]
  ELSE IF fd \notin open_fds THEN [b EXCEPT !.killed = @ \cup {fd}]
  ELSE [b EXCEPT !.kernel[fd] = nev]

BackendModify(b, fd, oev, nev) ==
  CASE backend = "poll" -> PollModify(b, fd, oev, nev)
    [] backend = "select" -> SelectModify(b, fd, oev, nev)
    [] backend = "kqueue" -> KqueueModify(b, fd, oev, nev)
    [] backend = "port" -> PortModify(b, fd, oev, nev)

BackendBecomes(b) ==
  /\ polls' = b.polls /\ pollidxs' = b.pollidxs
  /\ vec_ri' = b.ri /\ vec_wi' = b.wi /\ vec_max' = b.max
  /\ kqueue_changes' = b.kq /\ kernel_has' = b.kernel

\* fd_change; fd_kill stops the watchers
Waits(fd) == \E i \in 1..Len(changed) : changed[i].fd = fd
Changed(fd, ioset) ==
  IF Waits(fd)
    THEN [i \in 1..Len(changed) |->
            [changed[i] EXCEPT !.ioset = @ \/ (ioset /\ changed[i].fd = fd)]]
    ELSE Append(changed, [fd |-> fd, ioset |-> ioset])
Kill(fds) ==
  /\ want' = [fd \in BackendFd |-> IF fd \in fds THEN {} ELSE want[fd]]
  /\ changed' = changed \o SetToSeq({[fd |-> fd, ioset |-> FALSE] :
                                         fd \in {x \in fds : want[x] # {} /\ ~Waits(x)}})

-----------------------------------------------------------------------------
(* The program: watchers start and stop, descriptors are closed and reused *)
Runs == /\ backend_phase = "run" /\ backend_changes < MaxBackendChanges
        /\ backend_changes' = backend_changes + 1
        /\ UNCHANGED <<backend, events, backend_phase>>

\* ev_io_set and ev_io_start, or stops: the watchers want ev from now on
Want(fd, ev, ioset) ==
  /\ Runs
  /\ ev # want[fd] \/ ioset
  /\ want' = [want EXCEPT ![fd] = ev]
  /\ changed' = Changed(fd, ioset)
  /\ not_told' = IF ioset THEN not_told \ {fd} ELSE not_told
  /\ UNCHANGED <<open_fds, be>>

CloseFd(fd) ==
  /\ Runs /\ fd \in open_fds
  /\ open_fds' = open_fds \ {fd}
  /\ kernel_has' = [kernel_has EXCEPT ![fd] = {}]
  /\ UNCHANGED <<want, changed, polls, pollidxs, vec_ri, vec_wi, vec_max, kqueue_changes, not_told>>

OpenFd(fd) ==
  /\ Runs /\ fd \notin open_fds
  /\ open_fds' = open_fds \cup {fd} /\ not_told' = not_told \cup {fd}
  /\ UNCHANGED <<want, changed, be>>

\* fd_reify, one change; what port kills is changed again
BackendReify ==
  /\ backend_phase = "run" /\ changed # <<>>
  /\ LET fd == Head(changed).fd
         b == IF events[fd] # want[fd] \/ Head(changed).ioset
                THEN BackendModify(Backed, fd, events[fd], want[fd]) ELSE Backed
     IN  /\ BackendBecomes(b)
         /\ events' = [events EXCEPT ![fd] = want[fd]]
         /\ want' = [want EXCEPT ![fd] = IF fd \in b.killed THEN {} ELSE @]
         /\ changed' = IF fd \in b.killed THEN Append(Tail(changed), [fd |-> fd, ioset |-> FALSE])
                       ELSE Tail(changed)
  /\ UNCHANGED <<backend, open_fds, backend_phase, not_told, backend_changes>>

BackendSleep ==
  /\ backend_phase = "run" /\ changed = <<>>
  /\ backend_phase' = "poll"
  /\ UNCHANGED <<backend, open_fds, want, events, changed, be, not_told, backend_changes>>

-----------------------------------------------------------------------------
(* backend_poll.  What is found ready goes to fd_event, as in EvEpoll.      *)
Wanting == {fd \in BackendFd : events[fd] # {}}
\* fd_ebadf and fd_enomem: all that are closed; the highest, to try again
Ebadf == Wanting \ open_fds
Enomem == {fd \in Wanting : \A x \in Wanting : x <= fd}

\* poll_poll: POLLNVAL for each closed descriptor in polls, or ENOMEM, or
\* EINTR, which changes nothing
PollPoll ==
  /\ backend_phase = "poll" /\ backend = "poll"
  /\ Kill({polls[i].fd : i \in 1..Len(polls)} \ open_fds) \/ Kill(Enomem) \/ Kill({})
  /\ backend_phase' = "run"
  /\ UNCHANGED <<backend, open_fds, events, be, not_told, backend_changes>>

\* select_poll: EBADF if any descriptor is closed, or ENOMEM, or EINTR
SelectPoll ==
  /\ backend_phase = "poll" /\ backend = "select"
  /\ Kill(Ebadf) \/ Kill(Enomem) \/ Kill({})
  /\ backend_phase' = "run"
  /\ UNCHANGED <<backend, open_fds, events, be, not_told, backend_changes>>

\* kevent takes the changes in order and reports those that fail
Taken(K, cs) ==
  LET taken[n \in 0..Len(cs)] ==
        IF n = 0 THEN [kernel |-> K, errs |-> <<>>]
        ELSE IF cs[n].fd \notin open_fds THEN [taken[n - 1] EXCEPT !.errs = Append(@, cs[n].fd)]
        ELSE IF cs[n].op = "EV_ADD" THEN [taken[n - 1] EXCEPT !.kernel[cs[n].fd] = @ \cup {cs[n].ev}]
        ELSE IF cs[n].ev \in taken[n - 1].kernel[cs[n].fd]
          THEN [taken[n - 1] EXCEPT !.kernel[cs[n].fd] = @ \ {cs[n].ev}]
        ELSE [taken[n - 1] EXCEPT !.errs = Append(@, cs[n].fd)]
  IN  taken[Len(cs)]

\* kqueue_poll: errors of descriptors without interest are ignored
Resubmitted(b, errs) ==
  LET sent[n \in 0..Len(errs)] ==
        IF n = 0 THEN b
        ELSE IF events[errs[n]] = {} THEN sent[n - 1]
        ELSE IF errs[n] \in open_fds THEN KqueueModify(sent[n - 1], errs[n], {}, events[errs[n]])
        ELSE [sent[n - 1] EXCEPT !.killed = @ \cup {errs[n]}]
  IN  sent[Len(errs)]
KqueuePoll ==
  /\ backend_phase = "poll" /\ backend = "kqueue"
  /\ \E t \in {Taken(kernel_has, kqueue_changes)} :
     \E b \in {Resubmitted([Backed EXCEPT !.kernel = t.kernel, !.kq = <<>>], t.errs)} :
       BackendBecomes(b) /\ Kill(b.killed)
  /\ backend_phase' = "run"
  /\ UNCHANGED <<backend, open_fds, events, not_told, backend_changes>>

\* port_poll: what is reported is no longer associated, and is again
PortPoll ==
  /\ backend_phase = "poll" /\ backend = "port"
  /\ \/ UNCHANGED be
     \/ \E fd \in BackendFd :
          /\ kernel_has[fd] # {}
          /\ kernel_has' = [kernel_has EXCEPT ![fd] = events[fd]]
          /\ UNCHANGED <<polls, pollidxs, vec_ri, vec_wi, vec_max, kqueue_changes>>
  /\ backend_phase' = "run"
  /\ UNCHANGED <<backend, open_fds, want, events, changed, not_told, backend_changes>>

BackendNext ==
  \/ \E fd \in BackendFd : CloseFd(fd) \/ OpenFd(fd)
  \/ \E fd \in BackendFd, ev \in SUBSET RW, ioset \in BOOLEAN : Want(fd, ev, ioset)
  \/ BackendReify \/ BackendSleep \/ PollPoll \/ SelectPoll \/ KqueuePoll \/ PortPoll

BackendSpec == BackendInit /\ [][BackendNext]_backend_vars

-----------------------------------------------------------------------------
\* what the call that waits for events looks at
Words(S) == {fd \in S : fd \div NFDBITS < vec_max}
Interest(fd) ==
  CASE backend = "poll" -> UNION {polls[i].events : i \in {j \in 1..Len(polls) : polls[j].fd = fd}}
    [] backend = "select" -> (IF fd \in Words(vec_ri) THEN {"EV_READ"} ELSE {})
                               \cup (IF fd \in Words(vec_wi) THEN {"EV_WRITE"} ELSE {})
    [] backend = "kqueue" -> Taken(kernel_has, kqueue_changes).kernel[fd]
    [] backend = "port" -> kernel_has[fd]

(* Each backend waits for what the watchers want, nothing more and nothing *)
(* less, on every open descriptor, whatever was closed and reused before   *)
(* if ev_io_set told.                                                      *)
BackendKnows ==
  backend_phase = "poll" =>
    \A fd \in open_fds \ not_told : Interest(fd) = want[fd]
=============================================================================
