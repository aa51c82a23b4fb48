------------------------------ MODULE Loop_proofs ------------------------------
(***************************************************************************)
(* Proofs about the backends of libev, for any descriptors, files and      *)
(* watchers: what EvEpoll keeps of its watchers, its list of changes and   *)
(* the kernel's set, and why an event of an earlier file never reaches a   *)
(* watcher; then that every backend (EvBackends) waits for what is wanted. *)
(* At the end the theorems about the timers, whose lemmas are Ev_proofs',  *)
(* and what ev_verify asserts of all of the loop.                          *)
(***************************************************************************)
EXTENDS MCNet, Ev_proofs

(* A finite set as a sequence                                              *)
LEMMA SetAsSeq ==
  ASSUME NEW S, IsFiniteSet(S), NEW q, q = SetToSeq(S)
  PROVE  /\ q \in Seq(S)
         /\ \A i, j \in 1..Len(q) : q[i] = q[j] => i = j
         /\ \A x \in S : \E i \in 1..Len(q) : q[i] = x
         /\ \A i \in 1..Len(q) : q[i] \in S
  <1> DEFINE n == Cardinality(S)
  <1>1. n \in Nat
    BY FS_CardinalityType
  <1>2. PICK b : b \in Bijection(1..n, S)
    BY FS_CardinalityType, FS_NatBijection DEF ExistsBijection
  <1>3. b \in [1..n -> S] /\ IsInjective(b)
    BY <1>2 DEF Bijection, Injection, IsInjective, IsInjective
  <1>4. q \in [1..n -> S] /\ IsInjective(q)
    BY <1>3, Zenon DEF SetToSeq
  <1>5. IsFiniteSet(1..n) /\ Cardinality(1..n) = n
    BY <1>1, <1>2, FS_CountingElements, FS_Interval
  <1>6. q \in Surjection(1..n, S)
    BY <1>4, <1>5, FS_Injection DEF Injection
  <1>7. \A x \in S : \E i \in 1..n : q[i] = x
    BY <1>6 DEF Surjection
  <1>8. q \in Seq(S) /\ Len(q) = n
    BY <1>1, <1>4
  <1>9. \A i, j \in 1..n : q[i] = q[j] => i = j
    BY <1>4 DEF IsInjective
  <1> QED
    BY <1>4, <1>7, <1>8, <1>9

-----------------------------------------------------------------------------
(* What libev keeps of descriptors, as one record s                        *)
Reifies == {"EV__IOFDSET", "EV_ANFD_REIFY"}
Anfd == [head : Seq(IoWatcher), events : SUBSET EV_RW, reify : SUBSET Reifies,
         emask : SUBSET EV_RW, egen : Nat]
IoWatch == [fd : Fd, events : SUBSET EV_RW, active : BOOLEAN]
EpollEntry == [fd : Fd, file : File, mask : SUBSET EV_RW, gen : Nat]
IoState == [kernel : SUBSET EpollEntry, anfds : [Fd -> Anfd], fdchanges : Seq(Fd),
            io : [IoWatcher -> IoWatch], pending : Queues(IoWatcher, IoPri, io_pending_w)]
IoVerified(Q) == Verified(IoWatcher, IoPri, io_pending_w, io_priority, Q)

(* The lists hold the active watchers, each once                           *)
IoLists(s) ==
  /\ \A fd \in Fd : \A i \in 1..Len(s.anfds[fd].head) :
       /\ s.io[s.anfds[fd].head[i]].active /\ s.io[s.anfds[fd].head[i]].fd = fd
       /\ \A j \in 1..Len(s.anfds[fd].head) : s.anfds[fd].head[i] = s.anfds[fd].head[j] => i = j
  /\ \A w \in IoWatcher : s.io[w].active =>
       \E i \in 1..Len(s.anfds[s.io[w].fd].head) : s.anfds[s.io[w].fd].head[i] = w

(* fdchanges holds the numbers with a change, each once                    *)
ChangesOnce(s) ==
  /\ \A i, j \in 1..Len(s.fdchanges) : s.fdchanges[i] = s.fdchanges[j] => i = j
  /\ \A fd \in Fd : s.anfds[fd].reify # {} <=> \E i \in 1..Len(s.fdchanges) : s.fdchanges[i] = fd

(* Without a change the events are those the watchers want                 *)
Known(s, X) == \A fd \in Fd \ X : s.anfds[fd].reify = {} => s.anfds[fd].events = Wanted(s, fd)

Watched(s, X) == s \in IoState /\ IoVerified(s.pending) /\ IoLists(s) /\ ChangesOnce(s) /\ Known(s, X)

(* The kernel's entries and those that epoll_wait told (T) are of files     *)
(* that were opened, and of generations up to the present                  *)
Origins(s, op, T) ==
  \A e \in s.kernel \cup T : e.file \in op /\ e.gen <= s.anfds[e.fd].egen
(* An entry for the file f that its number stands for is as libev knows it, *)
(* and its generation belongs to that file alone, unless the file came back *)
(* to the number (R)                                                       *)
Current(s, f, R, T) ==
  \A e \in s.kernel : e.file = f[e.fd] /\ e.fd \notin R =>
    /\ e.gen = s.anfds[e.fd].egen /\ e.mask = s.anfds[e.fd].emask
    /\ \A d \in s.kernel \cup T : d.fd = e.fd /\ d.gen = e.gen => d.file = e.file
(* A number whose watchers want something has an entry that asks for it    *)
Asked(s, f, un, Y) ==
  \A fd \in Fd \ Y :
    fd \notin un /\ f[fd] # None /\ s.anfds[fd].events # {}
      /\ "EV__IOFDSET" \notin s.anfds[fd].reify =>
    /\ s.anfds[fd].emask = s.anfds[fd].events
    /\ \E e \in s.kernel : e.fd = fd /\ e.file = f[fd]

Entered(s, f, op, un, R, T, Y) == Origins(s, op, T) /\ Current(s, f, R, T) /\ Asked(s, f, un, Y)

(* What a change that is not yet made known leaves alone                   *)
Unmodified(s, t) ==
  /\ t.kernel = s.kernel
  /\ \A fd \in Fd : /\ t.anfds[fd].events = s.anfds[fd].events
                     /\ t.anfds[fd].emask = s.anfds[fd].emask
                     /\ t.anfds[fd].egen = s.anfds[fd].egen
                     /\ s.anfds[fd].reify \subseteq t.anfds[fd].reify

LEMMA EntriesKept ==
  ASSUME NEW s \in IoState, NEW t, NEW f, NEW op, NEW un, NEW R, NEW T, NEW Y,
         \A e \in T : e.fd \in Fd,
         Entered(s, f, op, un, R, T, Y), Unmodified(s, t)
  PROVE  Entered(t, f, op, un, R, T, Y)
  <1>1. \A e \in s.kernel \cup T : e.fd \in Fd
    BY DEF IoState, EpollEntry
  <1>2. Origins(t, op, T)
    BY <1>1 DEF Origins, Entered, Unmodified
  <1>3. Current(t, f, R, T)
    BY <1>1 DEF Current, Entered, Unmodified
  <1>4. Asked(t, f, un, Y)
    BY DEF Asked, Entered, Unmodified
  <1> QED
    BY <1>2, <1>3, <1>4 DEF Entered

(* The record by its fields, and one of them replaced                      *)
IoRec(k, a, c, o, p) == [kernel |-> k, anfds |-> a, fdchanges |-> c, io |-> o, pending |-> p]
AnyIo(Ks, As, Cs, Os, Qs) == [kernel : Ks, anfds : As, fdchanges : Cs, io : Os, pending : Qs]

LEMMA IoFields ==
  ASSUME NEW k, NEW a, NEW c, NEW o, NEW p, NEW q, q = IoRec(k, a, c, o, p)
  PROVE  /\ q.kernel = k /\ q.anfds = a /\ q.fdchanges = c /\ q.io = o /\ q.pending = p
         /\ q \in AnyIo({k}, {a}, {c}, {o}, {p})
  BY DEF IoRec, AnyIo

LEMMA IoIsRec ==
  ASSUME NEW s \in IoState
  PROVE  s = IoRec(s.kernel, s.anfds, s.fdchanges, s.io, s.pending)
  BY DEF IoRec, IoState

LEMMA Put_kernel ==
  ASSUME NEW k, NEW a, NEW c, NEW o, NEW p, NEW v, NEW q, q = IoRec(k, a, c, o, p)
  PROVE  [q EXCEPT !.kernel = v] = IoRec(v, a, c, o, p)
  <1>1. q \in AnyIo({k}, {a}, {c}, {o}, {p})
    BY IoFields
  <1>2. q.kernel = k /\ q.anfds = a /\ q.fdchanges = c /\ q.io = o /\ q.pending = p
    BY DEF IoRec
  <1> QED
    BY <1>1, <1>2 DEF AnyIo, IoRec

LEMMA Put_anfds ==
  ASSUME NEW k, NEW a, NEW c, NEW o, NEW p, NEW v, NEW q, q = IoRec(k, a, c, o, p)
  PROVE  [q EXCEPT !.anfds = v] = IoRec(k, v, c, o, p)
  <1>1. q \in AnyIo({k}, {a}, {c}, {o}, {p})
    BY IoFields
  <1>2. q.kernel = k /\ q.anfds = a /\ q.fdchanges = c /\ q.io = o /\ q.pending = p
    BY DEF IoRec
  <1> QED
    BY <1>1, <1>2 DEF AnyIo, IoRec

LEMMA Put_fdchanges ==
  ASSUME NEW k, NEW a, NEW c, NEW o, NEW p, NEW v, NEW q, q = IoRec(k, a, c, o, p)
  PROVE  [q EXCEPT !.fdchanges = v] = IoRec(k, a, v, o, p)
  <1>1. q \in AnyIo({k}, {a}, {c}, {o}, {p})
    BY IoFields
  <1>2. q.kernel = k /\ q.anfds = a /\ q.fdchanges = c /\ q.io = o /\ q.pending = p
    BY DEF IoRec
  <1> QED
    BY <1>1, <1>2 DEF AnyIo, IoRec

LEMMA Put_io ==
  ASSUME NEW k, NEW a, NEW c, NEW o, NEW p, NEW v, NEW q, q = IoRec(k, a, c, o, p)
  PROVE  [q EXCEPT !.io = v] = IoRec(k, a, c, v, p)
  <1>1. q \in AnyIo({k}, {a}, {c}, {o}, {p})
    BY IoFields
  <1>2. q.kernel = k /\ q.anfds = a /\ q.fdchanges = c /\ q.io = o /\ q.pending = p
    BY DEF IoRec
  <1> QED
    BY <1>1, <1>2 DEF AnyIo, IoRec

LEMMA Put_pending ==
  ASSUME NEW k, NEW a, NEW c, NEW o, NEW p, NEW v, NEW q, q = IoRec(k, a, c, o, p)
  PROVE  [q EXCEPT !.pending = v] = IoRec(k, a, c, o, v)
  <1>1. q \in AnyIo({k}, {a}, {c}, {o}, {p})
    BY IoFields
  <1>2. q.kernel = k /\ q.anfds = a /\ q.fdchanges = c /\ q.io = o /\ q.pending = p
    BY DEF IoRec
  <1> QED
    BY <1>1, <1>2 DEF AnyIo, IoRec

LEMMA AnfdReify ==
  ASSUME NEW a \in Anfd, NEW v
  PROVE  [a EXCEPT !.reify = v] = [head |-> a.head, events |-> a.events, reify |-> v,
                                   emask |-> a.emask, egen |-> a.egen]
  BY DEF Anfd

LEMMA SameListed ==
  ASSUME NEW s, NEW t, IoLists(s), t.io = s.io, \A fd \in Fd : t.anfds[fd].head = s.anfds[fd].head,
         \A w \in IoWatcher : s.io[w].fd \in Fd
  PROVE  IoLists(t)
  <1>1. ASSUME NEW fd \in Fd, NEW i \in 1..Len(t.anfds[fd].head)
        PROVE  /\ t.io[t.anfds[fd].head[i]].active /\ t.io[t.anfds[fd].head[i]].fd = fd
               /\ \A j \in 1..Len(t.anfds[fd].head) :
                    t.anfds[fd].head[i] = t.anfds[fd].head[j] => i = j
    <2>1. t.anfds[fd].head = s.anfds[fd].head /\ t.io = s.io
      OBVIOUS
    <2>2. i \in 1..Len(s.anfds[fd].head)
      BY <2>1
    <2>3. /\ s.io[s.anfds[fd].head[i]].active /\ s.io[s.anfds[fd].head[i]].fd = fd
          /\ \A j \in 1..Len(s.anfds[fd].head) :
               s.anfds[fd].head[i] = s.anfds[fd].head[j] => i = j
      BY <2>2, Zenon DEF IoLists
    <2> QED
      BY <2>1, <2>3, Zenon
  <1>2. ASSUME NEW w \in IoWatcher, t.io[w].active
        PROVE  \E i \in 1..Len(t.anfds[t.io[w].fd].head) : t.anfds[t.io[w].fd].head[i] = w
    <2>1. s.io[w].fd \in Fd /\ t.io = s.io
      OBVIOUS
    <2>2. t.anfds[t.io[w].fd].head = s.anfds[s.io[w].fd].head
      BY <2>1, Zenon
    <2>3. s.io[w].active
      BY <1>2, <2>1, Zenon
    <2>4. \E i \in 1..Len(s.anfds[s.io[w].fd].head) : s.anfds[s.io[w].fd].head[i] = w
      BY <2>3, Zenon DEF IoLists
    <2> QED
      BY <2>1, <2>2, <2>4, Zenon
  <1> QED
    BY <1>1, <1>2, Zenon DEF IoLists

Flagged(t, fd, flags) == flags \subseteq t.anfds[fd].reify

(* fd_change                                                               *)
LEMMA FdChanged ==
  ASSUME NEW X, NEW s, Watched(s, X), NEW fd \in Fd, NEW flags \in SUBSET Reifies, flags # {},
         NEW t, t = FdChange(s, fd, flags)
  PROVE  /\ Watched(t, X \ {fd}) /\ Unmodified(s, t) /\ t.io = s.io
         /\ Flagged(t, fd, flags)
  <1> DEFINE r == [s.anfds[fd] EXCEPT !.reify = @ \cup flags]
             a == [s.anfds EXCEPT ![fd] = r]
             c == IF s.anfds[fd].reify = {} THEN Append(s.fdchanges, fd) ELSE s.fdchanges
  <1>0. /\ s \in IoState /\ s.anfds \in [Fd -> Anfd] /\ s.fdchanges \in Seq(Fd)
        /\ s.io \in [IoWatcher -> IoWatch] /\ s.kernel \in SUBSET EpollEntry
        /\ s.pending \in Queues(IoWatcher, IoPri, io_pending_w)
    BY DEF Watched, IoState
  <1>1. /\ t.kernel = s.kernel /\ t.io = s.io /\ t.pending = s.pending
        /\ t.anfds = a /\ t.fdchanges = c
        /\ t = [kernel |-> s.kernel, anfds |-> a, fdchanges |-> c, io |-> s.io, pending |-> s.pending]
    BY <1>0 DEF FdChange, IoState
  <1>2. r \in Anfd /\ r = [head |-> s.anfds[fd].head, events |-> s.anfds[fd].events,
                           reify |-> s.anfds[fd].reify \cup flags, emask |-> s.anfds[fd].emask,
                           egen |-> s.anfds[fd].egen]
    <2>1. s.anfds[fd] \in Anfd
      BY <1>0
    <2>2. s.anfds[fd].reify \cup flags \in SUBSET Reifies
      BY <2>1 DEF Anfd
    <2>3. r = [head |-> s.anfds[fd].head, events |-> s.anfds[fd].events,
               reify |-> s.anfds[fd].reify \cup flags, emask |-> s.anfds[fd].emask,
               egen |-> s.anfds[fd].egen]
      BY <2>1, AnfdReify, Zenon
    <2> HIDE DEF r
    <2> QED
      BY <2>1, <2>2, <2>3 DEF Anfd
  <1> HIDE DEF r
  <1>3. a \in [Fd -> Anfd] /\ a[fd] = r /\ \A gd \in Fd \ {fd} : a[gd] = s.anfds[gd]
    BY <1>0, <1>2
  <1> HIDE DEF a
  <1>4. /\ \A gd \in Fd : a[gd].head = s.anfds[gd].head /\ a[gd].events = s.anfds[gd].events
                         /\ a[gd].emask = s.anfds[gd].emask /\ a[gd].egen = s.anfds[gd].egen
        /\ a[fd].reify = s.anfds[fd].reify \cup flags
        /\ \A gd \in Fd \ {fd} : a[gd].reify = s.anfds[gd].reify
    BY <1>2, <1>3
  <1>5. /\ c \in Seq(Fd)
        /\ s.anfds[fd].reify # {} => c = s.fdchanges
        /\ s.anfds[fd].reify = {} => /\ Len(c) = Len(s.fdchanges) + 1 /\ c[Len(c)] = fd
                                    /\ \A i \in 1..Len(s.fdchanges) : c[i] = s.fdchanges[i]
    BY <1>0, AppendProperties
  <1> HIDE DEF c
  <1>6. t \in IoState
    BY <1>0, <1>1, <1>3, <1>5 DEF IoState
  <1>7. Unmodified(s, t)
    BY <1>1, <1>4 DEF Unmodified
  <1>8. IoLists(t)
    <2>1. IoLists(s)
      BY DEF Watched
    <2>2. \A w \in IoWatcher : s.io[w].fd \in Fd
      BY <1>0 DEF IoWatch
    <2>3. \A gd \in Fd : t.anfds[gd].head = s.anfds[gd].head
      BY <1>1, <1>4
    <2> QED
      BY <1>1, <2>1, <2>2, <2>3, SameListed
  <1>9. Len(s.fdchanges) \in Nat /\ \A i \in 1..Len(s.fdchanges) : s.fdchanges[i] \in Fd
    BY <1>0, ElementOfSeq
  <1>10. ChangesOnce(t)
    <2>0. ChangesOnce(s)
      BY DEF Watched
    <2>1. CASE s.anfds[fd].reify # {}
      <3>1. t.fdchanges = s.fdchanges
        BY <1>1, <1>5, <2>1
      <3>2. \A gd \in Fd : t.anfds[gd].reify # {} <=> s.anfds[gd].reify # {}
        BY <1>1, <1>4, <2>1
      <3> QED
        BY <2>0, <3>1, <3>2 DEF ChangesOnce
    <2>2. CASE s.anfds[fd].reify = {}
      <3> DEFINE n == Len(s.fdchanges)
      <3>1. \A i \in 1..n : s.fdchanges[i] # fd
        BY <2>0, <2>2 DEF ChangesOnce
      <3>2. Len(c) = n + 1 /\ c[n + 1] = fd /\ \A i \in 1..n : c[i] = s.fdchanges[i]
        BY <1>5, <2>2
      <3>3. \A i, j \in 1..n : s.fdchanges[i] = s.fdchanges[j] => i = j
        BY <2>0 DEF ChangesOnce
      <3>4. \A gd \in Fd : s.anfds[gd].reify # {} <=> \E i \in 1..n : s.fdchanges[i] = gd
        BY <2>0 DEF ChangesOnce
      <3> HIDE DEF n
      <3>5. n \in Nat
        BY <1>9 DEF n
      <3>6. ASSUME NEW i \in 1..(n + 1), NEW j \in 1..(n + 1), c[i] = c[j] PROVE i = j
        <4>1. i = n + 1 \/ i \in 1..n
          BY <3>5
        <4>2. j = n + 1 \/ j \in 1..n
          BY <3>5
        <4> QED
          BY <3>1, <3>2, <3>3, <3>6, <4>1, <4>2
      <3>7. ASSUME NEW gd \in Fd
            PROVE  a[gd].reify # {} <=> \E i \in 1..(n + 1) : c[i] = gd
        <4>1. 1..(n + 1) = 1..n \cup {n + 1}
          BY <3>5
        <4>2. CASE gd = fd
          BY <1>4, <3>2, <4>1, <4>2
        <4>3. CASE gd # fd
          BY <1>4, <3>2, <3>4, <4>1, <4>3
        <4> QED
          BY <4>2, <4>3
      <3> QED
        BY <1>1, <3>2, <3>6, <3>7 DEF ChangesOnce
    <2> QED
      BY <2>1, <2>2
  <1>11. Known(t, X \ {fd})
    <2> SUFFICES ASSUME NEW gd \in Fd, gd \notin X \ {fd}, t.anfds[gd].reify = {}
                 PROVE  t.anfds[gd].events = Wanted(t, gd)
      BY DEF Known
    <2>1. gd # fd /\ gd \notin X
      BY <1>1, <1>4
    <2>2. s.anfds[gd].events = Wanted(s, gd)
      BY <1>1, <1>4, <2>1 DEF Watched, Known
    <2> QED
      BY <1>1, <1>4, <2>2 DEF Wanted
  <1>12. Flagged(t, fd, flags)
    BY <1>1, <1>4 DEF Flagged
  <1> QED
    BY <1>1, <1>12, <1>6, <1>7, <1>8, <1>10, <1>11 DEF Watched

-----------------------------------------------------------------------------
(* What is pending of descriptors                                          *)
LEMMA IoQueues ==
  ASSUME NEW Q, NEW w, NEW revents
  PROVE  /\ IP!ClearPending(Q, w, io_priority)
              = G(IoWatcher, IoPri, io_pending_w)!ClearPending(Q, w, io_priority)
         /\ IP!FeedEvent(Q, w, revents, io_priority)
              = G(IoWatcher, IoPri, io_pending_w)!FeedEvent(Q, w, revents, io_priority)
  BY DEF IP!ClearPending, G!ClearPending, IP!FeedEvent, G!FeedEvent

LEMMA IoCleared ==
  ASSUME NEW Q, IoVerified(Q), NEW w \in IoWatcher
  PROVE  IoVerified(IP!ClearPending(Q, w, io_priority))
  <1>1. Verified(IoWatcher, IoPri, io_pending_w, io_priority,
                 G(IoWatcher, IoPri, io_pending_w)!ClearPending(Q, w, io_priority))
    BY PendingCleared DEF IoVerified
  <1> QED
    BY <1>1, IoQueues DEF IoVerified

LEMMA IoFed ==
  ASSUME NEW Q, IoVerified(Q), NEW w \in IoWatcher, NEW revents \in SUBSET Received
  PROVE  IoVerified(IP!FeedEvent(Q, w, revents, io_priority))
  BY IoQueues, PendingFed DEF IoVerified

LEMMA IoKilled ==
  ASSUME NEW Q, IoVerified(Q), NEW ws \in Seq(IoWatcher)
  PROVE  IoVerified(KilledPending(Q, ws))
  <1> DEFINE N == Len(ws)
             V == {x \in Queues(IoWatcher, IoPri, io_pending_w) : IoVerified(x)}
             KillOne(x, n) == IP!FeedEvent(IP!ClearPending(x, ws[n], io_priority), ws[n],
                                        {"EV_ERROR", "EV_READ", "EV_WRITE"}, io_priority)
             Made(f) == f = [n \in 0..N |-> IF n = 0 THEN Q ELSE KillOne(f[n - 1], n)]
             killed == CHOOSE f : Made(f)
             step == [p \in V \X (1..N) |-> KillOne(p[1], p[2])]
             Good == [n \in 0..N |-> V]
  <1>0. N \in Nat /\ \A n \in 1..N : ws[n] \in IoWatcher
    BY ElementOfSeq
  <1>1. KilledPending(Q, ws) = killed[N]
    BY Zenon DEF KilledPending
  <1>2. ASSUME NEW n \in 1..N, NEW x \in V PROVE KillOne(x, n) \in V
    <2>1. {"EV_ERROR", "EV_READ", "EV_WRITE"} \in SUBSET Received
      BY DEF Received
    <2>2. ws[n] \in IoWatcher /\ IoVerified(x)
      BY <1>0
    <2>3. IoVerified(KillOne(x, n))
      BY <2>1, <2>2, IoCleared, IoFed
    <2> QED
      BY <2>3 DEF IoVerified, Verified
  <1> HIDE DEF KillOne
  <1>3. Q \in V
    BY DEF IoVerified, Verified
  <1> HIDE DEF V
  <1>4. Good \in [0..N -> SUBSET V] /\ Q \in Good[0] /\ \A n \in 0..N : Good[n] = V
    BY <1>0, <1>3
  <1>5. \A n \in 1..N : \A x \in V : step[<<x, n>>] = KillOne(x, n)
    OBVIOUS
  <1> HIDE DEF Good, step, N
  <1>6. \A n \in 1..N : n - 1 \in 0..N /\ n \in 0..N
    BY <1>0
  <1>7. \A n \in 1..N : \A x \in Good[n - 1] : step[<<x, n>>] \in Good[n]
    <2> TAKE n \in 1..N
    <2>1. n - 1 \in 0..N /\ n \in 0..N /\ Good[n - 1] = V /\ Good[n] = V
      BY <1>4, <1>6
    <2> QED
      BY <1>2, <1>5, <2>1
  <1>14. Leads(N, V, Good, Q, step)
    BY <1>0, <1>4, <1>7 DEF Leads
  <1>8. PICK f \in [0..N -> V] : f[0] = Q /\ \A n \in 1..N : f[n] = step[<<f[n - 1], n>>]
    BY <1>14, Iteration
  <1>9. Made(f)
    <2>1. ASSUME NEW n \in 0..N PROVE f[n] = IF n = 0 THEN Q ELSE KillOne(f[n - 1], n)
      <3>1. CASE n = 0
        BY <1>8, <3>1
      <3>2. CASE n # 0
        <4>1. n \in 1..N
          BY <1>0, <3>2
        <4>2. f[n - 1] \in V
          BY <1>6, <1>8, <4>1
        <4> QED
          BY <1>5, <1>8, <3>2, <4>1, <4>2
      <3> QED
        BY <3>1, <3>2
    <2> QED
      BY <2>1
  <1>10. Made(killed)
    BY <1>9, Zenon
  <1> HIDE DEF killed
  <1>11. killed[0] = Q /\ \A n \in 1..N : killed[n] = KillOne(killed[n - 1], n)
    BY <1>0, <1>6, <1>10
  <1>12. \A n \in 1..N : killed[n - 1] \in Good[n - 1] => killed[n] = step[<<killed[n - 1], n>>]
    BY <1>4, <1>5, <1>6, <1>11
  <1>13. \A n \in 0..N : killed[n] \in Good[n]
    <2>1. Follows(N, killed, Good, Q, step)
      BY <1>11, <1>12 DEF Follows
    <2> QED
      BY <1>14, <2>1, IterationStays
  <1>15. killed[N] \in V
    BY <1>0, <1>4, <1>13
  <1> QED
    BY <1>1, <1>15 DEF V

-----------------------------------------------------------------------------
(* The lists of the descriptors                                            *)
LEMMA UnmodifiedTwice ==
  ASSUME NEW r, NEW s, NEW t, Unmodified(r, s), Unmodified(s, t)
  PROVE  Unmodified(r, t)
  BY DEF Unmodified

LEMMA PendingOnly ==
  ASSUME NEW X, NEW s, Watched(s, X), NEW p, IoVerified(p), NEW t, t = [s EXCEPT !.pending = p]
  PROVE  Watched(t, X) /\ Unmodified(s, t) /\ t.anfds = s.anfds
  <1>1. s \in IoState
    BY DEF Watched
  <1>2. /\ t.kernel = s.kernel /\ t.anfds = s.anfds /\ t.fdchanges = s.fdchanges
        /\ t.io = s.io /\ t.pending = p
    BY <1>1 DEF IoState
  <1>3. t \in IoState
    BY <1>1 DEF IoState, IoVerified, Verified
  <1>4. IoLists(t) /\ ChangesOnce(t) /\ Known(t, X)
    BY <1>2 DEF Watched, IoLists, ChangesOnce, Known, Wanted
  <1>5. Unmodified(s, t)
    BY <1>2 DEF Unmodified
  <1> QED
    BY <1>2, <1>3, <1>4, <1>5 DEF Watched

\* The watchers of other lists want what they wanted
OthersWant(s, fd, o) ==
  \A gd \in Fd \ {fd} : \A i \in 1..Len(s.anfds[gd].head) :
    o[s.anfds[gd].head[i]].events = s.io[s.anfds[gd].head[i]].events

\* The list of fd changes, and its watchers
LEMMA Relisted ==
  ASSUME NEW X, NEW s, Watched(s, X), NEW fd \in Fd, NEW h \in Seq(IoWatcher),
         NEW o \in [IoWatcher -> IoWatch], NEW p, IoVerified(p),
         NEW r, r \in IoState, r.kernel = s.kernel, r.fdchanges = s.fdchanges, r.io = o,
         r.pending = p, r.anfds = [s.anfds EXCEPT ![fd].head = h],
         IoLists(r), OthersWant(s, fd, o), NEW Y, Y = X \cup {fd}
  PROVE  Watched(r, Y) /\ Unmodified(s, r)
  <1>1. s.anfds \in [Fd -> Anfd]
    BY DEF Watched, IoState
  <1>2. /\ \A gd \in Fd : /\ r.anfds[gd].events = s.anfds[gd].events
                          /\ r.anfds[gd].reify = s.anfds[gd].reify
                          /\ r.anfds[gd].emask = s.anfds[gd].emask
                          /\ r.anfds[gd].egen = s.anfds[gd].egen
        /\ \A gd \in Fd \ {fd} : r.anfds[gd].head = s.anfds[gd].head
    <2>1. ASSUME NEW gd \in Fd
          PROVE  /\ r.anfds[gd].events = s.anfds[gd].events
                 /\ r.anfds[gd].reify = s.anfds[gd].reify
                 /\ r.anfds[gd].emask = s.anfds[gd].emask
                 /\ r.anfds[gd].egen = s.anfds[gd].egen
      <3>1. s.anfds[gd] \in Anfd /\ r.anfds[gd] = IF gd = fd THEN [s.anfds[fd] EXCEPT !.head = h] ELSE s.anfds[gd]
        BY <1>1
      <3> QED
        BY <3>1 DEF Anfd
    <2>2. \A gd \in Fd \ {fd} : r.anfds[gd].head = s.anfds[gd].head
      BY <1>1
    <2> QED
      BY <2>1, <2>2
  <1>3. Unmodified(s, r)
    BY <1>2 DEF Unmodified
  <1>4. ChangesOnce(r)
    BY <1>2 DEF Watched, ChangesOnce
  <1>5. Known(r, Y)
    <2> SUFFICES ASSUME NEW gd \in Fd, gd \notin X, gd # fd, r.anfds[gd].reify = {}
                 PROVE  r.anfds[gd].events = Wanted(r, gd)
      BY DEF Known
    <2>1. s.anfds[gd].events = Wanted(s, gd)
      BY <1>2 DEF Watched, Known
    <2>2. r.anfds[gd].head = s.anfds[gd].head /\ r.anfds[gd].events = s.anfds[gd].events
      BY <1>2
    <2>3. \A i \in 1..Len(s.anfds[gd].head) :
            o[s.anfds[gd].head[i]].events = s.io[s.anfds[gd].head[i]].events
      BY DEF OthersWant
    <2>4. Wanted(r, gd) = Wanted(s, gd)
      BY <2>2, <2>3 DEF Wanted
    <2> QED
      BY <2>1, <2>2, <2>4
  <1> QED
    BY <1>3, <1>4, <1>5 DEF Watched

(* wlist_del                                                               *)
LEMMA UnlistedSeq ==
  ASSUME NEW W, NEW list \in Seq(W), NEW k \in 1..Len(list), NEW w, list[k] = w,
         \A i, j \in 1..Len(list) : list[i] = list[j] => i = j,
         NEW t, t = Unlisted(list, w)
  PROVE  /\ t \in Seq(W) /\ Len(t) = Len(list) - 1
         /\ \A j \in 1..Len(t) : t[j] = list[IF j < k THEN j ELSE j + 1]
  <1>1. t = SubSeq(list, 1, k - 1) \o SubSeq(list, k + 1, Len(list))
    <2> DEFINE c == CHOOSE i \in 1..Len(list) : list[i] = w
    <2>1. c \in 1..Len(list) /\ list[c] = w
      OBVIOUS
    <2>2. t = SubSeq(list, 1, c - 1) \o SubSeq(list, c + 1, Len(list))
      BY Zenon DEF Unlisted
    <2> HIDE DEF c
    <2>3. c = k
      BY <2>1
    <2> QED
      BY <2>2, <2>3
  <1> DEFINE a == SubSeq(list, 1, k - 1)
             b == SubSeq(list, k + 1, Len(list))
  <1>0. \A j \in 1..Len(list) : list[j] \in W
    BY ElementOfSeq
  <1>2. a \in Seq(W) /\ Len(a) = k - 1 /\ \A j \in 1..(k - 1) : a[j] = list[j]
    BY <1>0, SubSeqProperties
  <1>3. /\ b \in Seq(W) /\ Len(b) = Len(list) - k
        /\ \A j \in 1..(Len(list) - k) : b[j] = list[k + j]
    BY <1>0, SubSeqProperties
  <1>10. t = a \o b
    BY <1>1
  <1> HIDE DEF a, b
  <1>11. /\ a \o b \in Seq(W) /\ Len(a \o b) = Len(a) + Len(b)
         /\ \A i \in 1..(Len(a) + Len(b)) : (a \o b)[i] = IF i <= Len(a) THEN a[i] ELSE b[i - Len(a)]
    <2>1. a \in Seq(W) /\ b \in Seq(W)
      BY <1>2, <1>3
    <2> QED
      BY ONLY <2>1, ConcatProperties
  <1>4. t \in Seq(W) /\ Len(t) = Len(list) - 1
    BY <1>2, <1>3, <1>10, <1>11
  <1>5. ASSUME NEW j \in 1..Len(t) PROVE t[j] = list[IF j < k THEN j ELSE j + 1]
    <2>1. t[j] = IF j <= k - 1 THEN a[j] ELSE b[j - (k - 1)]
      BY <1>2, <1>3, <1>4, <1>10, <1>11
    <2>2. CASE j < k
      BY <1>2, <1>4, <2>1, <2>2
    <2>3. CASE ~(j < k)
      <3>1. j - (k - 1) \in 1..(Len(list) - k)
        BY <1>4, <2>3
      <3>2. b[j - (k - 1)] = list[k + (j - (k - 1))]
        BY <1>3, <3>1
      <3> QED
        BY <2>1, <2>3, <3>2
    <2> QED
      BY <2>2, <2>3
  <1> QED
    BY <1>4, <1>5

-----------------------------------------------------------------------------
(* The list of fd becomes h and the watchers o: what that must respect     *)
Relists(s, fd, h, o) ==
  /\ h \in Seq(IoWatcher) /\ o \in [IoWatcher -> IoWatch]
  /\ \A i \in 1..Len(h) : /\ o[h[i]].active /\ o[h[i]].fd = fd
                          /\ \A j \in 1..Len(h) : h[i] = h[j] => i = j
  /\ \A v \in IoWatcher :
       /\ o[v].active => IF o[v].fd = fd THEN \E i \in 1..Len(h) : h[i] = v ELSE o[v] = s.io[v]
       /\ s.io[v].active /\ s.io[v].fd # fd => o[v] = s.io[v]

LEMMA ListOf ==
  ASSUME NEW s, IoLists(s), NEW fd \in Fd, NEW l, l = s.anfds[fd].head
  PROVE  /\ \A i \in 1..Len(l) : s.io[l[i]].active /\ s.io[l[i]].fd = fd
         /\ \A i, j \in 1..Len(l) : l[i] = l[j] => i = j
  BY DEF IoLists

LEMMA InItsList ==
  ASSUME NEW s, IoLists(s), NEW v \in IoWatcher, s.io[v].active, NEW l, l = s.anfds[s.io[v].fd].head
  PROVE  \E i \in 1..Len(l) : l[i] = v
  BY Zenon DEF IoLists

LEMMA AnfdHead ==
  ASSUME NEW a \in Anfd, NEW v
  PROVE  [a EXCEPT !.head = v] = [head |-> v, events |-> a.events, reify |-> a.reify,
                                  emask |-> a.emask, egen |-> a.egen]
  BY DEF Anfd

LEMMA Relinked ==
  ASSUME NEW s, Watched(s, {}), NEW fd \in Fd, NEW h, NEW o, Relists(s, fd, h, o),
         NEW p, IoVerified(p), NEW r,
         r = IoRec(s.kernel, [s.anfds EXCEPT ![fd].head = h], s.fdchanges, o, p)
  PROVE  Watched(r, {fd}) /\ Unmodified(s, r) /\ r.io = o
  <1> DEFINE a == [s.anfds EXCEPT ![fd].head = h]
  <1>0. /\ s \in IoState /\ s.anfds \in [Fd -> Anfd] /\ s.fdchanges \in Seq(Fd)
        /\ s.io \in [IoWatcher -> IoWatch] /\ s.kernel \in SUBSET EpollEntry
    BY DEF Watched, IoState
  <1>1. h \in Seq(IoWatcher) /\ o \in [IoWatcher -> IoWatch]
    BY DEF Relists
  <1>2. a \in [Fd -> Anfd] /\ a[fd].head = h /\ \A gd \in Fd \ {fd} : a[gd] = s.anfds[gd]
    <2> DEFINE x == [s.anfds[fd] EXCEPT !.head = h]
    <2>1. s.anfds[fd] \in Anfd
      BY <1>0
    <2>2. x = [head |-> h, events |-> s.anfds[fd].events, reify |-> s.anfds[fd].reify,
               emask |-> s.anfds[fd].emask, egen |-> s.anfds[fd].egen]
      BY <2>1, AnfdHead, Zenon
    <2>3. a = [s.anfds EXCEPT ![fd] = x]
      OBVIOUS
    <2> HIDE DEF x
    <2>4. x \in Anfd /\ x.head = h
      BY <1>1, <2>1, <2>2 DEF Anfd
    <2> QED
      BY <1>0, <2>3, <2>4
  <1>3. /\ r.kernel = s.kernel /\ r.fdchanges = s.fdchanges /\ r.io = o /\ r.pending = p
        /\ r.anfds = a
    BY DEF IoRec
  <1> HIDE DEF a
  <1>4. r \in IoState
    <2>1. p \in Queues(IoWatcher, IoPri, io_pending_w)
      BY DEF IoVerified, Verified
    <2> QED
      BY <1>0, <1>1, <1>2, <2>1 DEF IoState, a, IoRec
  <1>13. Relists(s, fd, h, r.io) /\ r.anfds = a
    BY <1>3
  <1>5. IoLists(s)
    BY DEF Watched
  <1>6. \A gd \in Fd : Len(s.anfds[gd].head) \in Nat /\
          \A i \in 1..Len(s.anfds[gd].head) : s.anfds[gd].head[i] \in IoWatcher
    <2> SUFFICES ASSUME NEW gd \in Fd
                 PROVE  Len(s.anfds[gd].head) \in Nat /\
                          \A i \in 1..Len(s.anfds[gd].head) : s.anfds[gd].head[i] \in IoWatcher
      OBVIOUS
    <2>1. s.anfds[gd].head \in Seq(IoWatcher)
      BY <1>0 DEF Anfd
    <2> QED
      BY <2>1, ElementOfSeq
  <1>7. \A gd \in Fd \ {fd} : \A i \in 1..Len(s.anfds[gd].head) :
          r.io[s.anfds[gd].head[i]] = s.io[s.anfds[gd].head[i]]
    <2> SUFFICES ASSUME NEW gd \in Fd \ {fd}, NEW i \in 1..Len(s.anfds[gd].head)
                 PROVE  r.io[s.anfds[gd].head[i]] = s.io[s.anfds[gd].head[i]]
      OBVIOUS
    <2>1. s.io[s.anfds[gd].head[i]].active /\ s.io[s.anfds[gd].head[i]].fd = gd
      BY <1>5 DEF IoLists
    <2>2. s.anfds[gd].head[i] \in IoWatcher
      BY <1>6
    <2> QED
      BY <1>13, <2>1, <2>2 DEF Relists
  <1>8. IoLists(r)
    <2>1. ASSUME NEW gd \in Fd, NEW i \in 1..Len(r.anfds[gd].head)
          PROVE  /\ r.io[r.anfds[gd].head[i]].active /\ r.io[r.anfds[gd].head[i]].fd = gd
                 /\ \A j \in 1..Len(r.anfds[gd].head) : r.anfds[gd].head[i] = r.anfds[gd].head[j] => i = j
      <3>1. CASE gd = fd
        <4>1. r.anfds[gd].head = h
          BY <1>2, <1>13, <3>1
        <4>2. i \in 1..Len(h)
          BY <4>1
        <4>3. /\ r.io[h[i]].active /\ r.io[h[i]].fd = fd
              /\ \A j \in 1..Len(h) : h[i] = h[j] => i = j
          BY <1>13, <4>2, Zenon DEF Relists
        <4> QED
          BY <3>1, <4>1, <4>3, Zenon
      <3>2. CASE gd # fd
        <4>1. r.anfds[gd].head = s.anfds[gd].head
          BY <1>2, <1>13, <3>2
        <4>2. r.io[s.anfds[gd].head[i]] = s.io[s.anfds[gd].head[i]]
          BY <1>7, <2>1, <3>2, <4>1
        <4> DEFINE l == s.anfds[gd].head
        <4>3. /\ \A j \in 1..Len(l) : s.io[l[j]].active /\ s.io[l[j]].fd = gd
              /\ \A j, m \in 1..Len(l) : l[j] = l[m] => j = m
          BY <1>5, ListOf
        <4>4. r.anfds[gd].head = l /\ r.io[l[i]] = s.io[l[i]]
          BY <4>1, <4>2
        <4>5. i \in 1..Len(l)
          BY <4>4
        <4> HIDE DEF l
        <4>6. /\ s.io[l[i]].active /\ s.io[l[i]].fd = gd
              /\ \A j \in 1..Len(l) : l[i] = l[j] => i = j
          BY <4>3, <4>5, Zenon
        <4> QED
          BY <4>4, <4>6, Zenon
      <3> QED
        BY <3>1, <3>2
    <2>2. ASSUME NEW v \in IoWatcher, r.io[v].active
          PROVE  \E i \in 1..Len(r.anfds[r.io[v].fd].head) : r.anfds[r.io[v].fd].head[i] = v
      <3>0. r.io[v].fd \in Fd
        BY <1>13 DEF IoWatch, Relists
      <3>1. CASE r.io[v].fd = fd
        <4>1. r.anfds[r.io[v].fd].head = h
          BY <1>2, <1>13, <3>1
        <4>2. \E i \in 1..Len(h) : h[i] = v
          BY <1>13, <2>2, <3>1 DEF Relists
        <4> QED
          BY <4>1, <4>2
      <3>2. CASE r.io[v].fd # fd
        <4>1. r.io[v] = s.io[v]
          BY <1>13, <2>2, <3>2 DEF Relists
        <4>2. r.anfds[r.io[v].fd].head = s.anfds[s.io[v].fd].head
          BY <1>2, <1>13, <3>0, <3>2, <4>1
        <4>3. s.io[v].active
          BY <2>2, <4>1
        <4>4. \E i \in 1..Len(s.anfds[s.io[v].fd].head) : s.anfds[s.io[v].fd].head[i] = v
          BY <1>5, <4>3, Zenon DEF IoLists
        <4> QED
          BY <4>2, <4>4, Zenon
      <3> QED
        BY <3>1, <3>2
    <2> QED
      BY <2>1, <2>2, Zenon DEF IoLists
  <1>9. OthersWant(s, fd, o)
    BY <1>3, <1>7, Zenon DEF OthersWant
  <1>10. r.anfds = [s.anfds EXCEPT ![fd].head = h] /\ {fd} = {} \cup {fd}
    BY <1>3 DEF a
  <1>11. Watched(s, {}) /\ IoVerified(p)
    OBVIOUS
  <1> QED
    BY ONLY <1>1, <1>3, <1>4, <1>8, <1>9, <1>10, <1>11, Relisted

ListChange(s, fd, h, o, p, flags, t) ==
  /\ Watched(s, {}) /\ fd \in Fd /\ Relists(s, fd, h, o) /\ IoVerified(p)
  /\ flags \in SUBSET Reifies /\ flags # {}
  /\ t = FdChange(IoRec(s.kernel, [s.anfds EXCEPT ![fd].head = h], s.fdchanges, o, p), fd, flags)

LEMMA ListChanged ==
  ASSUME NEW s, NEW fd, NEW h, NEW o, NEW p, NEW flags, NEW t,
         ListChange(s, fd, h, o, p, flags, t)
  PROVE  /\ Watched(t, {}) /\ Unmodified(s, t) /\ t.io = o
         /\ Flagged(t, fd, flags)
  <1> DEFINE r == IoRec(s.kernel, [s.anfds EXCEPT ![fd].head = h], s.fdchanges, o, p)
  <1>1. /\ Watched(s, {}) /\ fd \in Fd /\ Relists(s, fd, h, o) /\ IoVerified(p)
        /\ flags \in SUBSET Reifies /\ flags # {} /\ t = FdChange(r, fd, flags)
    BY DEF ListChange
  <1>0. r = IoRec(s.kernel, [s.anfds EXCEPT ![fd].head = h], s.fdchanges, o, p)
    OBVIOUS
  <1> HIDE DEF r
  <1>2. Watched(r, {fd}) /\ Unmodified(s, r) /\ r.io = o
    BY <1>0, <1>1, Relinked
  <1>3. {fd} \ {fd} = {}
    OBVIOUS
  <1> DEFINE Y == {fd}
  <1> HIDE DEF Y
  <1>4. Watched(r, Y)
    BY <1>2 DEF Y
  <1>5. /\ Watched(t, Y \ {fd}) /\ Unmodified(r, t) /\ t.io = r.io
        /\ Flagged(t, fd, flags)
    BY <1>1, <1>4, FdChanged
  <1> QED
    BY <1>2, <1>3, <1>5, UnmodifiedTwice DEF Y

LEMMA IoWatchActive ==
  ASSUME NEW x \in IoWatch, NEW b
  PROVE  [x EXCEPT !.active = b] = [fd |-> x.fd, events |-> x.events, active |-> b]
  BY DEF IoWatch

(* ev_io_stop                                                              *)
LEMMA IoStoppedWatched ==
  ASSUME NEW s, Watched(s, {}), NEW w \in IoWatcher, NEW t, t = IoStopped(s, w)
  PROVE  Watched(t, {}) /\ Unmodified(s, t)
  <1> DEFINE p == IP!ClearPending(s.pending, w, io_priority)
             fd == s.io[w].fd
             h == Unlisted(s.anfds[fd].head, w)
             o == [s.io EXCEPT ![w].active = FALSE]
             r == IoRec(s.kernel, [s.anfds EXCEPT ![fd].head = h], s.fdchanges, o, p)
  <1>0. /\ s \in IoState /\ s.anfds \in [Fd -> Anfd] /\ s.io \in [IoWatcher -> IoWatch]
        /\ IoVerified(s.pending) /\ IoLists(s)
    BY DEF Watched, IoState
  <1>1. IoVerified(p)
    BY <1>0, IoCleared
  <1>2. CASE ~s.io[w].active
    <2>1. t = [s EXCEPT !.pending = p]
      BY <1>2 DEF IoStopped
    <2> HIDE DEF p
    <2> QED
      BY <1>1, <2>1, PendingOnly
  <1>3. CASE s.io[w].active
    <2>1. t = FdChange(r, fd, {"EV_ANFD_REIFY"})
      <3> DEFINE q == [s EXCEPT !.pending = p]
                 a == [q.anfds EXCEPT ![fd].head = Unlisted(@, w)]
                 x == [q.io EXCEPT ![w].active = FALSE]
                 q1 == [q EXCEPT !.anfds = a]
                 q2 == [q1 EXCEPT !.io = x]
      <3>1. t = FdChange(q2, fd, {"EV_ANFD_REIFY"})
        BY <1>3, Zenon DEF IoStopped
      <3>2. q = IoRec(s.kernel, s.anfds, s.fdchanges, s.io, p)
        <4>1. s = IoRec(s.kernel, s.anfds, s.fdchanges, s.io, s.pending)
          BY <1>0, IoIsRec
        <4> HIDE DEF p
        <4> QED
          BY <4>1, Put_pending
      <3>3. q.anfds = s.anfds /\ q.io = s.io
        BY <3>2, IoFields
      <3>4. a = [s.anfds EXCEPT ![fd].head = h] /\ x = o
        <4> HIDE DEF q
        <4> QED
          BY <3>3
      <3> HIDE DEF q, a, x, p, o
      <3>5. q1 = IoRec(s.kernel, a, s.fdchanges, s.io, p)
        BY <3>2, Put_anfds
      <3> HIDE DEF q1
      <3>6. q2 = IoRec(s.kernel, a, s.fdchanges, x, p)
        BY <3>5, Put_io
      <3> QED
        BY <3>1, <3>4, <3>6
    <2>2. fd \in Fd /\ s.io[w] \in IoWatch
      BY <1>0 DEF IoWatch
    <2>3. s.anfds[fd].head \in Seq(IoWatcher)
      BY <1>0, <2>2 DEF Anfd
    <2>4. PICK k \in 1..Len(s.anfds[fd].head) : s.anfds[fd].head[k] = w
      BY <1>0, <1>3, Zenon DEF IoLists
    <2> DEFINE l == s.anfds[fd].head
    <2>5. /\ \A i \in 1..Len(l) : s.io[l[i]].active /\ s.io[l[i]].fd = fd
          /\ \A i, j \in 1..Len(l) : l[i] = l[j] => i = j
      <3>1. IoLists(s) /\ fd \in Fd /\ l = s.anfds[fd].head
        BY <1>0, <2>2
      <3> HIDE DEF fd, l
      <3> QED
        BY <3>1, ListOf
    <2>6. l \in Seq(IoWatcher) /\ k \in 1..Len(l) /\ l[k] = w /\ h = Unlisted(l, w)
      BY <2>3, <2>4
    <2> HIDE DEF l, h
    <2>7. /\ h \in Seq(IoWatcher) /\ Len(h) = Len(l) - 1
          /\ \A j \in 1..Len(h) : h[j] = l[IF j < k THEN j ELSE j + 1]
      <3>1. l \in Seq(IoWatcher)
        BY <2>6
      <3>2. k \in 1..Len(l)
        BY <2>6
      <3>3. l[k] = w /\ h = Unlisted(l, w)
        BY <2>6
      <3>4. \A i, j \in 1..Len(l) : l[i] = l[j] => i = j
        BY <2>5
      <3> QED
        BY ONLY <3>1, <3>2, <3>3, <3>4, UnlistedSeq
    <2>8. o \in [IoWatcher -> IoWatch] /\ o[w].active = FALSE /\ o[w].fd = fd
          /\ \A v \in IoWatcher \ {w} : o[v] = s.io[v]
      BY <1>0, <2>2, IoWatchActive DEF IoWatch
    <2>9. Len(l) \in Nat /\ \A i \in 1..Len(l) : l[i] \in IoWatcher
      BY <2>6, ElementOfSeq
    <2> HIDE DEF o, fd
    <2>10. Relists(s, fd, h, o)
      <3>1. ASSUME NEW i \in 1..Len(h)
            PROVE  /\ o[h[i]].active /\ o[h[i]].fd = fd
                   /\ \A j \in 1..Len(h) : h[i] = h[j] => i = j
        <4> DEFINE Was(j) == IF j < k THEN j ELSE j + 1
        <4>1. \A j \in 1..Len(h) : Was(j) \in 1..Len(l) /\ Was(j) # k /\ h[j] = l[Was(j)]
          BY <2>7, <2>9
        <4>2. \A j \in 1..Len(h) : Was(i) = Was(j) => i = j
          OBVIOUS
        <4> HIDE DEF Was
        <4>3. h[i] # w /\ h[i] \in IoWatcher
          BY <2>5, <2>6, <2>9, <4>1
        <4>4. o[h[i]] = s.io[h[i]] /\ s.io[h[i]].active /\ s.io[h[i]].fd = fd
          BY <2>5, <2>8, <4>1, <4>3
        <4> QED
          BY <2>5, <4>1, <4>2, <4>4
      <3>2. ASSUME NEW v \in IoWatcher, o[v].active
            PROVE  IF o[v].fd = fd THEN \E i \in 1..Len(h) : h[i] = v ELSE o[v] = s.io[v]
        <4>1. v # w /\ o[v] = s.io[v]
          BY <2>8, <3>2
        <4>2. ASSUME o[v].fd = fd PROVE \E i \in 1..Len(h) : h[i] = v
          <5>1. PICK j \in 1..Len(l) : l[j] = v
            BY <1>0, <3>2, <4>1, <4>2 DEF IoLists, l
          <5>2. j # k
            BY <2>6, <4>1, <5>1
          <5>3. CASE j < k
            <6>1. j \in 1..Len(h)
              BY <2>6, <2>7, <2>9, <5>3
            <6> QED
              BY <2>7, <5>1, <5>3, <6>1
          <5>4. CASE ~(j < k)
            <6>1. j - 1 \in 1..Len(h) /\ ~(j - 1 < k) /\ (j - 1) + 1 = j
              BY <2>6, <2>7, <2>9, <5>2, <5>4
            <6> QED
              BY <2>7, <5>1, <6>1
          <5> QED
            BY <5>3, <5>4
        <4> QED
          BY <4>1, <4>2
      <3>3. ASSUME NEW v \in IoWatcher, s.io[v].active, s.io[v].fd # fd PROVE o[v] = s.io[v]
        <4>1. v # w
          BY <3>3 DEF fd
        <4> QED
          BY <2>8, <4>1
      <3> QED
        BY <2>7, <2>8, <3>1, <3>2, <3>3 DEF Relists
    <2>11. {"EV_ANFD_REIFY"} \in SUBSET Reifies /\ {"EV_ANFD_REIFY"} # {} /\ fd \in Fd
      BY <2>2 DEF Reifies
    <2> HIDE DEF p, r
    <2>12. r = IoRec(s.kernel, [s.anfds EXCEPT ![fd].head = h], s.fdchanges, o, p)
      BY DEF r
    <2>13. ListChange(s, fd, h, o, p, {"EV_ANFD_REIFY"}, t)
      BY <1>1, <2>1, <2>10, <2>11, <2>12 DEF ListChange
    <2> QED
      BY <2>13, ListChanged
  <1> QED
    BY <1>2, <1>3

(* fd_kill                                                                 *)
LEMMA FdKilledWatched ==
  ASSUME NEW s, Watched(s, {}), NEW fd \in Fd, NEW t, t = FdKilled(s, fd)
  PROVE  Watched(t, {}) /\ Unmodified(s, t)
  <1> DEFINE l == s.anfds[fd].head
             p == KilledPending(s.pending, l)
             W == Watching(s, fd)
             o == [w \in IoWatcher |-> [s.io[w] EXCEPT !.active = @ /\ w \notin W]]
             r == IoRec(s.kernel, [s.anfds EXCEPT ![fd].head = <<>>], s.fdchanges, o, p)
  <1>0. /\ s \in IoState /\ s.anfds \in [Fd -> Anfd] /\ s.io \in [IoWatcher -> IoWatch]
        /\ IoVerified(s.pending) /\ IoLists(s)
    BY DEF Watched, IoState
  <1>1. CASE l = <<>>
    <2>1. t = s
      BY <1>1 DEF FdKilled
    <2> QED
      BY <2>1 DEF Unmodified
  <1>2. CASE l # <<>>
    <2>1. l \in Seq(IoWatcher)
      BY <1>0 DEF Anfd
    <2>2. IoVerified(p)
      <3> HIDE DEF l
      <3> QED
        BY <1>0, <2>1, IoKilled
    <2>3. t = FdChange(r, fd, {"EV_ANFD_REIFY"})
      <3> DEFINE q1 == [s EXCEPT !.pending = p]
                 q2 == [q1 EXCEPT !.io = o]
                 a == [q2.anfds EXCEPT ![fd].head = <<>>]
                 q3 == [q2 EXCEPT !.anfds = a]
      <3>1. t = FdChange(q3, fd, {"EV_ANFD_REIFY"})
        <4>1. s.anfds[fd].head # <<>>
          BY <1>2
        <4>2. t = FdChange([s EXCEPT !.pending = KilledPending(@, s.anfds[fd].head),
                          !.io = [w \in IoWatcher |-> [s.io[w] EXCEPT
                                    !.active = @ /\ w \notin Watching(s, fd)]],
                          !.anfds[fd].head = <<>>], fd, {"EV_ANFD_REIFY"})
          BY <4>1 DEF FdKilled
        <4> QED
          BY <4>2, Zenon
      <3>2. q1 = IoRec(s.kernel, s.anfds, s.fdchanges, s.io, p)
        <4>1. s = IoRec(s.kernel, s.anfds, s.fdchanges, s.io, s.pending)
          BY <1>0, IoIsRec
        <4> HIDE DEF p
        <4> QED
          BY <4>1, Put_pending
      <3> HIDE DEF q1, p, o
      <3>3. q2 = IoRec(s.kernel, s.anfds, s.fdchanges, o, p)
        BY <3>2, Put_io
      <3> HIDE DEF q2
      <3>4. q2.anfds = s.anfds
        BY <3>3 DEF IoRec
      <3>5. a = [s.anfds EXCEPT ![fd].head = <<>>]
        BY <3>4
      <3> HIDE DEF a
      <3>6. q3 = IoRec(s.kernel, a, s.fdchanges, o, p)
        BY <3>3, Put_anfds
      <3> QED
        BY <3>1, <3>5, <3>6 DEF r
    <2>4. \A i \in 1..Len(l) : s.io[l[i]].fd = fd
      <3>1. l = s.anfds[fd].head
        OBVIOUS
      <3> HIDE DEF l
      <3> QED
        BY <1>0, <3>1, ListOf
    <2>5. \A v \in W : s.io[v].fd = fd
      BY <2>4 DEF Watching
    <2>6. \A v \in IoWatcher : s.io[v].active /\ s.io[v].fd = fd => v \in W
      <3> SUFFICES ASSUME NEW v \in IoWatcher, s.io[v].active, s.io[v].fd = fd PROVE v \in W
        OBVIOUS
      <3>1. \E i \in 1..Len(l) : l[i] = v
        <4>1. l = s.anfds[s.io[v].fd].head
          OBVIOUS
        <4> HIDE DEF l
        <4> QED
          BY <1>0, <4>1, InItsList
      <3> QED
        BY <3>1 DEF Watching
    <2> HIDE DEF W
    <2>7. \A v \in IoWatcher : /\ o[v] \in IoWatch
                               /\ o[v].active => s.io[v].active /\ v \notin W
                               /\ o[v].fd = s.io[v].fd
                               /\ v \notin W => o[v] = s.io[v]
      <3>1. \A v \in IoWatcher : s.io[v] \in IoWatch
        BY <1>0
      <3>2. ASSUME NEW v \in IoWatcher
            PROVE  /\ o[v] \in IoWatch
                   /\ o[v].active => s.io[v].active /\ v \notin W
                   /\ o[v].fd = s.io[v].fd
                   /\ v \notin W => o[v] = s.io[v]
        <4> DEFINE b == s.io[v].active /\ v \notin W
        <4>1. o[v] = [fd |-> s.io[v].fd, events |-> s.io[v].events, active |-> b]
          BY <3>1, IoWatchActive
        <4>2. b \in BOOLEAN /\ (b <=> s.io[v].active /\ v \notin W)
          BY <3>1 DEF IoWatch
        <4> HIDE DEF o, b
        <4>3. o[v].active = b /\ o[v].fd = s.io[v].fd /\ o[v] \in IoWatch
          BY <3>1, <4>1, <4>2 DEF IoWatch
        <4>4. ASSUME v \notin W PROVE o[v] = s.io[v]
          <5>1. b = s.io[v].active
            BY <3>1, <4>2, <4>4 DEF IoWatch
          <5> QED
            BY <3>1, <4>1, <5>1 DEF IoWatch
        <4> QED
          BY <4>2, <4>3, <4>4
      <3> QED
        BY <3>2, Zenon
    <2>12. o = [v \in IoWatcher |-> o[v]]
      OBVIOUS
    <2> HIDE DEF o
    <2>13. o \in [IoWatcher -> IoWatch]
      <3>1. \A v \in IoWatcher : o[v] \in IoWatch
        BY <2>7
      <3> QED
        BY ONLY <2>12, <3>1
    <2>8. Relists(s, fd, <<>>, o)
      <3>1. ASSUME NEW v \in IoWatcher, o[v].active PROVE o[v].fd # fd /\ o[v] = s.io[v]
        BY <2>6, <2>7, <3>1
      <3>2. ASSUME NEW v \in IoWatcher, s.io[v].active, s.io[v].fd # fd PROVE o[v] = s.io[v]
        BY <2>5, <2>7, <3>2
      <3>3. <<>> \in Seq(IoWatcher) /\ Len(<<>>) = 0 /\ o \in [IoWatcher -> IoWatch]
        BY <2>13
      <3> QED
        BY <3>1, <3>2, <3>3 DEF Relists
    <2>9. {"EV_ANFD_REIFY"} \in SUBSET Reifies /\ {"EV_ANFD_REIFY"} # {}
      BY DEF Reifies
    <2> HIDE DEF p, r, l
    <2>10. r = IoRec(s.kernel, [s.anfds EXCEPT ![fd].head = <<>>], s.fdchanges, o, p)
      BY DEF r
    <2>11. ListChange(s, fd, <<>>, o, p, {"EV_ANFD_REIFY"}, t)
      BY <2>2, <2>3, <2>8, <2>9, <2>10 DEF ListChange
    <2> QED
      BY <2>11, ListChanged
  <1> QED
    BY <1>1, <1>2

(* ev_io_start                                                             *)
LEMMA IoStartedWatched ==
  ASSUME NEW s, Watched(s, {}), NEW w \in IoWatcher, ~s.io[w].active, NEW x \in IoWatch,
         x.active, NEW fd, fd = x.fd, NEW r,
         r = IoRec(s.kernel, [s.anfds EXCEPT ![fd].head = <<w>> \o @], s.fdchanges,
                   [s.io EXCEPT ![w] = x], s.pending),
         NEW flags \in SUBSET Reifies, flags # {}, NEW t, t = FdChange(r, fd, flags)
  PROVE  Watched(t, {}) /\ Unmodified(s, t) /\ Flagged(t, fd, flags)
  <1> DEFINE l == s.anfds[fd].head
             h == <<w>> \o l
             o == [s.io EXCEPT ![w] = x]
             p == s.pending
  <1>0. /\ s \in IoState /\ s.anfds \in [Fd -> Anfd] /\ s.io \in [IoWatcher -> IoWatch]
        /\ IoVerified(s.pending) /\ IoLists(s)
    BY DEF Watched, IoState
  <1>1. fd \in Fd
    BY DEF IoWatch
  <1>2. l \in Seq(IoWatcher)
    BY <1>0, <1>1 DEF Anfd
  <1>3. [s.anfds EXCEPT ![fd].head = <<w>> \o @] = [s.anfds EXCEPT ![fd].head = h]
    BY <1>0, <1>1
  <1>4. /\ \A i \in 1..Len(l) : s.io[l[i]].active /\ s.io[l[i]].fd = fd
        /\ \A i, j \in 1..Len(l) : l[i] = l[j] => i = j
    <2>1. l = s.anfds[fd].head
      OBVIOUS
    <2>2. IoLists(s)
      BY <1>0
    <2> HIDE DEF l
    <2> QED
      BY ONLY <2>2, <1>1, <2>1, ListOf
  <1>5. o \in [IoWatcher -> IoWatch] /\ o[w] = x /\ \A v \in IoWatcher \ {w} : o[v] = s.io[v]
    BY <1>0
  <1>9. \A v \in IoWatcher : s.io[v].active /\ s.io[v].fd = fd => \E i \in 1..Len(l) : l[i] = v
    <2> SUFFICES ASSUME NEW v \in IoWatcher, s.io[v].active, s.io[v].fd = fd
                 PROVE  \E i \in 1..Len(l) : l[i] = v
      OBVIOUS
    <2>1. l = s.anfds[s.io[v].fd].head
      OBVIOUS
    <2> HIDE DEF l
    <2> QED
      BY <1>0, <2>1, InItsList
  <1> HIDE DEF l
  <1>6. /\ Len(l) \in Nat /\ \A i \in 1..Len(l) : l[i] \in IoWatcher
        /\ h \in Seq(IoWatcher) /\ Len(h) = Len(l) + 1 /\ h[1] = w
        /\ \A i \in 1..Len(l) : h[i + 1] = l[i]
        /\ \A i \in 2..Len(h) : h[i] = l[i - 1]
    <2>1. <<w>> \in Seq(IoWatcher) /\ Len(<<w>>) = 1 /\ <<w>>[1] = w
      OBVIOUS
    <2> DEFINE b == <<w>>
    <2>2. b \in Seq(IoWatcher) /\ Len(b) = 1 /\ b[1] = w /\ h = b \o l
      BY <2>1
    <2> HIDE DEF b
    <2>3. /\ b \o l \in Seq(IoWatcher) /\ Len(b \o l) = Len(b) + Len(l)
          /\ \A i \in 1..(Len(b) + Len(l)) : (b \o l)[i] = IF i <= Len(b) THEN b[i] ELSE l[i - Len(b)]
      BY <1>2, <2>2, ConcatProperties
    <2>4. Len(l) \in Nat /\ \A i \in 1..Len(l) : l[i] \in IoWatcher
      BY <1>2, ElementOfSeq
    <2> HIDE DEF h
    <2> QED
      BY <2>2, <2>3, <2>4
  <1> HIDE DEF h, o
  <1>7. Relists(s, fd, h, o)
    <2>1. ASSUME NEW i \in 1..Len(h)
          PROVE  /\ o[h[i]].active /\ o[h[i]].fd = fd
                 /\ \A j \in 1..Len(h) : h[i] = h[j] => i = j
      <3>1. ASSUME NEW j \in 1..Len(l) PROVE l[j] # w /\ o[l[j]] = s.io[l[j]]
        BY <1>4, <1>5, <1>6
      <3>2. \A j \in 1..Len(h) : j = 1 \/ j - 1 \in 1..Len(l)
        BY <1>6
      <3>3. CASE i = 1
        <4>1. o[h[i]].active /\ o[h[i]].fd = fd
          BY <1>5, <1>6, <3>3
        <4>2. ASSUME NEW j \in 1..Len(h), h[i] = h[j] PROVE i = j
          <5> SUFFICES ASSUME j # 1 PROVE FALSE
            BY <3>3
          <5>1. j - 1 \in 1..Len(l) /\ h[j] = l[j - 1]
            BY <1>6, <3>2
          <5> QED
            BY <1>6, <3>1, <3>3, <4>2, <5>1
        <4> QED
          BY <4>1, <4>2
      <3>4. CASE i # 1
        <4>1. i - 1 \in 1..Len(l) /\ h[i] = l[i - 1]
          BY <1>6, <3>2, <3>4
        <4>2. o[h[i]].active /\ o[h[i]].fd = fd
          BY <1>4, <3>1, <4>1
        <4>3. ASSUME NEW j \in 1..Len(h), h[i] = h[j] PROVE i = j
          <5>1. j # 1
            BY <1>6, <3>1, <4>1, <4>3
          <5>2. j - 1 \in 1..Len(l) /\ h[j] = l[j - 1]
            BY <1>6, <3>2, <5>1
          <5>3. i - 1 = j - 1
            BY <1>4, <4>1, <4>3, <5>2
          <5> QED
            BY <5>3
        <4> QED
          BY <4>2, <4>3
      <3> QED
        BY <3>3, <3>4
    <2>2. ASSUME NEW v \in IoWatcher, o[v].active
          PROVE  IF o[v].fd = fd THEN \E i \in 1..Len(h) : h[i] = v ELSE o[v] = s.io[v]
      <3>1. CASE v = w
        <4>1. 1 \in 1..Len(h) /\ h[1] = v /\ o[v].fd = fd
          BY <1>5, <1>6, <3>1
        <4> QED
          BY <4>1
      <3>2. CASE v # w
        <4>1. o[v] = s.io[v]
          BY <1>5, <3>2
        <4>2. ASSUME o[v].fd = fd PROVE \E i \in 1..Len(h) : h[i] = v
          <5>1. PICK i \in 1..Len(l) : l[i] = v
            BY <1>9, <2>2, <4>1, <4>2
          <5>2. i + 1 \in 1..Len(h) /\ h[i + 1] = v
            BY <1>6, <5>1
          <5> QED
            BY <5>2
        <4> QED
          BY <4>1, <4>2
      <3> QED
        BY <3>1, <3>2
    <2>3. ASSUME NEW v \in IoWatcher, s.io[v].active, s.io[v].fd # fd PROVE o[v] = s.io[v]
      BY <1>5, <2>3
    <2> QED
      BY <1>5, <1>6, <2>1, <2>2, <2>3 DEF Relists
  <1>8. r = IoRec(s.kernel, [s.anfds EXCEPT ![fd].head = h], s.fdchanges, o, p) /\ IoVerified(p)
    BY <1>0, <1>3 DEF o
  <1> HIDE DEF p
  <1>10. ListChange(s, fd, h, o, p, flags, t)
    BY <1>1, <1>7, <1>8 DEF ListChange
  <1> QED
    BY <1>10, ListChanged

-----------------------------------------------------------------------------
(* Events                                                                  *)
LEMMA IoEventsFed ==
  ASSUME NEW s, Watched(s, {}), NEW fd \in Fd, NEW got, NEW t, t = FdEventNc(s, fd, got)
  PROVE  Watched(t, {}) /\ Unmodified(s, t) /\ t.anfds = s.anfds
  <1> DEFINE ws == s.anfds[fd].head
             N == Len(ws)
             Q == s.pending
             V == {x \in Queues(IoWatcher, IoPri, io_pending_w) : IoVerified(x)}
             FeedOne(x, n) == IF s.io[ws[n]].events \cap got = {} THEN x
                              ELSE IP!FeedEvent(x, ws[n], s.io[ws[n]].events \cap got, io_priority)
             Made(f) == f = [n \in 0..N |->
               IF n = 0 THEN Q
               ELSE IF s.io[ws[n]].events \cap got = {} THEN f[n - 1]
               ELSE IP!FeedEvent(f[n - 1], ws[n], s.io[ws[n]].events \cap got, io_priority)]
             events_fed == CHOOSE f : Made(f)
             step == [p \in V \X (1..N) |-> FeedOne(p[1], p[2])]
             Good == [n \in 0..N |-> V]
  <1>20. /\ s \in IoState /\ s.anfds \in [Fd -> Anfd] /\ s.io \in [IoWatcher -> IoWatch]
         /\ IoVerified(s.pending)
    BY DEF Watched, IoState
  <1>0. N \in Nat /\ \A n \in 1..N : ws[n] \in IoWatcher
    <2>1. ws \in Seq(IoWatcher)
      BY <1>20 DEF Anfd
    <2> QED
      BY <2>1, ElementOfSeq
  <1>1. t = [s EXCEPT !.pending = events_fed[N]]
    BY Zenon DEF FdEventNc
  <1>21. \A w \in IoWatcher : s.io[w].events \cap got \in SUBSET Received
    BY <1>20 DEF IoWatch, EV_RW, Received
  <1> HIDE DEF ws
  <1>2. ASSUME NEW n \in 1..N, NEW x \in V PROVE FeedOne(x, n) \in V
    <2>2. ws[n] \in IoWatcher /\ IoVerified(x) /\ s.io[ws[n]].events \cap got \in SUBSET Received
      BY <1>0, <1>21
    <2>3. IoVerified(FeedOne(x, n))
      BY <2>2, IoFed
    <2> HIDE DEF FeedOne
    <2> QED
      BY <2>3 DEF IoVerified, Verified
  <1>22. \A f : \A n : FeedOne(f[n - 1], n) =
                  IF s.io[ws[n]].events \cap got = {} THEN f[n - 1]
                  ELSE IP!FeedEvent(f[n - 1], ws[n], s.io[ws[n]].events \cap got, io_priority)
    BY Zenon
  <1>23. ASSUME NEW f, f = [n \in 0..N |-> IF n = 0 THEN Q ELSE FeedOne(f[n - 1], n)]
         PROVE  Made(f)
    BY <1>23, Zenon
  <1>24. ASSUME NEW f, Made(f)
         PROVE  f = [n \in 0..N |-> IF n = 0 THEN Q ELSE FeedOne(f[n - 1], n)]
    BY <1>24, Zenon
  <1> HIDE DEF FeedOne, Made
  <1>3. Q \in V
    BY <1>20 DEF IoVerified, Verified
  <1> HIDE DEF V, Q
  <1>4. Good \in [0..N -> SUBSET V] /\ Q \in Good[0] /\ \A n \in 0..N : Good[n] = V
    BY <1>0, <1>3
  <1>5. \A n \in 1..N : \A x \in V : step[<<x, n>>] = FeedOne(x, n)
    OBVIOUS
  <1> HIDE DEF Good, step, N
  <1>6. \A n \in 1..N : n - 1 \in 0..N /\ n \in 0..N
    BY <1>0
  <1>7. \A n \in 1..N : \A x \in Good[n - 1] : step[<<x, n>>] \in Good[n]
    <2> TAKE n \in 1..N
    <2>1. n - 1 \in 0..N /\ n \in 0..N /\ Good[n - 1] = V /\ Good[n] = V
      BY <1>4, <1>6
    <2> QED
      BY <1>2, <1>5, <2>1
  <1>14. Leads(N, V, Good, Q, step)
    BY <1>0, <1>4, <1>7 DEF Leads
  <1>8. PICK f \in [0..N -> V] : f[0] = Q /\ \A n \in 1..N : f[n] = step[<<f[n - 1], n>>]
    BY <1>14, Iteration
  <1>9. Made(f)
    <2>1. ASSUME NEW n \in 0..N PROVE f[n] = IF n = 0 THEN Q ELSE FeedOne(f[n - 1], n)
      <3>1. CASE n = 0
        BY <1>8, <3>1
      <3>2. CASE n # 0
        <4>1. n \in 1..N
          BY <1>0, <3>2
        <4>2. f[n - 1] \in V
          BY <1>6, <1>8, <4>1
        <4> QED
          BY <1>5, <1>8, <3>2, <4>1, <4>2
      <3> QED
        BY <3>1, <3>2
    <2>2. f = [n \in 0..N |-> IF n = 0 THEN Q ELSE FeedOne(f[n - 1], n)]
      BY <2>1
    <2> QED
      BY <1>23, <2>2
  <1>10. Made(events_fed)
    BY <1>9, Zenon
  <1> HIDE DEF events_fed
  <1>11. events_fed[0] = Q /\ \A n \in 1..N : events_fed[n] = FeedOne(events_fed[n - 1], n)
    BY <1>0, <1>6, <1>10, <1>24
  <1>12. \A n \in 1..N : events_fed[n - 1] \in Good[n - 1] =>
                           events_fed[n] = step[<<events_fed[n - 1], n>>]
    BY <1>4, <1>5, <1>6, <1>11
  <1>13. \A n \in 0..N : events_fed[n] \in Good[n]
    <2>1. Follows(N, events_fed, Good, Q, step)
      BY <1>11, <1>12 DEF Follows
    <2> QED
      BY <1>14, <2>1, IterationStays
  <1>15. events_fed[N] \in V
    BY <1>0, <1>4, <1>13
  <1>16. IoVerified(events_fed[N])
    BY <1>15 DEF V
  <1> QED
    BY <1>1, <1>16, PendingOnly

\* fd_event
LEMMA FdEventWatched ==
  ASSUME NEW s, Watched(s, {}), NEW fd \in Fd, NEW got, NEW t, t = FdEvent(s, fd, got)
  PROVE  /\ Watched(t, {}) /\ Unmodified(s, t) /\ t.anfds = s.anfds
         /\ t.pending # s.pending => s.anfds[fd].reify = {}
  <1>1. CASE s.anfds[fd].reify # {}
    <2>1. t = s
      BY <1>1 DEF FdEvent
    <2> QED
      BY <2>1 DEF Unmodified
  <1>2. CASE s.anfds[fd].reify = {}
    <2>1. t = FdEventNc(s, fd, got)
      BY <1>2 DEF FdEvent
    <2> QED
      BY <1>2, <2>1, IoEventsFed
  <1> QED
    BY <1>1, <1>2

-----------------------------------------------------------------------------
(* What the program does with files                                        *)
Files(f, op) ==
  /\ None \notin File
  /\ f \in [Fd -> File \cup {None}] /\ op \subseteq File
  /\ \A fd \in Fd : f[fd] # None => f[fd] \in op

\* Entries vanish with their files, and numbers stand for none
LEMMA EntriesGone ==
  ASSUME NEW s \in IoState, NEW t, NEW f, NEW g, NEW op, NEW un, NEW R, NEW Rs, NEW T,
         Files(f, op), Entered(s, f, op, un, R, T, {}),
         t.anfds = s.anfds, t.kernel \subseteq s.kernel,
         \A fd \in Fd : g[fd] # None =>
           /\ g[fd] = f[fd] /\ (fd \in R => fd \in Rs)
           /\ \A e \in s.kernel : e.file = f[fd] => e \in t.kernel
  PROVE  Entered(t, g, op, un, Rs, T, {})
  <1>0. \A e \in s.kernel : e.fd \in Fd /\ e.file \in File
    BY DEF IoState, EpollEntry
  <1>1. Origins(t, op, T)
    BY DEF Origins, Entered
  <1>2. Current(t, g, Rs, T)
    BY <1>0 DEF Current, Entered, Files
  <1>3. Asked(t, g, un, {})
    BY DEF Asked, Entered
  <1> QED
    BY <1>1, <1>2, <1>3 DEF Entered

LEMMA FileOpened ==
  ASSUME NEW s \in IoState, NEW f, NEW op, NEW un, NEW R, Files(f, op), Entered(s, f, op, un, R, {}, {}),
         NEW fd \in Fd, f[fd] = None, NEW x \in File, NEW Rs, R \subseteq Rs,
         (\E e \in s.kernel : e.fd = fd /\ e.file = x) => fd \in Rs
  PROVE  /\ Files([f EXCEPT ![fd] = x], op \cup {x})
         /\ Entered(s, [f EXCEPT ![fd] = x], op \cup {x}, un \cup {fd}, Rs, {}, {})
  <1> DEFINE g == [f EXCEPT ![fd] = x]
  <1>1. g \in [Fd -> File \cup {None}] /\ g[fd] = x /\ \A gd \in Fd \ {fd} : g[gd] = f[gd]
    BY DEF Files
  <1>2. \A e \in s.kernel : e.fd \in Fd /\ e.file \in op
    BY DEF IoState, EpollEntry, Entered, Origins
  <1> HIDE DEF g
  <1>3. Files(g, op \cup {x})
    BY <1>1 DEF Files
  <1>4. Origins(s, op \cup {x}, {})
    BY DEF Origins, Entered
  <1>5. Current(s, g, Rs, {})
    BY <1>1, <1>2 DEF Current, Entered
  <1>6. Asked(s, g, un \cup {fd}, {})
    BY <1>1 DEF Asked, Entered
  <1> QED
    BY <1>3, <1>4, <1>5, <1>6 DEF Entered, g

(* The entry of a number is made anew with a new generation, or as it was  *)
LEMMA EntryMade ==
  ASSUME NEW s \in IoState, NEW t, NEW f, NEW op, NEW un, NEW R, NEW T, NEW fd \in Fd,
         Files(f, op), Entered(s, f, op, un, R, T, {fd}), f[fd] # None,
         NEW mask, NEW gen,
         \/ T = {} /\ gen > s.anfds[fd].egen
         \/ /\ gen = s.anfds[fd].egen /\ \E e \in s.kernel : e.fd = fd /\ e.file = f[fd],
         gen \in Nat, \A e \in T : e.fd \in Fd /\ e.gen \in Nat,
         t.kernel = (s.kernel \ {e \in s.kernel : e.fd = fd /\ e.file = f[fd]}) \cup
                      {[fd |-> fd, file |-> f[fd], mask |-> mask, gen |-> gen]},
         \A gd \in Fd \ {fd} : t.anfds[gd] = s.anfds[gd],
         t.anfds[fd].emask = mask, t.anfds[fd].egen = gen, t.anfds[fd].events = mask
  PROVE  Entered(t, f, op, un, R, T, {})
  <1> DEFINE n == [fd |-> fd, file |-> f[fd], mask |-> mask, gen |-> gen]
  <1>0. /\ \A e \in s.kernel : e.fd \in Fd /\ e.gen \in Nat
        /\ n.fd = fd /\ n.file = f[fd] /\ n.mask = mask /\ n.gen = gen
        /\ n \in t.kernel
        /\ \A e \in t.kernel : e = n \/ (e \in s.kernel /\ ~(e.fd = fd /\ e.file = f[fd]))
        /\ \A e \in s.kernel : e \in t.kernel \/ (e.fd = fd /\ e.file = f[fd])
    BY DEF IoState, EpollEntry
  <1> HIDE DEF n
  <1>4. \A e \in t.kernel \cup T : e.fd \in Fd /\ e.gen \in Nat
    BY <1>0
  <1>1. Origins(t, op, T)
    <2>0. Origins(s, op, T)
      BY DEF Entered
    <2>1. f[fd] \in op
      BY DEF Files
    <2>2. s.anfds[fd].egen <= gen /\ s.anfds[fd].egen \in Nat
      BY DEF IoState, Anfd
    <2>5. \A gd \in Fd : /\ s.anfds[gd].egen \in Nat /\ t.anfds[gd].egen \in Nat
                          /\ s.anfds[gd].egen <= t.anfds[gd].egen
      <3> SUFFICES ASSUME NEW gd \in Fd
                   PROVE  /\ s.anfds[gd].egen \in Nat /\ t.anfds[gd].egen \in Nat
                          /\ s.anfds[gd].egen <= t.anfds[gd].egen
        OBVIOUS
      <3>1. s.anfds[gd].egen \in Nat
        BY DEF IoState, Anfd
      <3> QED
        BY <2>2, <3>1
    <2>3. ASSUME NEW e \in t.kernel \cup T
          PROVE  e.file \in op /\ e.gen <= t.anfds[e.fd].egen
      <3>1. CASE e = n
        BY <1>0, <2>1, <2>2, <3>1
      <3>2. CASE e # n
        <4>1. e \in s.kernel \cup T
          BY <1>0, <3>2
        <4>2. e.file \in op /\ e.gen <= s.anfds[e.fd].egen /\ e.fd \in Fd /\ e.gen \in Nat
          BY <1>4, <2>0, <4>1 DEF Origins
        <4>3. s.anfds[e.fd].egen <= t.anfds[e.fd].egen
          BY <2>2, <2>5, <4>2
        <4>4. s.anfds[e.fd].egen \in Nat /\ t.anfds[e.fd].egen \in Nat
          BY <2>5, <4>2
        <4> QED
          BY <4>2, <4>3, <4>4
      <3> QED
        BY <3>1, <3>2
    <2> QED
      BY <2>3 DEF Origins
  <1>5. ASSUME fd \notin R, NEW b \in s.kernel \cup T, b.fd = fd, b.gen = gen
        PROVE  b.file = f[fd]
    <2>0. Origins(s, op, T) /\ s.anfds[fd].egen \in Nat
      BY DEF Entered, IoState, Anfd
    <2>1. CASE T = {} /\ gen > s.anfds[fd].egen
      <3>1. b.gen <= s.anfds[fd].egen
        BY <1>5, <2>0 DEF Origins
      <3> QED
        BY <1>5, <2>0, <2>1, <3>1
    <2>2. CASE gen = s.anfds[fd].egen /\ \E x \in s.kernel : x.fd = fd /\ x.file = f[fd]
      <3>1. PICK x \in s.kernel : x.fd = fd /\ x.file = f[fd]
        BY <2>2
      <3>2. x.gen = gen /\ \A d \in s.kernel \cup T : d.fd = fd /\ d.gen = gen => d.file = f[fd]
        BY <1>5, <2>2, <3>1 DEF Entered, Current
      <3> QED
        BY <1>5, <3>2
    <2> QED
      BY <2>1, <2>2
  <1>2. Current(t, f, R, T)
    <2> SUFFICES ASSUME NEW e \in t.kernel, e.file = f[e.fd], e.fd \notin R
                 PROVE  /\ e.gen = t.anfds[e.fd].egen /\ e.mask = t.anfds[e.fd].emask
                        /\ \A d \in t.kernel \cup T : d.fd = e.fd /\ d.gen = e.gen => d.file = e.file
      BY DEF Current
    <2>1. CASE e = n
      <3>1. ASSUME NEW d \in t.kernel \cup T, d.fd = e.fd, d.gen = e.gen PROVE d.file = e.file
        <4>1. d = n \/ d \in s.kernel \cup T
          BY <1>0
        <4> QED
          BY <1>0, <1>5, <2>1, <3>1, <4>1
      <3> QED
        BY <1>0, <2>1, <3>1
    <2>2. CASE e # n
      <3>1. e \in s.kernel /\ e.fd \in Fd /\ e.fd # fd
        BY <1>0, <2>2
      <3>2. /\ e.gen = s.anfds[e.fd].egen /\ e.mask = s.anfds[e.fd].emask
            /\ \A d \in s.kernel \cup T : d.fd = e.fd /\ d.gen = e.gen => d.file = e.file
        BY <3>1 DEF Entered, Current
      <3>3. t.anfds[e.fd] = s.anfds[e.fd]
        BY <3>1
      <3>4. ASSUME NEW d \in t.kernel \cup T, d.fd = e.fd PROVE d \in s.kernel \cup T
        BY <1>0, <3>1, <3>4
      <3> QED
        BY <3>2, <3>3, <3>4
    <2> QED
      BY <2>1, <2>2
  <1>3. Asked(t, f, un, {})
    BY <1>0 DEF Asked, Entered
  <1> QED
    BY <1>1, <1>2, <1>3 DEF Entered

\* An entry that asked for nothing any more is taken out
LEMMA EntryTaken ==
  ASSUME NEW s \in IoState, NEW t, NEW f, NEW op, NEW un, NEW R, NEW T, NEW fd \in Fd,
         Files(f, op), Entered(s, f, op, un, R, T, {fd}),
         t.kernel \subseteq s.kernel,
         \A e \in t.kernel : ~(e.fd = fd /\ e.file = f[fd]),
         \A e \in s.kernel : e \in t.kernel \/ (e.fd = fd /\ e.file = f[fd]),
         \A gd \in Fd \ {fd} : t.anfds[gd] = s.anfds[gd],
         t.anfds[fd].egen = s.anfds[fd].egen, t.anfds[fd].events = {},
         \A e \in T : e.fd \in Fd
  PROVE  Entered(t, f, op, un, R, T, {})
  <1>0. \A e \in s.kernel \cup T : e.fd \in Fd
    BY DEF IoState, EpollEntry
  <1>1. Origins(t, op, T)
    <2>0. Origins(s, op, T)
      BY DEF Entered
    <2>1. \A gd \in Fd : t.anfds[gd].egen = s.anfds[gd].egen
      OBVIOUS
    <2> QED
      BY <1>0, <2>0, <2>1 DEF Origins
  <1>2. Current(t, f, R, T)
    BY <1>0 DEF Current, Entered
  <1>3. Asked(t, f, un, {})
    BY <1>0 DEF Asked, Entered
  <1> QED
    BY <1>1, <1>2, <1>3 DEF Entered

\* What libev knows of an entry changes where there is none, or not at all
LEMMA EntryKnown ==
  ASSUME NEW s \in IoState, NEW t, NEW f, NEW op, NEW un, NEW R, NEW T, NEW fd \in Fd,
         Files(f, op), Entered(s, f, op, un, R, T, {fd}), \A e \in T : e.fd \in Fd,
         t.kernel = s.kernel,
         \A gd \in Fd \ {fd} : t.anfds[gd] = s.anfds[gd],
         t.anfds[fd].egen = s.anfds[fd].egen,
         \/ f[fd] = None
         \/ /\ t.anfds[fd].emask = s.anfds[fd].emask
            /\ t.anfds[fd].events # {} => t.anfds[fd].emask = t.anfds[fd].events /\
                 \E e \in s.kernel : e.fd = fd /\ e.file = f[fd]
  PROVE  Entered(t, f, op, un, R, T, {})
  <1>0. /\ \A e \in s.kernel \cup T : e.fd \in Fd
        /\ \A e \in s.kernel : e.file # None
    BY DEF IoState, EpollEntry, Files
  <1>1. Origins(t, op, T)
    <2>0. Origins(s, op, T)
      BY DEF Entered
    <2>1. \A gd \in Fd : t.anfds[gd].egen = s.anfds[gd].egen
      OBVIOUS
    <2> QED
      BY <1>0, <2>0, <2>1 DEF Origins
  <1>2. Current(t, f, R, T)
    BY <1>0 DEF Current, Entered
  <1>3. Asked(t, f, un, {})
    BY <1>0 DEF Asked, Entered
  <1> QED
    BY <1>1, <1>2, <1>3 DEF Entered

-----------------------------------------------------------------------------
LEMMA AnfdEvents ==
  ASSUME NEW a \in Anfd, NEW v
  PROVE  [a EXCEPT !.events = v] = [head |-> a.head, events |-> v, reify |-> a.reify,
                                    emask |-> a.emask, egen |-> a.egen]
  BY DEF Anfd
LEMMA AnfdEmask ==
  ASSUME NEW a \in Anfd, NEW v
  PROVE  [a EXCEPT !.emask = v] = [head |-> a.head, events |-> a.events, reify |-> a.reify,
                                   emask |-> v, egen |-> a.egen]
  BY DEF Anfd
LEMMA AnfdEgen ==
  ASSUME NEW a \in Anfd, NEW v
  PROVE  [a EXCEPT !.egen = v] = [head |-> a.head, events |-> a.events, reify |-> a.reify,
                                  emask |-> a.emask, egen |-> v]
  BY DEF Anfd

\* The state of one number replaced
WithAnfd(as, fd, a) == [as EXCEPT ![fd] = a]
WithMask(s, fd, mask) == [s EXCEPT !.anfds[fd].emask = mask]
WithGen(s, fd, gen) == [s EXCEPT !.anfds[fd].egen = gen]

(* The parts that Watched is about are the same                            *)
Alike(s, t) ==
  /\ t.fdchanges = s.fdchanges /\ t.io = s.io /\ t.pending = s.pending
  /\ \A gd \in Fd : /\ t.anfds[gd].head = s.anfds[gd].head
                     /\ t.anfds[gd].events = s.anfds[gd].events
                     /\ t.anfds[gd].reify = s.anfds[gd].reify

LEMMA SameWatched ==
  ASSUME NEW X, NEW s, Watched(s, X), NEW t, t \in IoState, Alike(s, t)
  PROVE  Watched(t, X)
  <1>1. IoLists(t)
    <2>1. \A v \in IoWatcher : s.io[v].fd \in Fd
      BY DEF IoState, IoWatch, Watched
    <2>2. IoLists(s) /\ t.io = s.io /\ \A gd \in Fd : t.anfds[gd].head = s.anfds[gd].head
      BY DEF Watched, Alike
    <2> QED
      BY <2>1, <2>2, SameListed
  <1>2. ChangesOnce(t)
    BY DEF Watched, ChangesOnce, Alike
  <1>3. Known(t, X)
    <2>1. ASSUME NEW gd \in Fd PROVE Wanted(t, gd) = Wanted(s, gd)
      <3>1. t.anfds[gd].head = s.anfds[gd].head /\ t.io = s.io
        BY DEF Alike
      <3> QED
        BY <3>1, Zenon DEF Wanted
    <2> QED
      BY <2>1 DEF Watched, Known, Alike
  <1>4. IoVerified(t.pending)
    BY DEF Watched, Alike
  <1> QED
    BY <1>1, <1>2, <1>3, <1>4 DEF Watched

\* libev changes what it knows of the kernel's entry
Noted(s, fd, ks, mask, gen, a, t) ==
  /\ Watched(s, {}) /\ fd \in Fd /\ ks \in SUBSET EpollEntry
  /\ mask \in SUBSET EV_RW /\ gen \in Nat
  /\ a = [head |-> s.anfds[fd].head, events |-> s.anfds[fd].events,
           reify |-> s.anfds[fd].reify, emask |-> mask, egen |-> gen]
  /\ t = IoRec(ks, WithAnfd(s.anfds, fd, a), s.fdchanges, s.io, s.pending)
LEMMA EntryNoted ==
  ASSUME NEW s, NEW fd, NEW ks, NEW mask, NEW gen, NEW a, NEW t, Noted(s, fd, ks, mask, gen, a, t)
  PROVE  /\ Watched(t, {}) /\ t.kernel = ks /\ t.pending = s.pending
         /\ \A gd \in Fd \ {fd} : t.anfds[gd] = s.anfds[gd]
         /\ t.anfds[fd] = a
  <1> USE DEF Noted
  <1>0. /\ s \in IoState /\ s.anfds \in [Fd -> Anfd] /\ s.io \in [IoWatcher -> IoWatch]
    BY DEF Watched, IoState
  <1>1. s.anfds[fd] \in Anfd
    BY <1>0
  <1>2. a \in Anfd /\ a.head = s.anfds[fd].head /\ a.events = s.anfds[fd].events
        /\ a.reify = s.anfds[fd].reify
    BY <1>1 DEF Anfd
  <1>3. /\ t.kernel = ks /\ t.fdchanges = s.fdchanges /\ t.io = s.io /\ t.pending = s.pending
        /\ t.anfds = WithAnfd(s.anfds, fd, a)
    BY DEF IoRec
  <1>4. /\ t.anfds \in [Fd -> Anfd] /\ t.anfds[fd] = a
        /\ \A gd \in Fd \ {fd} : t.anfds[gd] = s.anfds[gd]
    BY <1>0, <1>2, <1>3 DEF WithAnfd
  <1>5. \A gd \in Fd : /\ t.anfds[gd].head = s.anfds[gd].head
                       /\ t.anfds[gd].events = s.anfds[gd].events
                       /\ t.anfds[gd].reify = s.anfds[gd].reify
    BY <1>2, <1>4
  <1>6. t \in IoState
    BY <1>0, <1>3, <1>4 DEF IoState, IoRec
  <1>7. Alike(s, t)
    BY <1>3, <1>5 DEF Alike
  <1>8. Watched(t, {})
    <2>1. Watched(s, {})
      OBVIOUS
    <2> QED
      BY ONLY <2>1, <1>6, <1>7, SameWatched
  <1> QED
    BY <1>3, <1>4, <1>8

LEMMA NotedRec ==
  ASSUME NEW s \in IoState, NEW fd \in Fd, NEW mask
  PROVE  WithMask(s, fd, mask)
           = IoRec(s.kernel,
                   WithAnfd(s.anfds, fd, [head |-> s.anfds[fd].head, events |-> s.anfds[fd].events,
                      reify |-> s.anfds[fd].reify, emask |-> mask, egen |-> s.anfds[fd].egen]),
                   s.fdchanges, s.io, s.pending)
  <1> DEFINE a == [head |-> s.anfds[fd].head, events |-> s.anfds[fd].events,
                   reify |-> s.anfds[fd].reify, emask |-> mask, egen |-> s.anfds[fd].egen]
  <1>1. s.anfds[fd] \in Anfd
    BY DEF IoState
  <1>2. [s.anfds[fd] EXCEPT !.emask = mask] = a
    BY <1>1, AnfdEmask, Zenon
  <1>3. WithMask(s, fd, mask)
          = [s EXCEPT !.anfds = WithAnfd(s.anfds, fd, [s.anfds[fd] EXCEPT !.emask = mask])]
    BY DEF WithAnfd, WithMask
  <1>4. s = IoRec(s.kernel, s.anfds, s.fdchanges, s.io, s.pending)
    BY IoIsRec
  <1> HIDE DEF a
  <1>5. WithMask(s, fd, mask) = [s EXCEPT !.anfds = WithAnfd(s.anfds, fd, a)]
    BY <1>2, <1>3, Zenon
  <1>6. [s EXCEPT !.anfds = WithAnfd(s.anfds, fd, a)]
          = IoRec(s.kernel, WithAnfd(s.anfds, fd, a), s.fdchanges, s.io, s.pending)
    BY <1>4, Put_anfds
  <1> QED
    BY <1>5, <1>6, Zenon DEF a

LEMMA NewGenRec ==
  ASSUME NEW k, NEW a \in [Fd -> Anfd], NEW c, NEW o, NEW p, NEW s, s = IoRec(k, a, c, o, p),
         NEW fd \in Fd, NEW gen, NEW b,
         b = [head |-> a[fd].head, events |-> a[fd].events, reify |-> a[fd].reify,
              emask |-> a[fd].emask, egen |-> gen]
  PROVE  WithGen(s, fd, gen) = IoRec(k, WithAnfd(a, fd, b), c, o, p)
  <1>1. [a[fd] EXCEPT !.egen = gen] = b
    BY AnfdEgen, Zenon
  <1>2. s.anfds = a
    BY DEF IoRec
  <1>3. WithGen(s, fd, gen)
          = [s EXCEPT !.anfds = WithAnfd(s.anfds, fd, [s.anfds[fd] EXCEPT !.egen = gen])]
    BY DEF WithAnfd, WithGen
  <1>4. WithGen(s, fd, gen) = [s EXCEPT !.anfds = WithAnfd(a, fd, b)]
    BY ONLY <1>1, <1>2, <1>3, Zenon
  <1>5. [s EXCEPT !.anfds = WithAnfd(a, fd, b)] = IoRec(k, WithAnfd(a, fd, b), c, o, p)
    BY ONLY s = IoRec(k, a, c, o, p), Put_anfds
  <1> QED
    BY <1>4, <1>5, Zenon

LEMMA ControlledRec ==
  ASSUME NEW k, NEW a, NEW c, NEW o, NEW p, NEW s, s = IoRec(k, a, c, o, p),
         NEW fd, NEW mask, NEW gen
  PROVE  Controlled(s, fd, mask, gen)
           = IoRec((k \ {e \in k : e.fd = fd /\ e.file = file[fd]}) \cup
                     (IF mask = {} THEN {}
                      ELSE {[fd |-> fd, file |-> file[fd], mask |-> mask, gen |-> gen]}),
                   a, c, o, p)
  <1> DEFINE ks == (k \ {e \in k : e.fd = fd /\ e.file = file[fd]}) \cup
                     (IF mask = {} THEN {}
                      ELSE {[fd |-> fd, file |-> file[fd], mask |-> mask, gen |-> gen]})
  <1>1. s.kernel = k
    BY DEF IoRec
  <1>2. Controlled(s, fd, mask, gen) = [s EXCEPT !.kernel = ks]
    BY <1>1, Zenon DEF Controlled, Entry
  <1> HIDE DEF ks
  <1>3. [s EXCEPT !.kernel = ks] = IoRec(ks, a, c, o, p)
    BY Put_kernel
  <1> QED
    BY <1>2, <1>3, Zenon DEF ks

\* The answer of epoll_ctl
LEMMA ErrorCases ==
  ASSUME NEW s, NEW fd, NEW op, file[fd] # None
  PROVE  /\ Error(s, fd, op) \in {"none", "EEXIST", "ENOENT"}
         /\ Error(s, fd, op) = "EEXIST" => Entry(s, fd) # {}
         /\ Error(s, fd, op) = "none" /\ op # "ADD" => Entry(s, fd) # {}
  <1>1. CASE op = "ADD" /\ Entry(s, fd) # {}
    <2>1. Error(s, fd, op) = "EEXIST"
      BY <1>1, Zenon DEF Error
    <2> QED
      BY <1>1, <2>1
  <1>2. CASE op # "ADD" /\ Entry(s, fd) = {}
    <2>1. Error(s, fd, op) = "ENOENT"
      BY <1>2, Zenon DEF Error
    <2> QED
      BY <1>2, <2>1
  <1>3. CASE (op = "ADD" /\ Entry(s, fd) = {}) \/ (op # "ADD" /\ Entry(s, fd) # {})
    <2>1. Error(s, fd, op) = "none"
      BY <1>3, Zenon DEF Error
    <2> QED
      BY <1>3, <2>1
  <1> QED
    BY <1>1, <1>2, <1>3

LEMMA ErrorChanging ==
  ASSUME NEW s, NEW fd, NEW op, op # "ADD"
  PROVE  Error(s, fd, op) = "none" <=> file[fd] # None /\ Entry(s, fd) # {}
  <1>1. CASE file[fd] = None
    <2>1. Error(s, fd, op) = "EBADF"
      BY <1>1, Zenon DEF Error
    <2> QED
      BY <1>1, <2>1
  <1>2. CASE file[fd] # None /\ Entry(s, fd) = {}
    <2>1. Error(s, fd, op) = "ENOENT"
      BY <1>2, Zenon DEF Error
    <2> QED
      BY <1>2, <2>1
  <1>3. CASE file[fd] # None /\ Entry(s, fd) # {}
    <2>1. Error(s, fd, op) = "none"
      BY <1>3, Zenon DEF Error
    <2> QED
      BY <1>3, <2>1
  <1> QED
    BY <1>1, <1>2, <1>3

LEMMA ErrorNone ==
  ASSUME NEW s, NEW fd, NEW op, file[fd] = None
  PROVE  Error(s, fd, op) = "EBADF"
  BY Zenon DEF Error

(* epoll_modify, of a number whose events were just set                    *)
LEMMA EpollModified ==
  ASSUME NEW s, Watched(s, {}), NEW fd \in Fd, NEW oev, NEW nev, nev = s.anfds[fd].events,
         Files(file, opened), Entered(s, file, opened, unset, returned, {}, {fd}),
         NEW t, t = EpollModify(s, fd, oev, nev)
  PROVE  Watched(t, {}) /\ Entered(t, file, opened, unset, returned, {}, {})
  <1> DEFINE q == WithMask(s, fd, nev)
             gen == s.anfds[fd].egen + 1
             done == Controlled(WithGen(q, fd, gen), fd, nev, gen)
             first == Error(s, fd, IF oev # {} THEN "MOD" ELSE "ADD")
  <1>0. s \in IoState /\ s.anfds[fd] \in Anfd /\ nev \in SUBSET EV_RW /\ gen \in Nat
    <2>1. s \in IoState /\ s.anfds[fd] \in Anfd
      BY DEF Watched, IoState
    <2> QED
      BY <2>1 DEF Anfd
  <1>1. t = IF nev = {} THEN s
            ELSE CASE first \in {"none", "ENOENT"} -> done
                   [] first = "EEXIST" -> IF s.anfds[fd].emask = nev THEN q ELSE done
                   [] OTHER -> FdKilled(q, fd)
    BY Zenon DEF EpollModify, WithMask, WithGen
  <1> DEFINE a == [head |-> s.anfds[fd].head, events |-> s.anfds[fd].events,
                   reify |-> s.anfds[fd].reify, emask |-> nev, egen |-> s.anfds[fd].egen]
             b == [head |-> s.anfds[fd].head, events |-> s.anfds[fd].events,
                   reify |-> s.anfds[fd].reify, emask |-> nev, egen |-> gen]
             one == {[fd |-> fd, file |-> file[fd], mask |-> nev, gen |-> gen]}
             ks == (s.kernel \ {e \in s.kernel : e.fd = fd /\ e.file = file[fd]}) \cup one
  <1>2. q = IoRec(s.kernel, WithAnfd(s.anfds, fd, a), s.fdchanges, s.io, s.pending)
    BY <1>0, NotedRec
  <1>3. CASE nev = {}
    <2>1. t = s
      BY <1>1, <1>3
    <2>2. Entered(s, file, opened, unset, returned, {}, {})
      BY <1>0, <1>3, EntryKnown
    <2> QED
      BY <2>1, <2>2
  <1>4. ASSUME nev # {}, file[fd] # None
        PROVE  Watched(done, {}) /\ Entered(done, file, opened, unset, returned, {}, {})
    <2>1. done = IoRec(ks, WithAnfd(s.anfds, fd, b), s.fdchanges, s.io, s.pending)
      <3> DEFINE d == WithAnfd(s.anfds, fd, a)
                 r == WithGen(q, fd, gen)
      <3>1. d \in [Fd -> Anfd] /\ d[fd] = a
        BY <1>0 DEF IoState, Anfd, WithAnfd
      <3>2. a.head = s.anfds[fd].head /\ a.events = s.anfds[fd].events
            /\ a.reify = s.anfds[fd].reify /\ a.emask = nev
        OBVIOUS
      <3>3. WithAnfd(d, fd, b) = WithAnfd(s.anfds, fd, b)
        BY <1>0 DEF IoState, WithAnfd
      <3>4. b = [head |-> a.head, events |-> a.events, reify |-> a.reify, emask |-> a.emask, egen |-> gen]
        BY <3>2
      <3> HIDE DEF q, a, b, gen, d
      <3>5. r = IoRec(s.kernel, WithAnfd(d, fd, b), s.fdchanges, s.io, s.pending)
        <4>1. q = IoRec(s.kernel, d, s.fdchanges, s.io, s.pending)
          BY <1>2 DEF d
        <4>2. b = [head |-> d[fd].head, events |-> d[fd].events, reify |-> d[fd].reify,
                   emask |-> d[fd].emask, egen |-> gen]
          BY <3>1, <3>4
        <4> QED
          BY ONLY <3>1, <4>1, <4>2, fd \in Fd, NewGenRec DEF r
      <3>6. r = IoRec(s.kernel, WithAnfd(s.anfds, fd, b), s.fdchanges, s.io, s.pending)
        BY <3>3, <3>5, Zenon
      <3> HIDE DEF r
      <3> DEFINE ms == (s.kernel \ {e \in s.kernel : e.fd = fd /\ e.file = file[fd]}) \cup
                     (IF nev = {} THEN {}
                      ELSE {[fd |-> fd, file |-> file[fd], mask |-> nev, gen |-> gen]})
      <3>7. Controlled(r, fd, nev, gen)
              = IoRec(ms, WithAnfd(s.anfds, fd, b), s.fdchanges, s.io, s.pending)
        BY <3>6, ControlledRec
      <3>8. ms = ks
        BY <1>4, Zenon
      <3> HIDE DEF ms, ks
      <3> QED
        BY <3>7, <3>8, Zenon DEF r
    <2>2. ks \in SUBSET EpollEntry
      BY <1>0, <1>4 DEF IoState, EpollEntry, Files
    <2>7. b = [head |-> s.anfds[fd].head, events |-> s.anfds[fd].events,
               reify |-> s.anfds[fd].reify, emask |-> nev, egen |-> gen]
      OBVIOUS
    <2> HIDE DEF done, ks, b, gen
    <2>3. /\ Watched(done, {}) /\ done.kernel = ks
          /\ \A gd \in Fd \ {fd} : done.anfds[gd] = s.anfds[gd]
          /\ done.anfds[fd] = b
      <3>1. Noted(s, fd, ks, nev, gen, b, done)
        BY <1>0, <2>1, <2>2, <2>7 DEF Noted
      <3> QED
        BY <3>1, EntryNoted
    <2>4. b.emask = nev /\ b.egen = gen /\ b.events = nev
      BY <2>7
    <2>5. gen > s.anfds[fd].egen
      BY <1>0 DEF Anfd, gen
    <2>6. Entered(done, file, opened, unset, returned, {}, {})
      <3>1. done.kernel = (s.kernel \ {e \in s.kernel : e.fd = fd /\ e.file = file[fd]}) \cup
                            {[fd |-> fd, file |-> file[fd], mask |-> nev, gen |-> gen]}
        BY <2>3 DEF ks
      <3>2. gen > s.anfds[fd].egen /\ gen \in Nat
        BY <1>0, <2>5
      <3>3. /\ \A gd \in Fd \ {fd} : done.anfds[gd] = s.anfds[gd]
            /\ done.anfds[fd].emask = nev /\ done.anfds[fd].egen = gen
            /\ done.anfds[fd].events = nev
        BY <2>3, <2>4
      <3>4. /\ s \in IoState /\ fd \in Fd /\ Files(file, opened) /\ file[fd] # None
            /\ Entered(s, file, opened, unset, returned, {}, {fd})
        BY <1>0, <1>4
      <3> QED
        BY ONLY <3>1, <3>2, <3>3, <3>4, EntryMade
    <2> QED
      BY <2>3, <2>6
  <1>5. Watched(q, {}) /\ q.kernel = s.kernel /\ q.anfds[fd] = a
        /\ \A gd \in Fd \ {fd} : q.anfds[gd] = s.anfds[gd]
    <2>1. s.kernel \in SUBSET EpollEntry /\ s.anfds[fd].egen \in Nat
      BY <1>0 DEF IoState, Anfd
    <2>2. a = [head |-> s.anfds[fd].head, events |-> s.anfds[fd].events,
               reify |-> s.anfds[fd].reify, emask |-> nev, egen |-> s.anfds[fd].egen]
      OBVIOUS
    <2> HIDE DEF q, a
    <2> QED
      <3>1. Noted(s, fd, s.kernel, nev, s.anfds[fd].egen, a, q)
        BY <1>0, <1>2, <2>1, <2>2 DEF Noted
      <3> QED
        BY <3>1, EntryNoted
  <1>6. CASE nev # {} /\ file[fd] # None
    <2>1. CASE first = "EEXIST" /\ s.anfds[fd].emask = nev
      <3>1. t = q
        BY <1>1, <1>6, <2>1
      <3>2. \E e \in s.kernel : e.fd = fd /\ e.file = file[fd]
        BY <1>6, <2>1, ErrorCases DEF Entry
      <3>3. Entered(q, file, opened, unset, returned, {}, {})
        <4>1. a.emask = s.anfds[fd].emask /\ a.egen = s.anfds[fd].egen /\ a.emask = a.events
          BY <2>1
        <4> HIDE DEF q, a, first
        <4> QED
          BY <1>0, <1>5, <3>2, <4>1, EntryKnown
      <3> QED
        BY <1>5, <3>1, <3>3
    <2>2. CASE ~(first = "EEXIST" /\ s.anfds[fd].emask = nev)
      <3>1. first \in {"none", "EEXIST", "ENOENT"}
        BY <1>6, ErrorCases
      <3> HIDE DEF first, done, q
      <3>2. t = done
        BY <1>1, <1>6, <2>2, <3>1
      <3> QED
        BY <1>4, <1>6, <3>2
    <2> QED
      BY <2>1, <2>2
  <1>7. CASE nev # {} /\ file[fd] = None
    <2>1. first = "EBADF"
      BY <1>7, ErrorNone
    <2> HIDE DEF first, done, q
    <2>2. t = FdKilled(q, fd)
      BY <1>1, <1>7, <2>1
    <2>3. Watched(t, {}) /\ Unmodified(q, t)
      BY <1>5, <2>2, FdKilledWatched
    <2>4. Entered(q, file, opened, unset, returned, {}, {})
      BY <1>0, <1>5, <1>7, EntryKnown
    <2>5. q \in IoState
      BY <1>5 DEF Watched
    <2> QED
      BY <2>3, <2>4, <2>5, EntriesKept
  <1> QED
    BY <1>3, <1>6, <1>7

-----------------------------------------------------------------------------
(* fd_reify                                                                *)
\* The first number leaves the changes
FirstTaken(s, fd, a, t) ==
  /\ Watched(s, {}) /\ s.fdchanges # <<>> /\ fd = Head(s.fdchanges)
  /\ a = [head |-> s.anfds[fd].head, events |-> Wanted(s, fd), reify |-> {},
          emask |-> s.anfds[fd].emask, egen |-> s.anfds[fd].egen]
  /\ t = IoRec(s.kernel, WithAnfd(s.anfds, fd, a), Tail(s.fdchanges), s.io, s.pending)

LEMMA WantedRW ==
  ASSUME NEW s \in IoState, NEW fd \in Fd
  PROVE  Wanted(s, fd) \in SUBSET EV_RW
  <1>1. s.anfds[fd].head \in Seq(IoWatcher)
    BY DEF IoState, Anfd
  <1>2. \A i \in 1..Len(s.anfds[fd].head) : s.anfds[fd].head[i] \in IoWatcher
    BY <1>1, ElementOfSeq
  <1>3. \A w \in IoWatcher : s.io[w].events \in SUBSET EV_RW
    BY DEF IoState, IoWatch
  <1> QED
    BY <1>2, <1>3 DEF Wanted

LEMMA FirstTakenWatched ==
  ASSUME NEW s, NEW fd, NEW a, NEW t, FirstTaken(s, fd, a, t)
  PROVE  /\ Watched(t, {}) /\ t.kernel = s.kernel /\ fd \in Fd
         /\ \A gd \in Fd \ {fd} : t.anfds[gd] = s.anfds[gd]
         /\ t.anfds[fd] = a
  <1>0. /\ s \in IoState /\ s.anfds \in [Fd -> Anfd] /\ s.fdchanges \in Seq(Fd)
        /\ s.fdchanges # <<>> /\ fd = Head(s.fdchanges) /\ IoLists(s) /\ ChangesOnce(s)
        /\ IoVerified(s.pending) /\ Known(s, {})
    BY DEF FirstTaken, Watched, IoState
  <1> DEFINE c == s.fdchanges
             d == Tail(s.fdchanges)
  <1>1. /\ Len(c) \in Nat /\ Len(c) >= 1 /\ c[1] = fd /\ \A i \in 1..Len(c) : c[i] \in Fd
        /\ d \in Seq(Fd) /\ Len(d) = Len(c) - 1 /\ \A i \in 1..Len(d) : d[i] = c[i + 1]
    <2>1. Len(c) \in Nat /\ \A i \in 1..Len(c) : c[i] \in Fd
      BY <1>0, ElementOfSeq
    <2>2. Len(c) >= 1 /\ c[1] = fd
      BY <1>0, <2>1, EmptySeq
    <2>3. d \in Seq(Fd) /\ Len(d) = Len(c) - 1 /\ \A i \in 1..Len(d) : d[i] = c[i + 1]
      BY <1>0, HeadTailProperties
    <2> QED
      BY <2>1, <2>2, <2>3
  <1>2. fd \in Fd
    BY <1>1
  <1>3. /\ a = [head |-> s.anfds[fd].head, events |-> Wanted(s, fd), reify |-> {},
                emask |-> s.anfds[fd].emask, egen |-> s.anfds[fd].egen]
        /\ t = IoRec(s.kernel, WithAnfd(s.anfds, fd, a), d, s.io, s.pending)
    BY DEF FirstTaken
  <1>4. a \in Anfd /\ a.head = s.anfds[fd].head /\ a.events = Wanted(s, fd) /\ a.reify = {}
    <2>1. s.anfds[fd] \in Anfd
      BY <1>0, <1>2
    <2>2. Wanted(s, fd) \in SUBSET EV_RW
      BY <1>0, <1>2, WantedRW
    <2> QED
      BY <1>3, <2>1, <2>2 DEF Anfd
  <1>5. /\ t.kernel = s.kernel /\ t.fdchanges = d /\ t.io = s.io /\ t.pending = s.pending
        /\ t.anfds = WithAnfd(s.anfds, fd, a)
    BY <1>3 DEF IoRec
  <1>6. /\ t.anfds \in [Fd -> Anfd] /\ t.anfds[fd] = a
        /\ \A gd \in Fd \ {fd} : t.anfds[gd] = s.anfds[gd]
    BY <1>0, <1>2, <1>4, <1>5 DEF WithAnfd
  <1>7. t \in IoState
    BY <1>0, <1>1, <1>3, <1>5, <1>6 DEF IoState, IoRec
  <1>8. IoLists(t)
    <2>1. \A v \in IoWatcher : s.io[v].fd \in Fd
      BY <1>0 DEF IoState, IoWatch
    <2>2. \A gd \in Fd : t.anfds[gd].head = s.anfds[gd].head
      BY <1>4, <1>6
    <2> QED
      BY <1>0, <1>5, <2>1, <2>2, SameListed
  <1>9. ChangesOnce(t)
    <2> HIDE DEF c, d
    <2>0. /\ \A i, j \in 1..Len(c) : c[i] = c[j] => i = j
          /\ \A gd \in Fd : s.anfds[gd].reify # {} <=> \E i \in 1..Len(c) : c[i] = gd
      BY <1>0 DEF ChangesOnce, c
    <2>1. \A i \in 1..Len(d) : i + 1 \in 1..Len(c) /\ d[i] = c[i + 1]
      BY <1>1
    <2>2. \A i, j \in 1..Len(d) : d[i] = d[j] => i = j
      <3> SUFFICES ASSUME NEW i \in 1..Len(d), NEW j \in 1..Len(d), d[i] = d[j] PROVE i = j
        OBVIOUS
      <3>1. c[i + 1] = c[j + 1] /\ i + 1 \in 1..Len(c) /\ j + 1 \in 1..Len(c)
        BY <2>1
      <3>2. i + 1 = j + 1
        BY <2>0, <3>1
      <3> QED
        BY <3>2
    <2>3. ASSUME NEW gd \in Fd PROVE t.anfds[gd].reify # {} <=> \E i \in 1..Len(d) : d[i] = gd
      <3>1. CASE gd = fd
        <4>1. ASSUME NEW i \in 1..Len(d), d[i] = fd PROVE FALSE
          <5>1. i + 1 \in 1..Len(c) /\ c[i + 1] = c[1] /\ 1 \in 1..Len(c)
            BY <1>1, <2>1, <4>1
          <5>2. i + 1 = 1
            BY <2>0, <5>1
          <5> QED
            BY <5>2
        <4> QED
          BY <1>4, <1>6, <3>1, <4>1
      <3>2. CASE gd # fd
        <4>1. t.anfds[gd].reify = s.anfds[gd].reify
          BY <1>6, <3>2
        <4>2. (\E i \in 1..Len(c) : c[i] = gd) => \E i \in 1..Len(d) : d[i] = gd
          <5> SUFFICES ASSUME NEW i \in 1..Len(c), c[i] = gd PROVE \E k \in 1..Len(d) : d[k] = gd
            OBVIOUS
          <5>1. i - 1 \in 1..Len(d) /\ d[i - 1] = c[(i - 1) + 1] /\ (i - 1) + 1 = i
            BY <1>1, <3>2
          <5> QED
            BY <5>1
        <4>3. (\E i \in 1..Len(d) : d[i] = gd) => \E i \in 1..Len(c) : c[i] = gd
          BY <2>1
        <4> QED
          BY <2>0, <4>1, <4>2, <4>3
      <3> QED
        BY <3>1, <3>2
    <2> QED
      BY <1>5, <2>2, <2>3 DEF ChangesOnce
  <1>10. Known(t, {})
    <2>1. ASSUME NEW gd \in Fd PROVE Wanted(t, gd) = Wanted(s, gd)
      <3>1. t.anfds[gd].head = s.anfds[gd].head /\ t.io = s.io
        BY <1>4, <1>5, <1>6
      <3> QED
        BY <3>1, Zenon DEF Wanted
    <2> QED
      BY <1>0, <1>2, <1>4, <1>6, <2>1 DEF Known
  <1> QED
    BY <1>0, <1>2, <1>5, <1>6, <1>7, <1>8, <1>9, <1>10 DEF Watched

LEMMA EntriesBut ==
  ASSUME NEW s \in IoState, NEW t, NEW f, NEW op, NEW un, NEW R, NEW T, NEW fd \in Fd,
         Entered(s, f, op, un, R, T, {}), \A e \in T : e.fd \in Fd,
         t.kernel = s.kernel, \A gd \in Fd \ {fd} : t.anfds[gd] = s.anfds[gd],
         t.anfds[fd].egen = s.anfds[fd].egen, t.anfds[fd].emask = s.anfds[fd].emask
  PROVE  Entered(t, f, op, un, R, T, {fd})
  <1>0. \A e \in s.kernel \cup T : e.fd \in Fd
    BY DEF IoState, EpollEntry
  <1>1. \A gd \in Fd : t.anfds[gd].egen = s.anfds[gd].egen /\ t.anfds[gd].emask = s.anfds[gd].emask
    OBVIOUS
  <1>2. Origins(t, op, T)
    BY <1>0, <1>1 DEF Origins, Entered
  <1>3. Current(t, f, R, T)
    BY <1>0, <1>1 DEF Current, Entered
  <1>4. Asked(t, f, un, {fd})
    BY DEF Asked, Entered
  <1> QED
    BY <1>2, <1>3, <1>4 DEF Entered

LEMMA ReifiedWatched ==
  ASSUME NEW s, Watched(s, {}), s.fdchanges # <<>>, Files(file, opened),
         Entered(s, file, opened, unset, returned, {}, {}), NEW fd, fd = Head(s.fdchanges),
         NEW t, t = Reified(s, fd)
  PROVE  Watched(t, {}) /\ Entered(t, file, opened, unset, returned, {}, {})
  <1> DEFINE new == Wanted(s, fd)
             old == s.anfds[fd].events
             a == [head |-> s.anfds[fd].head, events |-> new, reify |-> {},
                   emask |-> s.anfds[fd].emask, egen |-> s.anfds[fd].egen]
             r == IoRec(s.kernel, WithAnfd(s.anfds, fd, a), Tail(s.fdchanges), s.io, s.pending)
  <1>0. s \in IoState /\ fd \in Fd /\ s.anfds[fd] \in Anfd
    <2>1. s.fdchanges \in Seq(Fd) /\ s \in IoState
      BY DEF Watched, IoState
    <2> QED
      BY <2>1, HeadTailProperties DEF IoState
  <1>1. [s EXCEPT !.anfds[fd].reify = {}, !.anfds[fd].events = new, !.fdchanges = Tail(@)] = r
    <2> DEFINE b == [s.anfds[fd] EXCEPT !.reify = {}]
               c == [b EXCEPT !.events = new]
               s1 == [s EXCEPT !.anfds = WithAnfd(s.anfds, fd, b)]
               s2 == [s1 EXCEPT !.anfds = WithAnfd(s1.anfds, fd, c)]
               rest == Tail(s.fdchanges)
               s3 == [s2 EXCEPT !.fdchanges = rest]
    <2>1. [s EXCEPT !.anfds[fd].reify = {}, !.anfds[fd].events = new, !.fdchanges = Tail(@)] = s3
      BY <1>0 DEF WithAnfd, IoState
    <2>2. b \in Anfd /\ b.head = s.anfds[fd].head /\ b.reify = {} /\ b.emask = s.anfds[fd].emask
          /\ b.egen = s.anfds[fd].egen
      BY <1>0 DEF Anfd
    <2>3. c = a
      <3> HIDE DEF b, a
      <3>1. c = [head |-> b.head, events |-> new, reify |-> b.reify, emask |-> b.emask,
                 egen |-> b.egen]
        BY <2>2, AnfdEvents, Zenon
      <3> QED
        BY ONLY <2>2, <3>1 DEF a
    <2> HIDE DEF b, c, a, new
    <2>4. s = IoRec(s.kernel, s.anfds, s.fdchanges, s.io, s.pending)
      BY <1>0, IoIsRec
    <2>5. s1 = IoRec(s.kernel, WithAnfd(s.anfds, fd, b), s.fdchanges, s.io, s.pending)
      BY <2>4, Put_anfds
    <2>6. WithAnfd(s1.anfds, fd, c) = WithAnfd(s.anfds, fd, a)
      <3> HIDE DEF s1
      <3>1. s1.anfds = WithAnfd(s.anfds, fd, b)
        BY ONLY <2>5 DEF IoRec
      <3> QED
        BY <1>0, <2>3, <3>1 DEF WithAnfd, IoState
    <2> HIDE DEF s1
    <2>7. s2 = IoRec(s.kernel, WithAnfd(s.anfds, fd, a), s.fdchanges, s.io, s.pending)
      BY <2>5, <2>6, Put_anfds
    <2> HIDE DEF s2
    <2> HIDE DEF rest
    <2>8. s3 = IoRec(s.kernel, WithAnfd(s.anfds, fd, a), rest, s.io, s.pending)
      BY ONLY <2>7, Put_fdchanges
    <2> QED
      BY <2>1, <2>8, Zenon DEF r, rest
  <1>2. t = IF old # new \/ "EV__IOFDSET" \in s.anfds[fd].reify
              THEN EpollModify(r, fd, old, new) ELSE r
    <2> DEFINE q == [s EXCEPT !.anfds[fd].reify = {}, !.anfds[fd].events = new, !.fdchanges = Tail(@)]
    <2>1. Reified(s, fd) = IF old # new \/ "EV__IOFDSET" \in s.anfds[fd].reify
                             THEN EpollModify(q, fd, old, new) ELSE q
      BY Zenon DEF Reified
    <2>2. q = r
      BY <1>1
    <2> HIDE DEF q, r
    <2> QED
      BY ONLY <2>1, <2>2, t = Reified(s, fd)
  <1>3. FirstTaken(s, fd, a, r)
    BY DEF FirstTaken
  <1>4. a.events = new /\ a.emask = s.anfds[fd].emask /\ a.egen = s.anfds[fd].egen
        /\ a.reify = {}
    OBVIOUS
  <1> HIDE DEF r, a, new, old
  <1>5. /\ Watched(r, {}) /\ r.kernel = s.kernel
        /\ \A gd \in Fd \ {fd} : r.anfds[gd] = s.anfds[gd]
        /\ r.anfds[fd] = a
    BY <1>3, FirstTakenWatched
  <1>6. Entered(r, file, opened, unset, returned, {}, {fd}) /\ r \in IoState
    BY <1>0, <1>4, <1>5, EntriesBut DEF Watched
  <1>7. CASE old # new \/ "EV__IOFDSET" \in s.anfds[fd].reify
    <2>1. t = EpollModify(r, fd, old, new) /\ new = r.anfds[fd].events
      BY <1>2, <1>4, <1>5, <1>7
    <2> QED
      BY <1>0, <1>5, <1>6, <2>1, EpollModified
  <1>8. CASE old = new /\ "EV__IOFDSET" \notin s.anfds[fd].reify
    <2>1. t = r
      BY <1>2, <1>8
    <2>2. Asked(s, file, unset, {})
      BY DEF Entered
    <2>3. Asked(r, file, unset, {})
      BY <1>0, <1>4, <1>5, <1>8, <2>2 DEF Asked, old
    <2>4. Entered(r, file, opened, unset, returned, {}, {})
      BY <1>6, <2>3 DEF Entered
    <2> QED
      BY <1>5, <2>1, <2>4
  <1> QED
    BY <1>7, <1>8

-----------------------------------------------------------------------------
(* fd_rearm_all                                                            *)
\* t is s with an empty epoll set, what is known of the numbers, and more
\* changes at the end
Rearmed(s, b, q, t) ==
  /\ b \in [Fd -> Anfd]
  /\ \A fd \in Fd :
       /\ b[fd].head = s.anfds[fd].head /\ b[fd].events = {} /\ b[fd].egen = s.anfds[fd].egen
       /\ IF s.anfds[fd].events # {} THEN b[fd].reify # {} ELSE b[fd].reify = s.anfds[fd].reify
  /\ q \in Seq(Fd) /\ \A i, j \in 1..Len(q) : q[i] = q[j] => i = j
  /\ \A fd \in Fd : s.anfds[fd].events # {} /\ s.anfds[fd].reify = {}
                      <=> \E i \in 1..Len(q) : q[i] = fd
  /\ t = IoRec({}, b, s.fdchanges \o q, s.io, s.pending)

LEMMA RearmedWatched ==
  ASSUME NEW s, Watched(s, {}), NEW b, NEW q, NEW t, Rearmed(s, b, q, t),
         NEW f, NEW op, NEW un, NEW R
  PROVE  Watched(t, {}) /\ Entered(t, f, op, un, R, {}, {})
  <1>0. /\ s \in IoState /\ s.anfds \in [Fd -> Anfd] /\ s.fdchanges \in Seq(Fd)
        /\ IoLists(s) /\ ChangesOnce(s) /\ IoVerified(s.pending) /\ Known(s, {})
    BY DEF Watched, IoState
  <1> DEFINE c == s.fdchanges
             d == c \o q
  <1>1. t = IoRec({}, b, d, s.io, s.pending) /\ b \in [Fd -> Anfd] /\ q \in Seq(Fd)
    BY DEF Rearmed
  <1>2. /\ \A fd \in Fd :
             /\ b[fd].head = s.anfds[fd].head /\ b[fd].events = {}
             /\ s.anfds[fd].events # {} => b[fd].reify # {}
             /\ s.anfds[fd].events = {} => b[fd].reify = s.anfds[fd].reify
        /\ \A i, j \in 1..Len(q) : q[i] = q[j] => i = j
        /\ \A fd \in Fd : s.anfds[fd].events # {} /\ s.anfds[fd].reify = {}
                            <=> \E i \in 1..Len(q) : q[i] = fd
    BY DEF Rearmed
  <1>3. /\ Len(c) \in Nat /\ Len(q) \in Nat /\ d \in Seq(Fd) /\ Len(d) = Len(c) + Len(q)
        /\ \A i \in 1..Len(c) : d[i] = c[i] /\ c[i] \in Fd
        /\ \A i \in 1..Len(q) : d[i + Len(c)] = q[i] /\ q[i] \in Fd
    <2>1. /\ d \in Seq(Fd) /\ Len(d) = Len(c) + Len(q)
          /\ \A i \in 1..(Len(c) + Len(q)) : d[i] = IF i <= Len(c) THEN c[i] ELSE q[i - Len(c)]
      BY <1>0, <1>1, ConcatProperties
    <2>2. /\ Len(c) \in Nat /\ Len(q) \in Nat
          /\ \A i \in 1..Len(c) : c[i] \in Fd
          /\ \A i \in 1..Len(q) : q[i] \in Fd
      BY <1>0, <1>1, ElementOfSeq
    <2> HIDE DEF c, d
    <2>3. \A i \in 1..Len(c) : i \in 1..(Len(c) + Len(q)) /\ i <= Len(c)
      BY <2>2
    <2>4. \A i \in 1..Len(q) : /\ i + Len(c) \in 1..(Len(c) + Len(q))
                               /\ ~(i + Len(c) <= Len(c)) /\ (i + Len(c)) - Len(c) = i
      BY <2>2
    <2>5. \A i \in 1..Len(c) : d[i] = c[i]
      BY <2>1, <2>3
    <2>6. ASSUME NEW i \in 1..Len(q) PROVE d[i + Len(c)] = q[i]
      BY <2>1, <2>4
    <2> QED
      BY <2>1, <2>2, <2>5, <2>6
  <1> HIDE DEF d
  <1>4. /\ t.kernel = {} /\ t.anfds = b /\ t.fdchanges = d /\ t.io = s.io /\ t.pending = s.pending
    BY <1>1 DEF IoRec
  <1>5. t \in IoState
    BY <1>0, <1>1, <1>3, <1>4 DEF IoState, IoRec
  <1>6. IoLists(t)
    <2>1. \A v \in IoWatcher : s.io[v].fd \in Fd
      BY <1>0 DEF IoState, IoWatch
    <2>2. \A gd \in Fd : t.anfds[gd].head = s.anfds[gd].head
      BY <1>2, <1>4
    <2> QED
      BY <1>0, <1>4, <2>1, <2>2, SameListed
  <1>7. ChangesOnce(t)
    <2>0. /\ \A i, j \in 1..Len(c) : c[i] = c[j] => i = j
          /\ \A gd \in Fd : s.anfds[gd].reify # {} <=> \E i \in 1..Len(c) : c[i] = gd
      BY <1>0 DEF ChangesOnce
    <2> HIDE DEF c
    <2>1. ASSUME NEW i \in 1..Len(d)
          PROVE  i \in 1..Len(c) \/ (i - Len(c) \in 1..Len(q) /\ i = (i - Len(c)) + Len(c))
      BY <1>3
    <2>2. ASSUME NEW i \in 1..Len(c), NEW j \in 1..Len(q) PROVE c[i] # q[j]
      <3> SUFFICES ASSUME c[i] = q[j] PROVE FALSE
        OBVIOUS
      <3>1. c[i] \in Fd
        BY <1>3
      <3> QED
        BY <1>2, <2>0, <2>2, <3>1
    <2>3. ASSUME NEW i \in 1..Len(d), NEW j \in 1..Len(d), d[i] = d[j] PROVE i = j
      <3>1. CASE i \in 1..Len(c) /\ j \in 1..Len(c)
        BY <1>3, <2>0, <2>3, <3>1
      <3>2. CASE i - Len(c) \in 1..Len(q) /\ i = (i - Len(c)) + Len(c)
        <4>1. d[i] = q[i - Len(c)]
          BY <1>3, <3>2
        <4>2. CASE j \in 1..Len(c)
          BY <1>3, <2>2, <2>3, <3>2, <4>1, <4>2
        <4>3. CASE j - Len(c) \in 1..Len(q) /\ j = (j - Len(c)) + Len(c)
          <5>1. d[j] = q[j - Len(c)]
            BY <1>3, <4>3
          <5>2. i - Len(c) = j - Len(c)
            BY <1>2, <2>3, <3>2, <4>1, <4>3, <5>1
          <5> QED
            BY <3>2, <4>3, <5>2
        <4> QED
          BY <2>1, <4>2, <4>3
      <3>3. CASE i \in 1..Len(c) /\ j - Len(c) \in 1..Len(q) /\ j = (j - Len(c)) + Len(c)
        <4>1. d[j] = q[j - Len(c)]
          BY <1>3, <3>3
        <4> QED
          BY <1>3, <2>2, <2>3, <3>3, <4>1
      <3> QED
        BY <2>1, <3>1, <3>2, <3>3
    <2>4. ASSUME NEW gd \in Fd PROVE b[gd].reify # {} <=> \E i \in 1..Len(d) : d[i] = gd
      <3>1. (\E i \in 1..Len(c) : c[i] = gd) => \E i \in 1..Len(d) : d[i] = gd
        <4> SUFFICES ASSUME NEW i \in 1..Len(c), c[i] = gd PROVE \E j \in 1..Len(d) : d[j] = gd
          OBVIOUS
        <4>1. i \in 1..Len(d) /\ d[i] = gd
          BY <1>3
        <4> QED
          BY <4>1
      <3>2. (\E i \in 1..Len(q) : q[i] = gd) => \E i \in 1..Len(d) : d[i] = gd
        <4> SUFFICES ASSUME NEW i \in 1..Len(q), q[i] = gd PROVE \E j \in 1..Len(d) : d[j] = gd
          OBVIOUS
        <4>1. i + Len(c) \in 1..Len(d) /\ d[i + Len(c)] = gd
          BY <1>3
        <4> QED
          BY <4>1
      <3>3. (\E i \in 1..Len(d) : d[i] = gd) =>
               (\E i \in 1..Len(c) : c[i] = gd) \/ (\E i \in 1..Len(q) : q[i] = gd)
        <4> SUFFICES ASSUME NEW i \in 1..Len(d), d[i] = gd
                     PROVE  (\E j \in 1..Len(c) : c[j] = gd) \/ (\E j \in 1..Len(q) : q[j] = gd)
          OBVIOUS
        <4>1. CASE i \in 1..Len(c)
          BY <1>3, <4>1
        <4>2. CASE i - Len(c) \in 1..Len(q) /\ i = (i - Len(c)) + Len(c)
          <5>1. q[i - Len(c)] = gd
            BY <1>3, <4>2
          <5> QED
            BY <4>2, <5>1
        <4> QED
          BY <2>1, <4>1, <4>2
      <3>4. /\ s.anfds[gd].events # {} => b[gd].reify # {}
            /\ s.anfds[gd].events = {} => b[gd].reify = s.anfds[gd].reify
        BY <1>2
      <3>5. s.anfds[gd].reify # {} <=> \E i \in 1..Len(c) : c[i] = gd
        BY <2>0
      <3>6. s.anfds[gd].events # {} /\ s.anfds[gd].reify = {} <=> \E i \in 1..Len(q) : q[i] = gd
        BY <1>2
      <3> QED
        BY ONLY <3>1, <3>2, <3>3, <3>4, <3>5, <3>6
    <2> QED
      BY <1>4, <2>3, <2>4 DEF ChangesOnce
  <1>8. Known(t, {})
    <2>1. ASSUME NEW gd \in Fd PROVE Wanted(t, gd) = Wanted(s, gd)
      <3>1. t.anfds[gd].head = s.anfds[gd].head /\ t.io = s.io
        BY <1>2, <1>4
      <3> QED
        BY <3>1, Zenon DEF Wanted
    <2>2. ASSUME NEW gd \in Fd, b[gd].reify = {} PROVE b[gd].events = Wanted(s, gd)
      <3>1. s.anfds[gd].events = {} /\ s.anfds[gd].reify = {} /\ b[gd].events = {}
        BY <1>2, <2>2
      <3> QED
        BY <1>0, <3>1 DEF Known
    <2> QED
      BY <1>4, <2>1, <2>2 DEF Known
  <1>9. Entered(t, f, op, un, R, {}, {})
    BY <1>2, <1>4 DEF Entered, Origins, Current, Asked
  <1> QED
    BY <1>0, <1>4, <1>5, <1>6, <1>7, <1>8, <1>9 DEF Watched

\* epoll_fork
LEMMA EpollForkedWatched ==
  ASSUME IsFiniteSet(Fd), NEW s, Watched(s, {}), NEW t, t = EpollForked(s),
         NEW f, NEW op, NEW un, NEW R
  PROVE  Watched(t, {}) /\ Entered(t, f, op, un, R, {}, {})
  <1>0. s \in IoState /\ s.anfds \in [Fd -> Anfd]
    BY DEF Watched, IoState
  <1> DEFINE armed == {fd \in Fd : s.anfds[fd].events # {}}
             both == {"EV__IOFDSET", "EV_ANFD_REIFY"}
             B(fd) == [s.anfds[fd] EXCEPT !.events = {}, !.emask = {}, !.reify = @ \cup both]
             b == [fd \in Fd |-> IF fd \notin armed THEN s.anfds[fd] ELSE B(fd)]
             fresh == {fd \in armed : s.anfds[fd].reify = {}}
             q == SetToSeq(fresh)
             c == s.fdchanges \o q
  <1>1. t = IoRec({}, b, c, s.io, s.pending)
    <2> DEFINE r == [s EXCEPT !.kernel = {}]
    <2>1. r.anfds = s.anfds /\ r.fdchanges = s.fdchanges
          /\ r = IoRec({}, s.anfds, s.fdchanges, s.io, s.pending)
      <3>1. s = IoRec(s.kernel, s.anfds, s.fdchanges, s.io, s.pending)
        BY <1>0, IoIsRec
      <3>2. r = IoRec({}, s.anfds, s.fdchanges, s.io, s.pending)
        <4> DEFINE none == {}
        <4>1. r = [s EXCEPT !.kernel = none]
          OBVIOUS
        <4> HIDE DEF none, r
        <4>2. [s EXCEPT !.kernel = none] = IoRec(none, s.anfds, s.fdchanges, s.io, s.pending)
          BY ONLY <3>1, Put_kernel
        <4> QED
          BY ONLY <4>1, <4>2, Zenon DEF none
      <3> HIDE DEF r
      <3> QED
        BY ONLY <3>2 DEF IoRec
    <2>2. t = RearmAll(r)
      BY Zenon DEF EpollForked
    <2> HIDE DEF r
    <2> DEFINE r1 == [r EXCEPT !.anfds = b]
    <2>3. RearmAll(r) = [r1 EXCEPT !.fdchanges = c]
      BY ONLY <2>1 DEF RearmAll
    <2> HIDE DEF b, c
    <2>4. r1 = IoRec({}, b, s.fdchanges, s.io, s.pending)
      BY ONLY <2>1, Put_anfds
    <2> HIDE DEF r1
    <2>5. [r1 EXCEPT !.fdchanges = c] = IoRec({}, b, c, s.io, s.pending)
      BY ONLY <2>4, Put_fdchanges
    <2> QED
      BY <2>2, <2>3, <2>5, Zenon
  <1>2. ASSUME NEW fd \in Fd
        PROVE  /\ B(fd) \in Anfd /\ B(fd).head = s.anfds[fd].head /\ B(fd).events = {}
               /\ B(fd).egen = s.anfds[fd].egen /\ B(fd).reify # {}
    <2>1. s.anfds[fd] \in Anfd
      BY <1>0
    <2> QED
      BY <2>1 DEF Anfd, Reifies
  <1> HIDE DEF B
  <1>3. /\ b \in [Fd -> Anfd]
        /\ \A fd \in Fd :
             /\ b[fd].head = s.anfds[fd].head /\ b[fd].events = {} /\ b[fd].egen = s.anfds[fd].egen
             /\ IF s.anfds[fd].events # {} THEN b[fd].reify # {} ELSE b[fd].reify = s.anfds[fd].reify
    BY <1>0, <1>2
  <1>4. /\ q \in Seq(fresh) /\ \A i, j \in 1..Len(q) : q[i] = q[j] => i = j
        /\ \A fd \in fresh : \E i \in 1..Len(q) : q[i] = fd
        /\ \A i \in 1..Len(q) : q[i] \in fresh
    <2>1. IsFiniteSet(fresh)
      BY FS_Subset
    <2> HIDE DEF fresh
    <2> QED
      BY <2>1, SetAsSeq
  <1> HIDE DEF q, b
  <1>5. q \in Seq(Fd)
    BY <1>4
  <1>6. \A fd \in Fd : s.anfds[fd].events # {} /\ s.anfds[fd].reify = {}
                            <=> \E i \in 1..Len(q) : q[i] = fd
    BY <1>4
  <1>7. Rearmed(s, b, q, t)
    BY <1>1, <1>3, <1>4, <1>5, <1>6 DEF Rearmed
  <1> QED
    BY ONLY <1>7, Watched(s, {}), RearmedWatched

-----------------------------------------------------------------------------
(* The inductive invariant of descriptors.  epoll_wait tells of entries    *)
(* that may be gone when they are looked at: they keep the generation that *)
(* belongs to their file.                                                  *)
ToldOf(es) == {x.entry : x \in es}
IoInv ==
  /\ Watched(IoHere, {}) /\ Files(file, opened)
  /\ Entered(IoHere, file, opened, unset, returned, ToldOf(epoll_events), {})
  /\ epoll_events \subseteq [entry : EpollEntry, got : (SUBSET EV_RW) \ {{}}]
  /\ epoll_phase # "poll" => epoll_events = {}

LEMMA Became ==
  ASSUME NEW y \in IoState, IoBecomes(y)
  PROVE  IoHere' = y
  <1>1. y = IoRec(y.kernel, y.anfds, y.fdchanges, y.io, y.pending)
    BY IoIsRec
  <1>2. /\ kernel' = y.kernel /\ anfds' = y.anfds /\ fdchanges' = y.fdchanges
        /\ io' = y.io /\ io_pending' = y.pending
    BY DEF IoBecomes
  <1>3. IoHere' = IoRec(kernel', anfds', fdchanges', io', io_pending')
    BY DEF IoHere, IoRec
  <1> QED
    BY ONLY <1>1, <1>2, <1>3, Zenon

LEMMA HereSame ==
  ASSUME UNCHANGED <<kernel, anfds, fdchanges, io, io_pending>>
  PROVE  IoHere' = IoHere
  BY DEF IoHere

LEMMA HereFields ==
  /\ IoHere.kernel = kernel /\ IoHere.anfds = anfds /\ IoHere.fdchanges = fdchanges
  /\ IoHere.io = io /\ IoHere.pending = io_pending
  /\ IoHere = IoRec(kernel, anfds, fdchanges, io, io_pending)
  BY DEF IoHere, IoRec

LEMMA EntriesFewer ==
  ASSUME NEW s, NEW f, NEW op, NEW un, NEW R, NEW T, NEW Y, Entered(s, f, op, un, R, T, {}),
         NEW U, \A e \in U : e \in T
  PROVE  Entered(s, f, op, un, R, U, Y)
  <1>1. Origins(s, op, U)
    BY DEF Entered, Origins
  <1>2. Asked(s, f, un, Y)
    BY DEF Entered, Asked
  <1>3. Current(s, f, R, U)
    BY DEF Entered, Current
  <1> QED
    BY <1>1, <1>2, <1>3 DEF Entered

LEMMA FdSet ==
  ASSUME NEW s, NEW f, NEW op, NEW un, NEW R, NEW T, Entered(s, f, op, un, R, T, {}),
         NEW fd \in Fd, Flagged(s, fd, {"EV__IOFDSET", "EV_ANFD_REIFY"})
  PROVE  Entered(s, f, op, un \ {fd}, R, T, {})
  <1>1. "EV__IOFDSET" \in s.anfds[fd].reify
    BY DEF Flagged
  <1>2. Asked(s, f, un \ {fd}, {})
    BY <1>1 DEF Entered, Asked
  <1> QED
    BY <1>2 DEF Entered

\* The invariant after a step that sets what libev keeps
LEMMA InvAgain ==
  ASSUME NEW y, IoBecomes(y), Watched(y, {}), Files(file', opened'),
         Entered(y, file', opened', unset', returned', ToldOf(epoll_events'), {}),
         epoll_events' \subseteq [entry : EpollEntry, got : (SUBSET EV_RW) \ {{}}],
         epoll_phase' # "poll" => epoll_events' = {}
  PROVE  IoInv'
  <1>1. y \in IoState
    BY DEF Watched
  <1>2. IoHere' = y
    BY <1>1, Became
  <1>3. Watched(IoHere', {}) /\ Entered(IoHere', file', opened', unset', returned', ToldOf(epoll_events'), {})
    BY <1>2
  <1> QED
    BY <1>3 DEF IoInv

LEMMA IoStarts ==
  ASSUME EpollAssumption, EpollInit
  PROVE  IoInv
  <1>1. /\ kernel = {} /\ fdchanges = <<>> /\ epoll_events = {} /\ opened = {}
        /\ \A fd \in Fd : anfds[fd] = [head |-> <<>>, events |-> {}, reify |-> {}, emask |-> {}, egen |-> 0]
        /\ anfds \in [Fd -> Anfd]
    BY DEF EpollInit, Anfd
  <1>2. /\ io \in [IoWatcher -> IoWatch] /\ \A w \in IoWatcher : ~io[w].active
    <2> DEFINE x == [fd |-> CHOOSE fd \in Fd : TRUE, events |-> {}, active |-> FALSE]
    <2>1. x \in IoWatch /\ x.active = FALSE
      <3>1. (CHOOSE fd \in Fd : TRUE) \in Fd
        BY DEF EpollAssumption
      <3> QED
        BY <3>1 DEF IoWatch
    <2>2. io = [w \in IoWatcher |-> x]
      BY DEF EpollInit
    <2> HIDE DEF x
    <2> QED
      BY <2>1, <2>2
  <1>3. IoVerified(io_pending)
    <2>1. io_pending = G(IoWatcher, IoPri, io_pending_w)!NoneFed
      BY DEF EpollInit, IP!NoneFed, G!NoneFed
    <2> QED
      BY <2>1, NonePending DEF IoVerified, EpollAssumption
  <1>4. IoHere \in IoState
    <2>1. io_pending \in Queues(IoWatcher, IoPri, io_pending_w)
      BY <1>3 DEF IoVerified, Verified
    <2> QED
      BY <1>1, <1>2, <2>1 DEF IoState, IoHere
  <1>5. \A fd \in Fd : /\ anfds[fd].head = <<>> /\ anfds[fd].events = {} /\ anfds[fd].reify = {}
                       /\ Len(anfds[fd].head) = 0
    BY <1>1
  <1>6. IoLists(IoHere)
    BY <1>2, <1>5, HereFields DEF IoLists
  <1>7. ChangesOnce(IoHere)
    <2>1. Len(fdchanges) = 0
      BY <1>1
    <2> QED
      BY <1>5, <2>1, HereFields DEF ChangesOnce
  <1>8. Known(IoHere, {})
    BY <1>5, HereFields DEF Known, Wanted
  <1>9. Watched(IoHere, {})
    BY <1>3, <1>4, <1>6, <1>7, <1>8, HereFields DEF Watched
  <1>10. Files(file, opened)
    BY <1>1 DEF Files, EpollAssumption, EpollInit
  <1>11. ToldOf(epoll_events) = {}
    BY <1>1 DEF ToldOf
  <1>12. Entered(IoHere, file, opened, unset, returned, ToldOf(epoll_events), {})
    BY <1>1, <1>5, <1>11, HereFields DEF Entered, Origins, Current, Asked
  <1> QED
    BY <1>1, <1>9, <1>10, <1>12 DEF IoInv

LEMMA IoPoppedFrom ==
  ASSUME NEW Q, IoVerified(Q), NEW p \in IoPri, Q.q[p] # <<>>, NEW R,
         R = G(IoWatcher, IoPri, io_pending_w)!PoppedFrom(Q, p)
  PROVE  IoVerified(R)
  BY PoppedVerified DEF IoVerified

LEMMA IoPopped ==
  ASSUME EpollAssumption, NEW Q, IoVerified(Q), IP!AnyPending(Q)
  PROVE  IoVerified(IP!Popped(Q))
  <1> DEFINE p == IP!TopPri(Q)
             R == IP!Popped(Q)
  <1>1. R = G(IoWatcher, IoPri, io_pending_w)!PoppedFrom(Q, p)
    BY DEF IP!Popped, IP!PoppedFrom, IP!Last, G!PoppedFrom, G!Last
  <1>2. IoPri \in SUBSET Nat /\ IsFiniteSet(IoPri)
    BY DEF EpollAssumption
  <1>3. p \in IoPri /\ Q.q[p] # <<>>
    <2> DEFINE S == {o \in IoPri : Q.q[o] # <<>>}
    <2>1. PICK m \in Nat : \A o \in IoPri : o <= m
      BY <1>2, Bounded
    <2>2. S \in SUBSET Nat /\ S # {} /\ \A s \in S : s <= m
      BY <1>2, <2>1 DEF IP!AnyPending
    <2>3. PICK s \in S : \A o \in S : o <= s
      BY <2>2, Highest
    <2>4. ASSUME NEW o \in IoPri, o > s PROVE Q.q[o] = <<>>
      <3>1. o \in Nat /\ s \in Nat /\ ~(o <= s)
        BY <1>2, <2>4
      <3> QED
        BY <2>3, <3>1
    <2>5. s \in IoPri /\ Q.q[s] # <<>>
      BY <2>3
    <2> QED
      BY <2>4, <2>5 DEF IP!TopPri
  <1> HIDE DEF p, R
  <1>4. IoVerified(R)
    BY <1>1, <1>3, IoPoppedFrom
  <1> QED
    BY <1>4 DEF R

LEMMA IoInvokeKeeps ==
  ASSUME EpollAssumption, IoInv, IoInvoke
  PROVE  IoInv'
  <1>0. Watched(IoHere, {}) /\ Files(file, opened)
        /\ Entered(IoHere, file, opened, unset, returned, ToldOf(epoll_events), {})
    BY DEF IoInv
  <1> DEFINE p == IP!Popped(io_pending)
             y == [IoHere EXCEPT !.pending = p]
  <1>1. io_pending' = p /\ UNCHANGED <<kernel, anfds, fdchanges, io>>
        /\ UNCHANGED <<file, opened, unset, returned, epoll_events, epoll_phase>>
    BY DEF IoInvoke, world
  <1>2. IoVerified(p)
    BY <1>0, HereFields, IoPopped DEF IoInvoke, Watched
  <1> HIDE DEF p
  <1>3. Watched(y, {}) /\ Unmodified(IoHere, y)
    BY <1>0, <1>2, PendingOnly
  <1>4. IoBecomes(y)
    <2>1. y = IoRec(kernel, anfds, fdchanges, io, p)
      BY HereFields, Put_pending
    <2> HIDE DEF y
    <2> QED
      BY <1>1, <2>1 DEF IoBecomes, IoRec
  <1> HIDE DEF y
  <1>5. \A e \in ToldOf(epoll_events) : e.fd \in Fd
    BY DEF IoInv, ToldOf, EpollEntry
  <1>6. Entered(y, file, opened, unset, returned, ToldOf(epoll_events), {})
    BY <1>0, <1>3, <1>5, EntriesKept DEF Watched
  <1> QED
    BY <1>0, <1>1, <1>3, <1>4, <1>6, InvAgain DEF IoInv

LEMMA IoStopKeeps ==
  ASSUME IoInv, NEW w \in IoWatcher, IoStop(w)
  PROVE  IoInv'
  <1>0. Watched(IoHere, {}) /\ Files(file, opened)
        /\ Entered(IoHere, file, opened, unset, returned, ToldOf(epoll_events), {})
    BY DEF IoInv
  <1> DEFINE y == IoStopped(IoHere, w)
  <1>1. IoBecomes(y) /\ UNCHANGED <<file, opened, unset, returned, epoll_events, epoll_phase>>
    BY DEF IoStop, world
  <1>3. Watched(y, {}) /\ Unmodified(IoHere, y)
    BY <1>0, IoStoppedWatched
  <1> HIDE DEF y
  <1>5. \A e \in ToldOf(epoll_events) : e.fd \in Fd
    BY DEF IoInv, ToldOf, EpollEntry
  <1>6. Entered(y, file, opened, unset, returned, ToldOf(epoll_events), {})
    BY <1>0, <1>3, <1>5, EntriesKept DEF Watched
  <1> QED
    BY <1>0, <1>1, <1>3, <1>6, InvAgain DEF IoInv

LEMMA IoStartKeeps ==
  ASSUME IoInv, NEW w \in IoWatcher, IoStart(w)
  PROVE  IoInv'
  <1>0. Watched(IoHere, {}) /\ Files(file, opened) /\ epoll_phase = "run"
        /\ Entered(IoHere, file, opened, unset, returned, ToldOf(epoll_events), {})
        /\ UNCHANGED <<file, opened, returned, epoll_events, epoll_phase>> /\ ~io[w].active
    BY DEF IoInv, IoStart
  <1>1. IoHere.io = io /\ io[w] \in IoWatch
    BY <1>0, HereFields DEF Watched, IoState
  <1>5. \A e \in ToldOf(epoll_events) : e.fd \in Fd
    BY DEF IoInv, ToldOf, EpollEntry
  <1>6. IoHere = IoRec(IoHere.kernel, IoHere.anfds, IoHere.fdchanges, IoHere.io, IoHere.pending)
    BY <1>0, IoIsRec DEF Watched
  <1>7. /\ IoHere.io \in [IoWatcher -> IoWatch] /\ IoHere.anfds \in [Fd -> Anfd]
        /\ IoHere \in AnyIo({IoHere.kernel}, {IoHere.anfds}, {IoHere.fdchanges}, {IoHere.io},
                            {IoHere.pending})
    BY <1>0, <1>6, IoFields DEF Watched, IoState
  <1>2. ASSUME NEW fd \in Fd, NEW ev \in (SUBSET EV_RW) \ {{}}, unset' = unset \ {fd},
               IoBecomes(FdChange([IoHere EXCEPT
                                     !.io[w] = [fd |-> fd, events |-> ev, active |-> TRUE],
                                     !.anfds[fd].head = <<w>> \o @],
                                  fd, {"EV__IOFDSET", "EV_ANFD_REIFY"}))
        PROVE  IoInv'
    <2> DEFINE x == [fd |-> fd, events |-> ev, active |-> TRUE]
               flags == {"EV__IOFDSET", "EV_ANFD_REIFY"}
               r == [IoHere EXCEPT !.io[w] = [fd |-> fd, events |-> ev, active |-> TRUE],
                                   !.anfds[fd].head = <<w>> \o @]
               y == FdChange(r, fd, flags)
    <2>1. x \in IoWatch /\ x.active /\ x.fd = fd
      BY DEF IoWatch
    <2>2. r = IoRec(IoHere.kernel, [IoHere.anfds EXCEPT ![fd].head = <<w>> \o @],
                    IoHere.fdchanges, [IoHere.io EXCEPT ![w] = x], IoHere.pending)
      <3> DEFINE o == [IoHere.io EXCEPT ![w] = x]
                 a == [IoHere.anfds EXCEPT ![fd].head = <<w>> \o @]
                 r1 == [IoHere EXCEPT !.io = o]
      <3>1. r = [r1 EXCEPT !.anfds = a]
        BY <1>1, <1>7
      <3> HIDE DEF o, a, x
      <3>2. r1 = IoRec(IoHere.kernel, IoHere.anfds, IoHere.fdchanges, o, IoHere.pending)
        BY ONLY <1>6, Put_io
      <3> HIDE DEF r1
      <3>3. [r1 EXCEPT !.anfds = a]
              = IoRec(IoHere.kernel, a, IoHere.fdchanges, o, IoHere.pending)
        BY ONLY <3>2, Put_anfds
      <3> HIDE DEF r
      <3> QED
        BY ONLY <3>1, <3>3, Zenon DEF a, o
    <2>3. IoBecomes(y)
      BY <1>2
    <2>4. flags \in SUBSET Reifies /\ flags # {}
      BY DEF Reifies
    <2> HIDE DEF x, r, flags
    <2>5. Watched(y, {}) /\ Unmodified(IoHere, y) /\ Flagged(y, fd, flags)
      BY <1>0, <1>1, <2>1, <2>2, <2>4, IoStartedWatched
    <2> HIDE DEF y
    <2>6. Entered(y, file, opened, unset, returned, ToldOf(epoll_events), {})
      BY <1>0, <1>5, <2>5, EntriesKept DEF Watched
    <2>7. Entered(y, file, opened, unset \ {fd}, returned, ToldOf(epoll_events), {})
      BY <2>5, <2>6, FdSet DEF flags
    <2> QED
      BY <1>0, <1>2, <2>3, <2>5, <2>7, InvAgain DEF IoInv
  <1>3. ASSUME UNCHANGED unset,
               IoBecomes(FdChange([IoHere EXCEPT !.io[w].active = TRUE,
                                                 !.anfds[io[w].fd].head = <<w>> \o @],
                                  io[w].fd, {"EV_ANFD_REIFY"}))
        PROVE  IoInv'
    <2> DEFINE x == [fd |-> io[w].fd, events |-> io[w].events, active |-> TRUE]
               fd == io[w].fd
               flags == {"EV_ANFD_REIFY"}
               r == [IoHere EXCEPT !.io[w].active = TRUE, !.anfds[io[w].fd].head = <<w>> \o @]
               y == FdChange(r, fd, flags)
    <2>1. x \in IoWatch /\ x.active /\ x.fd = fd /\ fd \in Fd
      BY <1>1 DEF IoWatch
    <2>2. r = IoRec(IoHere.kernel, [IoHere.anfds EXCEPT ![fd].head = <<w>> \o @],
                    IoHere.fdchanges, [IoHere.io EXCEPT ![w] = x], IoHere.pending)
      <3> DEFINE o == [IoHere.io EXCEPT ![w] = x]
                 a == [IoHere.anfds EXCEPT ![fd].head = <<w>> \o @]
                 r1 == [IoHere EXCEPT !.io = o]
      <3>1. r = [r1 EXCEPT !.anfds = a]
        <4>1. [io[w] EXCEPT !.active = TRUE] = x
          BY <1>1, IoWatchActive, Zenon
        <4>2. [IoHere.io EXCEPT ![w].active = TRUE] = o
          <5> HIDE DEF x
          <5>1. [IoHere.io EXCEPT ![w].active = TRUE] = [IoHere.io EXCEPT ![w] = [io[w] EXCEPT !.active = TRUE]]
            BY <1>1
          <5> QED
            BY <4>1, <5>1
        <4>3. r = [[IoHere EXCEPT !.io = [IoHere.io EXCEPT ![w].active = TRUE]] EXCEPT !.anfds = a]
          BY <1>1, <1>7
        <4> HIDE DEF a, o, x, r
        <4> QED
          BY ONLY <4>2, <4>3, Zenon DEF r1
      <3> HIDE DEF o, a, x
      <3>2. r1 = IoRec(IoHere.kernel, IoHere.anfds, IoHere.fdchanges, o, IoHere.pending)
        BY ONLY <1>6, Put_io
      <3> HIDE DEF r1
      <3>3. [r1 EXCEPT !.anfds = a]
              = IoRec(IoHere.kernel, a, IoHere.fdchanges, o, IoHere.pending)
        BY ONLY <3>2, Put_anfds
      <3> HIDE DEF r
      <3> QED
        BY ONLY <3>1, <3>3, Zenon DEF a, o
    <2>3. IoBecomes(y)
      BY <1>3
    <2>4. flags \in SUBSET Reifies /\ flags # {}
      BY DEF Reifies
    <2> HIDE DEF x, r, flags, fd
    <2>5. Watched(y, {}) /\ Unmodified(IoHere, y)
      BY <1>0, <1>1, <2>1, <2>2, <2>4, IoStartedWatched
    <2> HIDE DEF y
    <2>6. Entered(y, file, opened, unset, returned, ToldOf(epoll_events), {})
      BY <1>0, <1>5, <2>5, EntriesKept DEF Watched
    <2> QED
      BY <1>0, <1>3, <2>3, <2>5, <2>6, InvAgain DEF IoInv
  <1> QED
    BY <1>2, <1>3, Zenon DEF IoStart

\* The program opens, closes and duplicates
LEMMA ProgramKeeps ==
  ASSUME IoInv, Program
  PROVE  IoInv'
  <1>0. /\ Watched(IoHere, {}) /\ Files(file, opened) /\ epoll_phase = "run" /\ epoll_events = {}
        /\ Entered(IoHere, file, opened, unset, returned, {}, {}) /\ IoHere \in IoState
        /\ UNCHANGED <<anfds, fdchanges, io, io_pending, epoll_events, epoll_phase>>
    <2>1. epoll_phase = "run" /\ epoll_events = {} /\ ToldOf(epoll_events) = {}
      BY DEF IoInv, Program, ToldOf
    <2> QED
      BY <2>1 DEF IoInv, Program, Watched
  <1> DEFINE y == [IoHere EXCEPT !.kernel = kernel']
  <1>1. y = IoRec(kernel', anfds, fdchanges, io, io_pending)
    BY HereFields, Put_kernel
  <1> HIDE DEF y
  <1>2. /\ y.kernel = kernel' /\ y.anfds = anfds /\ y.fdchanges = fdchanges /\ y.io = io
        /\ y.pending = io_pending
    BY <1>1 DEF IoRec
  <1>3. IoBecomes(y)
    BY <1>0, <1>2 DEF IoBecomes
  <1>4. ASSUME kernel' \subseteq kernel PROVE Watched(y, {})
    <2>1. y \in IoState
      BY <1>0, <1>1, <1>4, HereFields DEF IoState, IoRec
    <2>2. Alike(IoHere, y)
      BY <1>2, HereFields DEF Alike
    <2> QED
      BY <1>0, <2>1, <2>2, SameWatched
  <1>5. ASSUME kernel' \subseteq kernel, Files(file', opened'),
               Entered(y, file', opened', unset', returned', {}, {})
        PROVE  IoInv'
    <2>1. epoll_events' = {} /\ ToldOf(epoll_events') = {} /\ Watched(y, {})
      BY <1>0, <1>4, <1>5 DEF ToldOf
    <2> QED
      BY <1>0, <1>3, <1>5, <2>1, InvAgain
  <1>6. ASSUME NEW g, g = file', opened' = opened, unset' = unset, kernel' \subseteq kernel,
               Files(g, opened),
               \A fd \in Fd : g[fd] # None =>
                 /\ g[fd] = file[fd] /\ (fd \in returned => fd \in returned')
                 /\ \A e \in kernel : e.file = file[fd] => e \in kernel'
        PROVE  IoInv'
    <2>1. Entered(y, g, opened, unset, returned', {}, {})
      BY <1>0, <1>2, <1>6, HereFields, EntriesGone
    <2> QED
      BY <1>5, <1>6, <2>1
  <1>7. ASSUME NEW fd \in Fd, Close(fd) PROVE IoInv'
    <2> DEFINE g == [file EXCEPT ![fd] = None]
    <2>1. /\ file[fd] # None /\ file' = g /\ opened' = opened /\ unset' = unset
          /\ returned' = returned \ {fd}
          /\ \/ kernel' = kernel
             \/ /\ kernel' = {e \in kernel : e.file # file[fd]}
                /\ \A gd \in Fd \ {fd} : file[gd] # file[fd]
      BY <1>7 DEF Close, Gone
    <2>2. g \in [Fd -> File \cup {None}] /\ g[fd] = None /\ \A gd \in Fd \ {fd} : g[gd] = file[gd]
      BY <1>0 DEF Files
    <2> HIDE DEF g
    <2>3. Files(g, opened)
      BY <1>0, <2>2 DEF Files
    <2>4. kernel' \subseteq kernel
      BY <2>1
    <2>5. ASSUME NEW gd \in Fd, g[gd] # None
          PROVE  /\ g[gd] = file[gd] /\ (gd \in returned => gd \in returned')
                 /\ \A e \in kernel : e.file = file[gd] => e \in kernel'
      <3>1. gd # fd /\ g[gd] = file[gd]
        BY <2>2, <2>5
      <3> QED
        BY <2>1, <3>1
    <2> QED
      BY <1>6, <2>1, <2>3, <2>4, <2>5
  <1>8. ASSUME NEW fd \in Fd, Dup(fd) PROVE IoInv'
    <2>1. /\ file' = file /\ opened' = opened /\ unset' = unset /\ returned' = returned
          /\ kernel' = kernel
      BY <1>8 DEF Dup
    <2> QED
      BY <1>0, <1>6, <2>1
  <1>9. ASSUME NEW f \in File, CloseElsewhere(f) PROVE IoInv'
    <2>1. /\ file' = file /\ opened' = opened /\ unset' = unset /\ returned' = returned
          /\ kernel' = kernel \/ (kernel' = {e \in kernel : e.file # f} /\ \A fd \in Fd : file[fd] # f)
      BY <1>9 DEF CloseElsewhere, Gone
    <2>2. kernel' \subseteq kernel
      BY <2>1
    <2>3. ASSUME NEW gd \in Fd
          PROVE  \A e \in kernel : e.file = file[gd] => e \in kernel'
      BY <2>1
    <2> QED
      BY <1>0, <1>6, <2>1, <2>2, <2>3
  <1>10. ASSUME NEW fd \in Fd, NEW f \in File, Open(fd, f) PROVE IoInv'
    <2>1. /\ file[fd] = None /\ f \in File /\ file' = [file EXCEPT ![fd] = f]
          /\ opened' = opened \cup {f} /\ unset' = unset \cup {fd} /\ kernel' = kernel
          /\ returned \subseteq returned'
          /\ (\E e \in kernel : e.fd = fd /\ e.file = f) => fd \in returned'
      BY <1>10 DEF Open
    <2>2. y = IoHere
      BY <1>1, <2>1, HereFields
    <2>3. /\ Files([file EXCEPT ![fd] = f], opened \cup {f})
          /\ Entered(IoHere, [file EXCEPT ![fd] = f], opened \cup {f}, unset \cup {fd}, returned', {}, {})
      BY <1>0, <2>1, HereFields, FileOpened
    <2>4. Files(file', opened') /\ Entered(y, file', opened', unset', returned', {}, {})
      BY <2>1, <2>2, <2>3
    <2> QED
      BY <1>5, <2>1, <2>4
  <1> QED
    BY <1>7, <1>8, <1>9, <1>10, Zenon DEF Program

LEMMA LoopForkedKeeps ==
  ASSUME EpollAssumption, IoInv, LoopForked
  PROVE  IoInv'
  <1>0. /\ Watched(IoHere, {}) /\ Files(file, opened) /\ epoll_phase = "run" /\ epoll_events = {}
        /\ Entered(IoHere, file, opened, unset, returned, {}, {}) /\ ToldOf(epoll_events') = {}
        /\ UNCHANGED <<file, opened, unset, epoll_events>>
    <2>1. epoll_phase = "run" /\ epoll_events = {} /\ ToldOf(epoll_events) = {}
      BY DEF IoInv, LoopForked, ToldOf
    <2> QED
      BY <2>1 DEF IoInv, LoopForked, world, ToldOf
  <1> DEFINE y == EpollForked(IoHere)
  <1>1. CASE epoll_postfork
    <2>1. IoBecomes(y)
      BY <1>1 DEF LoopForked
    <2>2. Watched(y, {}) /\ Entered(y, file, opened, unset, returned', {}, {})
      BY <1>0, EpollForkedWatched DEF EpollAssumption
    <2> HIDE DEF y
    <2> QED
      BY <1>0, <2>1, <2>2, InvAgain
  <1>2. CASE ~epoll_postfork
    <2>1. IoBecomes(IoHere) /\ returned' = returned
      BY <1>2 DEF LoopForked
    <2> QED
      BY <1>0, <2>1, InvAgain
  <1> QED
    BY <1>1, <1>2

LEMMA FdReifyKeeps ==
  ASSUME IoInv, FdReify
  PROVE  IoInv'
  <1>0. /\ Watched(IoHere, {}) /\ Files(file, opened) /\ epoll_events = {}
        /\ Entered(IoHere, file, opened, unset, returned, {}, {}) /\ ToldOf(epoll_events') = {}
        /\ UNCHANGED <<file, opened, unset, returned, epoll_events, epoll_phase>> /\ fdchanges # <<>>
    <2>1. epoll_phase = "reify" /\ epoll_events = {} /\ ToldOf(epoll_events) = {}
      BY DEF IoInv, FdReify, ToldOf
    <2> QED
      BY <2>1 DEF IoInv, FdReify, world, ToldOf
  <1> DEFINE fd == Head(fdchanges)
             y == Reified(IoHere, fd)
  <1>1. IoBecomes(y)
    BY DEF FdReify
  <1>2. fd = Head(IoHere.fdchanges) /\ IoHere.fdchanges # <<>>
    BY <1>0, HereFields
  <1> HIDE DEF fd
  <1>3. Watched(y, {}) /\ Entered(y, file, opened, unset, returned, {}, {})
    BY <1>0, <1>2, ReifiedWatched
  <1> HIDE DEF y
  <1> QED
    BY <1>0, <1>1, <1>3, InvAgain

LEMMA EpollWaitKeeps ==
  ASSUME IoInv, EpollWait
  PROVE  IoInv'
  <1>0. /\ Watched(IoHere, {}) /\ Files(file, opened) /\ epoll_events = {}
        /\ Entered(IoHere, file, opened, unset, returned, {}, {})
        /\ UNCHANGED <<file, opened, unset, returned, kernel, anfds, fdchanges, io, io_pending>>
        /\ epoll_phase' = "poll"
    <2>1. epoll_phase = "reify" /\ epoll_events = {} /\ ToldOf(epoll_events) = {}
      BY DEF IoInv, EpollWait, ToldOf
    <2> QED
      BY <2>1 DEF IoInv, EpollWait, world
  <1>1. kernel \in SUBSET EpollEntry
    BY <1>0, HereFields DEF Watched, IoState
  <1>2. PICK es \in {{}} \cup {{e} : e \in kernel} \cup {kernel} :
          \E got \in [es -> (SUBSET EV_RW) \ {{}}] :
            epoll_events' = {[entry |-> e, got |-> got[e]] : e \in es}
    BY Zenon DEF EpollWait
  <1>3. PICK got \in [es -> (SUBSET EV_RW) \ {{}}] :
          epoll_events' = {[entry |-> e, got |-> got[e]] : e \in es}
    BY <1>2
  <1>4. es \subseteq kernel
    BY <1>2
  <1>5. epoll_events' \subseteq [entry : EpollEntry, got : (SUBSET EV_RW) \ {{}}]
    <2> SUFFICES ASSUME NEW e \in es
                 PROVE  [entry |-> e, got |-> got[e]] \in [entry : EpollEntry, got : (SUBSET EV_RW) \ {{}}]
      BY <1>3
    <2>1. e \in EpollEntry /\ got[e] \in (SUBSET EV_RW) \ {{}}
      BY <1>1, <1>3, <1>4
    <2> QED
      BY <2>1
  <1>6. \A e \in ToldOf(epoll_events') : e \in kernel
    BY <1>3, <1>4 DEF ToldOf
  <1>7. Entered(IoHere, file, opened, unset, returned, ToldOf(epoll_events'), {})
    <2>1. Origins(IoHere, opened, ToldOf(epoll_events'))
      BY <1>0, <1>6, HereFields DEF Entered, Origins
    <2>2. Current(IoHere, file, returned, ToldOf(epoll_events'))
      BY <1>0, <1>6, HereFields DEF Entered, Current
    <2> QED
      BY <1>0, <2>1, <2>2 DEF Entered
  <1>8. IoBecomes(IoHere)
    BY <1>0, HereFields DEF IoBecomes
  <1> QED
    BY <1>0, <1>5, <1>7, <1>8, InvAgain

LEMMA PollDoneKeeps ==
  ASSUME IoInv, PollDone
  PROVE  IoInv'
  <1>1. IoBecomes(IoHere)
    BY HereFields DEF IoBecomes, PollDone
  <1>2. UNCHANGED <<file, opened, unset, returned, epoll_events>> /\ epoll_events = {}
    BY DEF PollDone, world
  <1> QED
    BY <1>1, <1>2, InvAgain DEF IoInv

\* Where libev knows of no entry that stands for the file, its note of the
\* mask does not matter
LEMMA EntryAbsent ==
  ASSUME NEW s \in IoState, NEW t, NEW f, NEW op, NEW un, NEW R, NEW T, NEW fd \in Fd,
         Entered(s, f, op, un, R, T, {}), \A e \in T : e.fd \in Fd,
         \A e \in s.kernel : ~(e.fd = fd /\ e.file = f[fd]),
         t.kernel = s.kernel,
         \A gd \in Fd \ {fd} : t.anfds[gd] = s.anfds[gd],
         t.anfds[fd].egen = s.anfds[fd].egen, t.anfds[fd].events = s.anfds[fd].events,
         t.anfds[fd].reify = s.anfds[fd].reify
  PROVE  Entered(t, f, op, un, R, T, {})
  <1>0. \A e \in s.kernel \cup T : e.fd \in Fd
    BY DEF IoState, EpollEntry
  <1>1. Origins(t, op, T)
    <2>0. Origins(s, op, T)
      BY DEF Entered
    <2>1. \A gd \in Fd : t.anfds[gd].egen = s.anfds[gd].egen
      OBVIOUS
    <2> QED
      BY <1>0, <2>0, <2>1 DEF Origins
  <1>2. Current(t, f, R, T)
    BY <1>0 DEF Current, Entered
  <1>3. Asked(t, f, un, {})
    <2>1. Asked(s, f, un, {})
      BY DEF Entered
    <2> SUFFICES ASSUME NEW gd \in Fd, gd \notin un, f[gd] # None, t.anfds[gd].events # {},
                        "EV__IOFDSET" \notin t.anfds[gd].reify
                 PROVE  /\ t.anfds[gd].emask = t.anfds[gd].events
                        /\ \E e \in t.kernel : e.fd = gd /\ e.file = f[gd]
      BY DEF Asked
    <2>2. /\ s.anfds[gd].events = t.anfds[gd].events /\ s.anfds[gd].reify = t.anfds[gd].reify
      OBVIOUS
    <2>3. /\ s.anfds[gd].emask = s.anfds[gd].events
          /\ \E e \in s.kernel : e.fd = gd /\ e.file = f[gd]
      BY <2>1, <2>2 DEF Asked
    <2>4. gd # fd
      BY <2>3
    <2> QED
      BY <2>3, <2>4
  <1> QED
    BY <1>1, <1>2, <1>3 DEF Entered

\* An event that is delivered is one of the file that its number stands for
LEMMA SameFile ==
  ASSUME NEW s, NEW f, NEW op, NEW un, NEW R, NEW T, Entered(s, f, op, un, R, T, {}),
         NEW fd \in Fd, NEW x \in T, x.fd = fd, x.gen = s.anfds[fd].egen,
         \E e \in s.kernel : e.fd = fd /\ e.file = f[fd], fd \notin R
  PROVE  f[fd] = x.file
  <1>1. PICK e \in s.kernel : e.fd = fd /\ e.file = f[fd]
    OBVIOUS
  <1>2. e.gen = s.anfds[fd].egen
    BY <1>1 DEF Entered, Current
  <1> QED
    BY <1>1, <1>2 DEF Entered, Current

LEMMA MaskNoted ==
  ASSUME NEW s, Watched(s, {}), NEW fd \in Fd, NEW mask \in SUBSET EV_RW,
         NEW t, t = WithMask(s, fd, mask)
  PROVE  /\ Watched(t, {}) /\ t.kernel = s.kernel /\ t.pending = s.pending
         /\ \A gd \in Fd \ {fd} : t.anfds[gd] = s.anfds[gd]
         /\ t.anfds[fd].emask = mask /\ t.anfds[fd].egen = s.anfds[fd].egen
         /\ t.anfds[fd].events = s.anfds[fd].events /\ t.anfds[fd].reify = s.anfds[fd].reify
  <1> DEFINE a == [head |-> s.anfds[fd].head, events |-> s.anfds[fd].events,
                   reify |-> s.anfds[fd].reify, emask |-> mask, egen |-> s.anfds[fd].egen]
  <1>0. s \in IoState /\ s.kernel \in SUBSET EpollEntry /\ s.anfds[fd].egen \in Nat
    <2>1. s \in IoState
      BY DEF Watched
    <2> QED
      BY <2>1 DEF IoState, Anfd
  <1>1. t = IoRec(s.kernel, WithAnfd(s.anfds, fd, a), s.fdchanges, s.io, s.pending)
    BY <1>0, NotedRec
  <1>2. a.emask = mask /\ a.egen = s.anfds[fd].egen
        /\ a.events = s.anfds[fd].events /\ a.reify = s.anfds[fd].reify
    OBVIOUS
  <1>3. a = [head |-> s.anfds[fd].head, events |-> s.anfds[fd].events,
             reify |-> s.anfds[fd].reify, emask |-> mask, egen |-> s.anfds[fd].egen]
    OBVIOUS
  <1> HIDE DEF a
  <1>4. Noted(s, fd, s.kernel, mask, s.anfds[fd].egen, a, t)
    BY <1>0, <1>1, <1>3 DEF Noted
  <1>5. /\ Watched(t, {}) /\ t.kernel = s.kernel /\ t.pending = s.pending
        /\ \A gd \in Fd \ {fd} : t.anfds[gd] = s.anfds[gd]
        /\ t.anfds[fd] = a
    BY ONLY <1>4, EntryNoted
  <1> QED
    BY <1>2, <1>5

LEMMA ControlledWatched ==
  ASSUME NEW s, Watched(s, {}), NEW fd \in Fd, NEW mask \in SUBSET EV_RW, NEW gen \in Nat,
         file[fd] \in File, NEW t, t = Controlled(s, fd, mask, gen)
  PROVE  /\ Watched(t, {}) /\ t.anfds = s.anfds /\ t.pending = s.pending
         /\ t.kernel = (s.kernel \ {e \in s.kernel : e.fd = fd /\ e.file = file[fd]}) \cup
              (IF mask = {} THEN {}
               ELSE {[fd |-> fd, file |-> file[fd], mask |-> mask, gen |-> gen]})
  <1> DEFINE ks == (s.kernel \ {e \in s.kernel : e.fd = fd /\ e.file = file[fd]}) \cup
              (IF mask = {} THEN {}
               ELSE {[fd |-> fd, file |-> file[fd], mask |-> mask, gen |-> gen]})
  <1>0. s \in IoState /\ s = IoRec(s.kernel, s.anfds, s.fdchanges, s.io, s.pending)
    BY IoIsRec DEF Watched
  <1>1. t = IoRec(ks, s.anfds, s.fdchanges, s.io, s.pending)
    BY ONLY <1>0, t = Controlled(s, fd, mask, gen), ControlledRec
  <1>2. ks \in SUBSET EpollEntry
    BY <1>0 DEF IoState, EpollEntry
  <1> HIDE DEF ks
  <1>3. t.kernel = ks /\ t.anfds = s.anfds /\ t.fdchanges = s.fdchanges /\ t.io = s.io
        /\ t.pending = s.pending
    BY <1>1 DEF IoRec
  <1>4. t \in IoState
    BY <1>0, <1>1, <1>2 DEF IoState, IoRec
  <1>5. Alike(s, t)
    BY <1>3 DEF Alike
  <1>6. Watched(s, {})
    OBVIOUS
  <1>7. Watched(t, {})
    BY ONLY <1>4, <1>5, <1>6, SameWatched
  <1> QED
    BY <1>3, <1>7 DEF ks

LEMMA PollEventKeeps ==
  ASSUME IoInv, NEW x \in epoll_events, PollEvent(x)
  PROVE  /\ IoInv'
         /\ io_pending' # io_pending /\ x.entry.fd \notin unset \cup returned
              => file[x.entry.fd] \in {None, x.entry.file}
  <1> DEFINE fd == x.entry.fd
             s == IoHere
             wanted == s.anfds[fd].events
             gen == x.entry.gen
             t == WithMask(s, fd, wanted)
             T == ToldOf(epoll_events)
             U == ToldOf(epoll_events')
             Goal == io_pending' # io_pending /\ fd \notin unset \cup returned => file[fd] \in {None, x.entry.file}
  <1>0. /\ Watched(s, {}) /\ Files(file, opened) /\ Entered(s, file, opened, unset, returned, T, {})
        /\ s \in IoState /\ epoll_phase = "poll"
        /\ epoll_events \subseteq [entry : EpollEntry, got : (SUBSET EV_RW) \ {{}}]
    BY DEF IoInv, Watched, PollEvent
  <1>1. x.entry \in EpollEntry /\ fd \in Fd /\ gen \in Nat /\ x.got # {} /\ x.entry \in T
    BY <1>0 DEF EpollEntry, ToldOf
  <1>2. /\ epoll_events' = epoll_events \ {x}
        /\ UNCHANGED <<file, opened, unset, returned, epoll_phase>>
    BY DEF PollEvent, world
  <1>3. /\ epoll_events' \subseteq [entry : EpollEntry, got : (SUBSET EV_RW) \ {{}}]
        /\ epoll_phase' # "poll" => epoll_events' = {}
        /\ \A e \in U : e \in T /\ e.fd \in Fd /\ e.gen \in Nat
        /\ \A e \in T : e.fd \in Fd
    BY <1>0, <1>2 DEF ToldOf, EpollEntry
  <1>4. anfds = s.anfds /\ io_pending = s.pending /\ anfds[fd].events = wanted
        /\ wanted \in SUBSET EV_RW /\ s.anfds[fd] \in Anfd
    <2>1. s.anfds[fd] \in Anfd
      BY <1>0, <1>1 DEF IoState
    <2> QED
      BY <2>1, HereFields DEF Anfd
  <1>5. /\ Entered(s, file, opened, unset, returned, U, {}) /\ Entered(s, file, opened, unset, returned, U, {fd})
    BY <1>0, <1>3, EntriesFewer
  <1>6. ASSUME NEW y, IoBecomes(y), Watched(y, {}), Entered(y, file, opened, unset, returned, U, {})
        PROVE  IoInv'
    BY <1>0, <1>2, <1>3, <1>6, InvAgain
  <1>7. ASSUME IoBecomes(s) PROVE IoInv' /\ Goal
    <2>1. io_pending' = io_pending
      BY <1>4, <1>7 DEF IoBecomes
    <2> QED
      BY <1>0, <1>5, <1>6, <1>7, <2>1
  <1> DEFINE failed == Error(t, fd, IF wanted # {} THEN "MOD" ELSE "DEL") # "none"
             y == Controlled(t, fd, wanted, gen)
  <1>8. \/ IoBecomes(s)
        \/ /\ gen = s.anfds[fd].egen
           /\ IF failed THEN IoBecomes(t) ELSE IoBecomes(FdEvent(y, fd, x.got))
        \/ /\ gen = s.anfds[fd].egen /\ x.got \subseteq wanted
           /\ IoBecomes(FdEvent(s, fd, x.got))
    BY <1>4, Zenon DEF PollEvent, WithMask
  <1>15. failed <=> ~(file[fd] # None /\ Entry(t, fd) # {})
    <2> DEFINE op == IF wanted # {} THEN "MOD" ELSE "DEL"
    <2>1. op # "ADD" /\ (failed <=> Error(t, fd, op) # "none")
      BY DEF failed
    <2> HIDE DEF failed, op, t, fd
    <2> QED
      BY ONLY <2>1, ErrorChanging
  <1> HIDE DEF s, failed, y, T, U
  <1>9. /\ Watched(t, {}) /\ t.kernel = s.kernel /\ t.pending = s.pending
        /\ \A gd \in Fd \ {fd} : t.anfds[gd] = s.anfds[gd]
        /\ t.anfds[fd].emask = wanted /\ t.anfds[fd].egen = s.anfds[fd].egen
        /\ t.anfds[fd].events = s.anfds[fd].events /\ t.anfds[fd].reify = s.anfds[fd].reify
    <2>1. t = WithMask(s, fd, wanted)
      OBVIOUS
    <2> HIDE DEF t, wanted, fd
    <2> QED
      BY ONLY <1>0, <1>1, <1>4, <2>1, MaskNoted
  <1> HIDE DEF t, wanted, gen, fd, Goal
  <1>10. ASSUME \A e \in s.kernel : ~(e.fd = fd /\ e.file = file[fd])
         PROVE  Entered(t, file, opened, unset, returned, U, {})
    BY <1>0, <1>1, <1>3, <1>5, <1>9, <1>10, EntryAbsent
  \* epoll_ctl failed: there is no entry for the file
  <1>11. ASSUME failed, IoBecomes(t) PROVE IoInv' /\ Goal
    <2>1. \A e \in s.kernel : ~(e.fd = fd /\ e.file = file[fd])
      <3>1. file[fd] = None \/ Entry(t, fd) = {}
        BY <1>11, <1>15
      <3>2. \A e \in s.kernel : e.file # None
        BY <1>0 DEF IoState, EpollEntry, Files
      <3> QED
        BY <1>9, <3>1, <3>2 DEF Entry
    <2>2. io_pending' = io_pending
      BY <1>4, <1>9, <1>11 DEF IoBecomes
    <2> QED
      BY <1>6, <1>9, <1>10, <1>11, <2>1, <2>2 DEF Goal
  \* The entry is made to ask for what is wanted, or taken out
  <1>12. ASSUME ~failed, gen = s.anfds[fd].egen, NEW z, z = FdEvent(y, fd, x.got), IoBecomes(z)
         PROVE  IoInv' /\ Goal
    <2>1. file[fd] # None /\ file[fd] \in File /\ \E e \in s.kernel : e.fd = fd /\ e.file = file[fd]
      <3>1. file[fd] # None /\ Entry(t, fd) # {}
        BY <1>12, <1>15
      <3> QED
        BY <1>0, <1>1, <1>9, <3>1 DEF Entry, Files
    <2>2. /\ Watched(y, {}) /\ y.anfds = t.anfds /\ y.pending = t.pending
          /\ y.kernel = (s.kernel \ {e \in s.kernel : e.fd = fd /\ e.file = file[fd]}) \cup
               (IF wanted = {} THEN {}
                ELSE {[fd |-> fd, file |-> file[fd], mask |-> wanted, gen |-> gen]})
      <3>1. y = Controlled(t, fd, wanted, gen)
        BY DEF y
      <3>2. /\ Watched(y, {}) /\ y.anfds = t.anfds /\ y.pending = t.pending
            /\ y.kernel = (t.kernel \ {e \in t.kernel : e.fd = fd /\ e.file = file[fd]}) \cup
                 (IF wanted = {} THEN {}
                  ELSE {[fd |-> fd, file |-> file[fd], mask |-> wanted, gen |-> gen]})
        BY ONLY <1>1, <1>4, <1>9, <2>1, <3>1, ControlledWatched
      <3> QED
        BY ONLY <1>9, <3>2
    <2>3. Entered(y, file, opened, unset, returned, U, {})
      <3>1. CASE wanted # {}
        <4>1. y.kernel = (s.kernel \ {e \in s.kernel : e.fd = fd /\ e.file = file[fd]}) \cup
                {[fd |-> fd, file |-> file[fd], mask |-> wanted, gen |-> gen]}
          BY <2>2, <3>1
        <4>2. /\ \A gd \in Fd \ {fd} : y.anfds[gd] = s.anfds[gd]
              /\ y.anfds[fd].emask = wanted /\ y.anfds[fd].egen = gen /\ y.anfds[fd].events = wanted
          BY <1>9, <1>12, <2>2 DEF wanted
        <4> QED
          BY <1>0, <1>1, <1>3, <1>5, <1>12, <2>1, <4>1, <4>2, EntryMade
      <3>2. CASE wanted = {}
        <4>1. /\ y.kernel \subseteq s.kernel
              /\ \A e \in y.kernel : ~(e.fd = fd /\ e.file = file[fd])
              /\ \A e \in s.kernel : e \in y.kernel \/ (e.fd = fd /\ e.file = file[fd])
          BY <2>2, <3>2
        <4>2. /\ \A gd \in Fd \ {fd} : y.anfds[gd] = s.anfds[gd]
              /\ y.anfds[fd].egen = s.anfds[fd].egen /\ y.anfds[fd].events = {}
          BY <1>9, <2>2, <3>2 DEF wanted
        <4> QED
          BY <1>0, <1>1, <1>3, <1>5, <4>1, <4>2, EntryTaken
      <3> QED
        BY <3>1, <3>2
    <2>4. Watched(z, {}) /\ Unmodified(y, z)
      BY <1>1, <1>12, <2>2, FdEventWatched
    <2>5. Entered(z, file, opened, unset, returned, U, {})
      BY <1>3, <2>2, <2>3, <2>4, EntriesKept DEF Watched
    <2>6. fd \notin returned => file[fd] = x.entry.file
      BY <1>0, <1>1, <1>12, <2>1, SameFile DEF fd, gen
    <2> QED
      BY <1>6, <1>12, <2>4, <2>5, <2>6 DEF Goal
  <1>13. ASSUME gen = s.anfds[fd].egen, x.got \subseteq wanted, NEW z, z = FdEvent(s, fd, x.got),
                IoBecomes(z)
         PROVE  IoInv' /\ Goal
    <2>1. /\ Watched(z, {}) /\ Unmodified(s, z)
          /\ z.pending # s.pending => s.anfds[fd].reify = {}
      BY <1>0, <1>1, <1>13, FdEventWatched
    <2>2. Entered(z, file, opened, unset, returned, U, {})
      BY <1>0, <1>3, <1>5, <2>1, EntriesKept
    <2>3. ASSUME io_pending' # io_pending, fd \notin unset \cup returned, file[fd] # None
          PROVE  file[fd] = x.entry.file
      <3>1. s.anfds[fd].reify = {}
        BY <1>4, <1>13, <2>1, <2>3 DEF IoBecomes
      <3>2. s.anfds[fd].events # {}
        BY <1>1, <1>13 DEF wanted
      <3>3. Asked(s, file, unset, {})
        BY <1>0 DEF Entered
      <3>4. \E e \in s.kernel : e.fd = fd /\ e.file = file[fd]
        BY <1>1, <2>3, <3>1, <3>2, <3>3 DEF Asked
      <3> QED
        BY <1>0, <1>1, <1>13, <2>3, <3>4, SameFile DEF fd, gen
    <2> QED
      BY <1>6, <1>13, <2>1, <2>2, <2>3 DEF Goal
  <1>14. IoInv' /\ Goal
    BY <1>7, <1>8, <1>11, <1>12, <1>13
  <1> QED
    BY <1>14 DEF Goal, fd

LEMMA EpollInductive ==
  ASSUME EpollAssumption, IoInv, [EpollNext]_epoll_vars
  PROVE  IoInv' /\ EventStep
  <1>0. ASSUME epoll_events' = epoll_events \/ epoll_events = {} PROVE EventStep
    BY <1>0 DEF EventStep
  <1>1. CASE Program
    BY <1>0, <1>1, ProgramKeeps DEF Program
  <1>2. ASSUME NEW w \in IoWatcher, IoStart(w) PROVE IoInv' /\ EventStep
    <2>1. epoll_events' = epoll_events
      BY <1>2 DEF IoStart
    <2> QED
      BY <1>0, <1>2, <2>1, IoStartKeeps
  <1>3. ASSUME NEW w \in IoWatcher, IoStop(w) PROVE IoInv' /\ EventStep
    <2>1. epoll_events' = epoll_events
      BY <1>3 DEF IoStop
    <2> QED
      BY <1>0, <1>3, <2>1, IoStopKeeps
  <1>4. CASE IoInvoke
    BY <1>0, <1>4, IoInvokeKeeps DEF IoInvoke
  <1>5. CASE LoopForked
    BY <1>0, <1>5, LoopForkedKeeps DEF LoopForked
  <1>6. CASE FdReify
    <2>1. epoll_events' = epoll_events
      BY <1>6 DEF FdReify
    <2> QED
      BY <1>0, <1>6, <2>1, FdReifyKeeps
  <1>7. CASE EpollWait
    <2>1. epoll_events = {}
      BY <1>7 DEF EpollWait, IoInv
    <2> QED
      BY <1>0, <1>7, <2>1, EpollWaitKeeps
  <1>8. ASSUME NEW x \in epoll_events, PollEvent(x) PROVE IoInv' /\ EventStep
    <2>1. /\ IoInv'
          /\ io_pending' # io_pending /\ x.entry.fd \notin unset \cup returned
               => file[x.entry.fd] \in {None, x.entry.file}
      BY <1>8, PollEventKeeps
    <2>2. epoll_events' = epoll_events \ {x}
      BY <1>8 DEF PollEvent
    <2>3. EventStep
      BY ONLY <2>1, <2>2 DEF EventStep
    <2> QED
      BY <2>1, <2>3
  <1>9. CASE PollDone
    BY <1>0, <1>9, PollDoneKeeps DEF PollDone
  <1>10. CASE UNCHANGED epoll_vars
    <2>1. /\ UNCHANGED <<file, opened, unset, returned, epoll_events, epoll_phase>>
          /\ UNCHANGED <<kernel, anfds, fdchanges, io, io_pending>>
      BY <1>10 DEF epoll_vars
    <2>2. IoBecomes(IoHere)
      BY <2>1, HereFields DEF IoBecomes
    <2>3. IoInv'
      BY <2>1, <2>2, InvAgain DEF IoInv
    <2> QED
      BY <1>0, <2>1, <2>3
  <1> QED
    BY <1>1, <1>2, <1>3, <1>4, <1>5, <1>6, <1>7, <1>8, <1>9, <1>10, Zenon DEF EpollNext

(* For any descriptors, files and watchers, and any number of openings: no *)
(* watcher is told of an event of a file that its number no longer stands  *)
(* for, unless the program reused the number without ev_io_set, or brought *)
(* a file back to a number under which the epoll set had it                *)
THEOREM NoStaleEventAlways == EpollSpec => NoStaleEvent
  <1>0. EpollAssumption
    BY MachinesAssumption
  <1>1. EpollInit => IoInv
    BY <1>0, IoStarts
  <1>2. IoInv /\ [EpollNext]_epoll_vars => IoInv' /\ EventStep
    BY <1>0, EpollInductive
  <1> QED
    BY <1>1, <1>2, PTL DEF EpollSpec, NoStaleEvent

(* What ev_loop_verify asserts of descriptors always holds: the lists hold *)
(* active watchers of their number, a number waits in fdchanges once if    *)
(* anything about it changed, and what is pending is where it says         *)
THEOREM FdsVerifiedAlways == EpollSpec => []FdsVerified
  <1>0. EpollAssumption
    BY MachinesAssumption
  <1>1. EpollInit => IoInv
    BY <1>0, IoStarts
  <1>2. IoInv /\ [EpollNext]_epoll_vars => IoInv'
    BY <1>0, EpollInductive
  <1>3. IoInv => FdsVerified
    <2> SUFFICES ASSUME IoInv PROVE FdsVerified
      OBVIOUS
    <2>0. /\ IoLists(IoHere) /\ ChangesOnce(IoHere) /\ IoVerified(io_pending)
          /\ fdchanges \in Seq(Fd)
      BY HereFields DEF IoInv, Watched, IoState
    <2>1. ASSUME NEW fd \in Fd, NEW i \in 1..Len(anfds[fd].head)
          PROVE  io[anfds[fd].head[i]].active /\ io[anfds[fd].head[i]].fd = fd
      BY <2>0, HereFields DEF IoLists
    <2>2. ASSUME NEW fd \in Fd
          PROVE  Cardinality({i \in 1..Len(fdchanges) : fdchanges[i] = fd})
                   = IF anfds[fd].reify = {} THEN 0 ELSE 1
      <3> DEFINE I == {i \in 1..Len(fdchanges) : fdchanges[i] = fd}
      <3>1. /\ \A i, j \in 1..Len(fdchanges) : fdchanges[i] = fdchanges[j] => i = j
            /\ anfds[fd].reify # {} <=> \E i \in 1..Len(fdchanges) : fdchanges[i] = fd
        BY <2>0, HereFields DEF ChangesOnce
      <3>2. CASE anfds[fd].reify = {}
        <4>1. I = {}
          BY <3>1, <3>2
        <4> QED
          BY <3>2, <4>1, FS_EmptySet
      <3>3. CASE anfds[fd].reify # {}
        <4>1. PICK i \in 1..Len(fdchanges) : fdchanges[i] = fd
          BY <3>1, <3>3
        <4>2. I = {i}
          BY <3>1, <4>1
        <4> HIDE DEF I
        <4>3. Cardinality(I) = 1
          BY <4>2, FS_Singleton
        <4> QED
          BY <3>3, <4>3 DEF I
      <3> QED
        BY <3>2, <3>3
    <2>3. IP!PendingVerified(io_pending, io_priority)
      <3> SUFFICES ASSUME NEW w \in IoWatcher, NEW p \in IoPri, NEW i \in 1..Len(io_pending.q[p])
                   PROVE  io_pending.q[p][i].w = w <=> p = io_priority[w] /\ io_pending.at[w] = i
        BY DEF IP!PendingVerified
      <3> QED
        BY <2>0 DEF IoVerified, Verified, Placed
    <2> QED
      BY <2>1, <2>2, <2>3 DEF FdsVerified
  <1> QED
    BY <1>1, <1>2, <1>3, PTL DEF EpollSpec

(* Whenever libev is about to sleep, the kernel watches every open file    *)
(* for all that its watchers want, and under the current generation, with  *)
(* the same two exceptions                                                 *)
THEOREM KernelKnowsAlways == EpollSpec => []KernelKnows
  <1>0. EpollAssumption
    BY MachinesAssumption
  <1>1. EpollInit => IoInv
    BY <1>0, IoStarts
  <1>2. IoInv /\ [EpollNext]_epoll_vars => IoInv'
    BY <1>0, EpollInductive
  <1>3. IoInv => KernelKnows
    <2> SUFFICES ASSUME IoInv, fdchanges = <<>>, NEW fd \in Fd, Wanted(IoHere, fd) # {},
                        file[fd] # None, fd \notin unset \cup returned
                 PROVE  \E e \in Entry(IoHere, fd) :
                          Wanted(IoHere, fd) \subseteq e.mask /\ e.gen = anfds[fd].egen
      BY DEF KernelKnows
    <2>0. /\ ChangesOnce(IoHere) /\ Known(IoHere, {}) /\ Current(IoHere, file, returned, ToldOf(epoll_events))
          /\ Asked(IoHere, file, unset, {})
      BY DEF IoInv, Watched, Entered
    <2>1. anfds[fd].reify = {}
      BY <2>0, HereFields DEF ChangesOnce
    <2>2. anfds[fd].events = Wanted(IoHere, fd)
      BY <2>0, <2>1, HereFields DEF Known
    <2>3. /\ anfds[fd].emask = anfds[fd].events
          /\ \E e \in kernel : e.fd = fd /\ e.file = file[fd]
      BY <2>0, <2>1, <2>2, HereFields DEF Asked
    <2>4. PICK e \in kernel : e.fd = fd /\ e.file = file[fd]
      BY <2>3
    <2>5. e \in Entry(IoHere, fd) /\ e.gen = anfds[fd].egen /\ e.mask = anfds[fd].emask
      BY <2>0, <2>4, HereFields DEF Current, Entry
    <2> QED
      BY <2>2, <2>3, <2>5
  <1> QED
    BY <1>1, <1>2, <1>3, PTL DEF EpollSpec

-----------------------------------------------------------------------------
(* The other backends: what each has been told                             *)
PollEntry == [fd : BackendFd, events : SUBSET RW]
ListedChange == [fd : BackendFd, ioset : BOOLEAN]
FilterChange == [fd : BackendFd, op : {"EV_ADD", "EV_DELETE"}, ev : RW]
BackendState == [polls : Seq(PollEntry), pollidxs : [BackendFd -> Int], ri : SUBSET BackendFd,
                 wi : SUBSET BackendFd, max : Nat, kq : Seq(FilterChange),
                 kernel : [BackendFd -> SUBSET RW], killed : SUBSET BackendFd]
AnyBackend(Ps, Xs, Rs, Ws, Ms, Qs, Ks, Ds) ==
  [polls : Ps, pollidxs : Xs, ri : Rs, wi : Ws, max : Ms, kq : Qs, kernel : Ks, killed : Ds]
BackendRec(p, x, r, w, m, q, k, d) ==
  [polls |-> p, pollidxs |-> x, ri |-> r, wi |-> w, max |-> m, kq |-> q, kernel |-> k, killed |-> d]

\* what kqueue will watch once it has taken the first n of the changes cs
Of(c, fd, ev) == c.fd = fd /\ c.ev = ev
WouldWatch(K, cs, n, fd) ==
  {ev \in RW : \/ ev \in K[fd] /\ \A i \in 1..n : ~Of(cs[i], fd, ev)
               \/ \E i \in 1..n : /\ Of(cs[i], fd, ev) /\ cs[i].op = "EV_ADD"
                                  /\ \A j \in 1..n : i < j => ~Of(cs[j], fd, ev)}
Watches(K, cs, fd) == WouldWatch(K, cs, Len(cs), fd)

\* what each backend knows of the events es, of the descriptors in Sure exactly
PollKnows(s, es) ==
  /\ \A fd \in BackendFd :
       IF es[fd] = {} THEN s.pollidxs[fd] = -1
       ELSE /\ s.pollidxs[fd] \in 0..(Len(s.polls) - 1)
            /\ s.polls[s.pollidxs[fd] + 1] = [fd |-> fd, events |-> es[fd]]
  /\ \A i \in 1..Len(s.polls) : s.pollidxs[s.polls[i].fd] = i - 1
SelectKnows(s, es) ==
  \A fd \in BackendFd :
    /\ fd \in s.ri /\ fd \div NFDBITS < s.max <=> "EV_READ" \in es[fd]
    /\ fd \in s.wi /\ fd \div NFDBITS < s.max <=> "EV_WRITE" \in es[fd]
KernelSubset(W, es, Sure) ==
  \A fd \in BackendFd : W[fd] \subseteq es[fd] /\ (fd \in Sure => W[fd] = es[fd])
KqueueKnows(s, es, Sure) ==
  KernelSubset([fd \in BackendFd |-> Watches(s.kernel, s.kq, fd)], es, Sure)
BackendTold(s, es, Sure) ==
  /\ backend = "poll" => PollKnows(s, es)
  /\ backend = "select" => SelectKnows(s, es)
  /\ backend = "kqueue" => KqueueKnows(s, es, Sure)
  /\ backend = "port" => KernelSubset(s.kernel, es, Sure)
Forgotten(K, op) == \A fd \in BackendFd \ op : K[fd] = {}

WatchesOneMore(K, cs, n, p, fd) ==
  WouldWatch(K, cs, n, fd) =
    IF cs[n].fd # fd THEN WouldWatch(K, cs, p, fd)
    ELSE IF cs[n].op = "EV_ADD" THEN WouldWatch(K, cs, p, fd) \cup {cs[n].ev}
    ELSE WouldWatch(K, cs, p, fd) \ {cs[n].ev}
LEMMA WouldWatchStep ==
  ASSUME NEW K, NEW cs \in Seq(FilterChange), NEW n \in 1..Len(cs), NEW p, p = n - 1, NEW fd \in BackendFd
  PROVE  WatchesOneMore(K, cs, n, p, fd)
  <1> USE DEF WatchesOneMore
  <1>1. n \in Nat /\ n \in 1..n /\ \A i \in 1..n : i = n \/ i \in 1..p
    OBVIOUS
  <1>2. \A i \in 1..p : i \in 1..n /\ i < n
    OBVIOUS
  <1>3. cs[n] \in FilterChange
    BY ElementOfSeq
  <1>4. \A j \in 1..n : ~(n < j)
    OBVIOUS
  <1>5. CASE cs[n].fd # fd
    <2>1. \A ev : ~Of(cs[n], fd, ev)
      BY <1>5 DEF Of
    <2>2. \A ev \in RW : ev \in WouldWatch(K, cs, n, fd) <=> ev \in WouldWatch(K, cs, p, fd)
      BY <1>1, <1>2, <2>1 DEF WouldWatch
    <2>3. WouldWatch(K, cs, n, fd) = WouldWatch(K, cs, p, fd)
      BY <2>2 DEF WouldWatch
    <2> QED
      BY <1>5, <2>3
  <1>6. ASSUME cs[n].fd = fd, NEW ev \in RW, ev # cs[n].ev
        PROVE  ev \in WouldWatch(K, cs, n, fd) <=> ev \in WouldWatch(K, cs, p, fd)
    <2>1. ~Of(cs[n], fd, ev)
      BY <1>6 DEF Of
    <2> QED
      BY <1>1, <1>2, <2>1 DEF WouldWatch
  <1>7. ASSUME cs[n].fd = fd
        PROVE  cs[n].ev \in WouldWatch(K, cs, n, fd) <=> cs[n].op = "EV_ADD"
    <2>1. Of(cs[n], fd, cs[n].ev) /\ cs[n].ev \in RW
      BY <1>3, <1>7 DEF Of, FilterChange
    <2>2. CASE cs[n].op = "EV_ADD"
      BY <1>1, <1>4, <2>1, <2>2 DEF WouldWatch
    <2>3. CASE cs[n].op # "EV_ADD"
      <3>1. \A i \in 1..n : i < n \/ i = n
        OBVIOUS
      <3> QED
        BY <1>1, <3>1, <2>1, <2>3 DEF WouldWatch
    <2> QED
      BY <2>2, <2>3
  <1>8. CASE cs[n].fd = fd
    <2>1. cs[n].ev \in RW
      BY <1>3 DEF FilterChange
    <2>2. WouldWatch(K, cs, n, fd) \subseteq RW /\ WouldWatch(K, cs, p, fd) \subseteq RW
      BY DEF WouldWatch
    <2> QED
      BY <1>6, <1>7, <1>8, <2>1, <2>2
  <1> QED
    BY <1>5, <1>8

LEMMA WatchesAppended ==
  ASSUME NEW K, NEW cs \in Seq(FilterChange), NEW c \in FilterChange, NEW fd \in BackendFd
  PROVE  Watches(K, Append(cs, c), fd) =
           IF c.fd # fd THEN Watches(K, cs, fd)
           ELSE IF c.op = "EV_ADD" THEN Watches(K, cs, fd) \cup {c.ev}
           ELSE Watches(K, cs, fd) \ {c.ev}
  <1> DEFINE ds == Append(cs, c)
             n == Len(cs)
  <1>1. /\ ds \in Seq(FilterChange) /\ Len(ds) = n + 1 /\ n \in Nat
        /\ \A i \in 1..n : ds[i] = cs[i]
    BY AppendProperties
  <1> DEFINE m == n + 1
  <1>2. ds[m] = c /\ m \in 1..Len(ds) /\ m - 1 = n
    BY AppendProperties, <1>1
  <1>3. Watches(K, ds, fd) = WouldWatch(K, ds, m, fd)
    BY <1>1 DEF Watches
  <1>4. WouldWatch(K, ds, n, fd) = Watches(K, cs, fd)
    BY <1>1 DEF Watches, WouldWatch
  <1> HIDE DEF ds, n, m
  <1>5. WouldWatch(K, ds, m, fd) =
           IF ds[m].fd # fd THEN WouldWatch(K, ds, n, fd)
           ELSE IF ds[m].op = "EV_ADD" THEN WouldWatch(K, ds, n, fd) \cup {ds[m].ev}
           ELSE WouldWatch(K, ds, n, fd) \ {ds[m].ev}
    <2>1. ds \in Seq(FilterChange)
      BY <1>1
    <2>2. m \in 1..Len(ds)
      BY <1>2
    <2>3. fd \in BackendFd /\ n = m - 1
      BY <1>2
    <2> QED
      BY ONLY <2>1, <2>2, <2>3, WouldWatchStep DEF WatchesOneMore
  <1>6. Watches(K, ds, fd) =
           IF c.fd # fd THEN Watches(K, cs, fd)
           ELSE IF c.op = "EV_ADD" THEN Watches(K, cs, fd) \cup {c.ev}
           ELSE Watches(K, cs, fd) \ {c.ev}
    BY ONLY <1>2, <1>3, <1>4, <1>5
  <1> QED
    BY <1>6 DEF ds

\* ds are the changes cs and those of fd that add or delete evs
AfterFilters(K, cs, fd, op, evs, ds) ==
  /\ ds \in Seq(FilterChange)
  /\ \A x \in BackendFd : Watches(K, ds, x) =
       IF x # fd THEN Watches(K, cs, x)
       ELSE IF op = "EV_ADD" THEN Watches(K, cs, x) \cup evs
       ELSE Watches(K, cs, x) \ evs

LEMMA FiltersWatched ==
  ASSUME NEW K, NEW cs \in Seq(FilterChange), NEW fd \in BackendFd,
         NEW op \in {"EV_ADD", "EV_DELETE"}, NEW evs \in SUBSET RW,
         NEW ds, ds = cs \o Filters(fd, op, evs)
  PROVE  AfterFilters(K, cs, fd, op, evs, ds)
  <1> DEFINE F(ev) == [fd |-> fd, op |-> op, ev |-> ev]
             f(ev) == IF ev \in evs THEN <<F(ev)>> ELSE <<>>
             one(q, ev) == IF ev \in evs THEN Append(q, F(ev)) ELSE q
             r == one(cs, "EV_READ")
             w == one(r, "EV_WRITE")
             After(S, x, ev) == IF x # fd \/ ev \notin evs THEN S
                                ELSE IF op = "EV_ADD" THEN S \cup {ev} ELSE S \ {ev}
  <1>1. ASSUME NEW ev \in RW PROVE F(ev) \in FilterChange /\ f(ev) \in Seq(FilterChange)
    <2>1. F(ev) \in FilterChange
      BY <1>1 DEF FilterChange
    <2> HIDE DEF F
    <2> QED
      BY <2>1
  <1>2. Filters(fd, op, evs) = f("EV_READ") \o f("EV_WRITE")
    BY Zenon DEF Filters
  <1>3. "EV_READ" \in RW /\ "EV_WRITE" \in RW
    BY DEF RW
  <1>4. ASSUME NEW q \in Seq(FilterChange), NEW ev \in RW
        PROVE  /\ q \o f(ev) = one(q, ev) /\ one(q, ev) \in Seq(FilterChange)
               /\ \A x \in BackendFd : Watches(K, one(q, ev), x) = After(Watches(K, q, x), x, ev)
    <2>0. F(ev) \in FilterChange /\ F(ev).fd = fd /\ F(ev).op = op /\ F(ev).ev = ev
      BY <1>1
    <2> HIDE DEF F
    <2>1. CASE ev \in evs
      <3>1. q \o <<F(ev)>> = Append(q, F(ev)) /\ Append(q, F(ev)) \in Seq(FilterChange)
        BY <2>0, AppendIsConcat, AppendProperties
      <3>2. ASSUME NEW x \in BackendFd
            PROVE  Watches(K, one(q, ev), x) = After(Watches(K, q, x), x, ev)
        <4> DEFINE c == F(ev)
        <4>1. c \in FilterChange /\ c.fd = fd /\ c.op = op /\ c.ev = ev
          BY <2>0
        <4> HIDE DEF c
        <4>2. Watches(K, Append(q, c), x) =
                IF c.fd # x THEN Watches(K, q, x)
                ELSE IF c.op = "EV_ADD" THEN Watches(K, q, x) \cup {c.ev}
                ELSE Watches(K, q, x) \ {c.ev}
          <5>1. q \in Seq(FilterChange)
            BY <1>4
          <5>2. c \in FilterChange
            BY <4>1
          <5>3. x \in BackendFd
            BY <3>2
          <5> QED
            BY ONLY <5>1, <5>2, <5>3, WatchesAppended
        <4>3. Watches(K, Append(q, c), x) = After(Watches(K, q, x), x, ev)
          BY <4>1, <4>2, <2>1
        <4> QED
          BY <4>3, <2>1 DEF c
      <3> QED
        BY <2>1, <3>1, <3>2
    <2>2. CASE ev \notin evs
      BY <2>2, ConcatEmptySeq
    <2> QED
      BY <2>1, <2>2
  <1>5. ds = (cs \o f("EV_READ")) \o f("EV_WRITE")
    <2>1. f("EV_READ") \in Seq(FilterChange) /\ f("EV_WRITE") \in Seq(FilterChange)
      BY <1>1, <1>3
    <2>2. ds = cs \o (f("EV_READ") \o f("EV_WRITE"))
      BY <1>2
    <2> HIDE DEF f
    <2> QED
      BY <2>1, <2>2, ConcatAssociative
  <1> HIDE DEF f, one, After
  <1>6. /\ cs \o f("EV_READ") = r /\ r \in Seq(FilterChange)
        /\ \A x \in BackendFd : Watches(K, r, x) = After(Watches(K, cs, x), x, "EV_READ")
    BY <1>3, <1>4
  <1> HIDE DEF r
  <1>7. /\ r \o f("EV_WRITE") = w /\ w \in Seq(FilterChange)
        /\ \A x \in BackendFd : Watches(K, w, x) = After(Watches(K, r, x), x, "EV_WRITE")
    BY <1>3, <1>4, <1>6
  <1>8. ds = w
    BY <1>5, <1>6, <1>7
  <1> HIDE DEF w
  <1>9. ASSUME NEW x \in BackendFd
        PROVE  Watches(K, ds, x) =
              IF x # fd THEN Watches(K, cs, x)
              ELSE IF op = "EV_ADD" THEN Watches(K, cs, x) \cup evs
              ELSE Watches(K, cs, x) \ evs
    <2>1. Watches(K, ds, x) = After(After(Watches(K, cs, x), x, "EV_READ"), x, "EV_WRITE")
      BY <1>6, <1>7, <1>8
    <2>2. evs \subseteq {"EV_READ", "EV_WRITE"}
      BY DEF RW
    <2> QED
      BY <2>1, <2>2 DEF After
  <1> QED
    BY <1>7, <1>8, <1>9 DEF AfterFilters

\* es once fd wants nev
ReifiedEvents(es, fd, nev) == [es EXCEPT ![fd] = nev]

LEMMA PollModified ==
  ASSUME NEW s \in BackendState, NEW es \in [BackendFd -> SUBSET RW], PollKnows(s, es),
         NEW fd \in BackendFd, NEW nev \in SUBSET RW, NEW t, t = PollModify(s, fd, es[fd], nev)
  PROVE  /\ t \in BackendState /\ t.kernel = s.kernel /\ t.killed = s.killed
         /\ PollKnows(t, ReifiedEvents(es, fd, nev))
  <1> DEFINE new == s.pollidxs[fd] < 0
             n == Len(s.polls)
             idx == IF new THEN n ELSE s.pollidxs[fd]
             ps == IF new THEN Append(s.polls, [fd |-> fd, events |-> {}]) ELSE s.polls
             last == Last(ps)
             e == [fd |-> fd, events |-> nev]
             es2 == ReifiedEvents(es, fd, nev)
  <1>1. t = IF es[fd] = nev THEN s
            ELSE IF nev # {} THEN [s EXCEPT !.polls = [ps EXCEPT ![idx + 1].events = nev],
                                            !.pollidxs[fd] = idx]
            ELSE [s EXCEPT !.polls = Front([ps EXCEPT ![idx + 1] = last]),
                     !.pollidxs = IF last.fd = fd THEN [@ EXCEPT ![fd] = -1]
                                  ELSE [@ EXCEPT ![fd] = -1, ![last.fd] = idx]]
    BY Zenon DEF PollModify
  <1>2. /\ s.polls \in Seq(PollEntry) /\ n \in Nat /\ s.pollidxs \in [BackendFd -> Int]
        /\ \A i \in 1..n : s.polls[i] \in PollEntry /\ s.polls[i].fd \in BackendFd
    <2>1. s.polls \in Seq(PollEntry) /\ s.pollidxs \in [BackendFd -> Int]
      BY DEF BackendState
    <2>2. \A i \in 1..n : s.polls[i] \in PollEntry
      BY <2>1, ElementOfSeq
    <2> QED
      BY <2>1, <2>2 DEF PollEntry
  <1>3. /\ \A x \in BackendFd : es[x] = {} => s.pollidxs[x] = -1
        /\ \A x \in BackendFd : es[x] # {} =>
             /\ s.pollidxs[x] \in 0..(n - 1)
             /\ s.polls[s.pollidxs[x] + 1] = [fd |-> x, events |-> es[x]]
        /\ \A i \in 1..n : s.pollidxs[s.polls[i].fd] = i - 1
    BY DEF PollKnows
  <1>4. es2 = [es EXCEPT ![fd] = nev] /\ es2[fd] = nev /\ \A x \in BackendFd : x # fd => es2[x] = es[x]
    BY DEF ReifiedEvents
  <1>5. e \in PollEntry /\ e.fd = fd /\ e.events = nev
    BY DEF PollEntry
  <1>6. ASSUME NEW p \in Seq(PollEntry), NEW x \in [BackendFd -> Int],
               t = [s EXCEPT !.polls = p, !.pollidxs = x]
        PROVE  /\ t \in BackendState /\ t.kernel = s.kernel /\ t.killed = s.killed
               /\ t.polls = p /\ t.pollidxs = x
    BY <1>6 DEF BackendState
  <1>7. CASE es[fd] = nev
    <2>1. t = s /\ es2 = es
      BY <1>1, <1>4, <1>7
    <2> QED
      BY <2>1
  <1>8. CASE es[fd] # nev /\ nev # {}
    <2> DEFINE p == [ps EXCEPT ![idx + 1] = e]
               x == [s.pollidxs EXCEPT ![fd] = idx]
    <2>1. /\ ps \in Seq(PollEntry) /\ idx + 1 \in 1..Len(ps) /\ idx \in Nat /\ n <= Len(ps)
          /\ ps[idx + 1] \in PollEntry /\ ps[idx + 1].fd = fd
          /\ \A i \in 1..Len(ps) : i # idx + 1 => i \in 1..n /\ ps[i] = s.polls[i]
          /\ \A i \in 1..n : i \in 1..Len(ps) /\ (i = idx + 1 => s.polls[i].fd = fd)
      <3>1. CASE es[fd] = {}
        <4>1. new /\ idx = n /\ ps = Append(s.polls, [fd |-> fd, events |-> {}])
          BY <1>3, <3>1
        <4>2. [fd |-> fd, events |-> {}] \in PollEntry
          BY DEF PollEntry
        <4>3. /\ ps \in Seq(PollEntry) /\ Len(ps) = n + 1 /\ ps[n + 1] = [fd |-> fd, events |-> {}]
              /\ \A i \in 1..n : ps[i] = s.polls[i]
          BY <1>2, <4>1, <4>2, AppendProperties
        <4> HIDE DEF ps, idx, n
        <4> QED
          BY <1>2, <4>1, <4>2, <4>3
      <3>2. CASE es[fd] # {}
        <4>1. s.pollidxs[fd] \in 0..(n - 1) /\ s.polls[s.pollidxs[fd] + 1] = [fd |-> fd, events |-> es[fd]]
          BY <1>3, <3>2
        <4>2. ~new /\ idx = s.pollidxs[fd] /\ ps = s.polls
          BY <1>2, <4>1
        <4>3. idx + 1 \in 1..n
          BY <1>2, <4>1, <4>2
        <4> HIDE DEF ps, idx, new
        <4> QED
          BY <1>2, <4>1, <4>2, <4>3
      <3> QED
        BY <3>1, <3>2
    <2>2. [ps EXCEPT ![idx + 1].events = nev] = p
      <3>1. \A c \in PollEntry : c.fd = fd => [c EXCEPT !.events = nev] = e
        BY DEF PollEntry
      <3>2. [ps[idx + 1] EXCEPT !.events = nev] = e
        BY <2>1, <3>1
      <3> HIDE DEF e
      <3> QED
        BY <3>2
    <2>3. t = [s EXCEPT !.polls = p, !.pollidxs = x]
      <3>1. t = [s EXCEPT !.polls = [ps EXCEPT ![idx + 1].events = nev], !.pollidxs[fd] = idx]
        BY <1>1, <1>8
      <3> HIDE DEF ps, idx
      <3> QED
        BY <3>1, <2>2
    <2>4. p \in Seq(PollEntry) /\ Len(p) = Len(ps)
          /\ \A i \in 1..Len(ps) : p[i] = IF i = idx + 1 THEN e ELSE ps[i]
      <3> HIDE DEF ps, idx, e
      <3> QED
        BY <2>1, <1>5, ExceptSeq
    <2>5. x \in [BackendFd -> Int] /\ x[fd] = idx /\ \A y \in BackendFd : y # fd => x[y] = s.pollidxs[y]
      <3> HIDE DEF idx
      <3> QED
        BY <1>2, <2>1
    <2> HIDE DEF p, x
    <2>6. /\ t \in BackendState /\ t.kernel = s.kernel /\ t.killed = s.killed
          /\ t.polls = p /\ t.pollidxs = x
      BY <2>3, <2>4, <2>5, <1>6
    <2> HIDE DEF ps, idx, e, es2, n
    <2>7. ASSUME NEW y \in BackendFd
          PROVE  IF es2[y] = {} THEN x[y] = -1
                 ELSE x[y] \in 0..(Len(p) - 1) /\ p[x[y] + 1] = [fd |-> y, events |-> es2[y]]
      <3>1. CASE y = fd
        <4>1. es2[y] = nev /\ x[y] = idx /\ p[idx + 1] = e /\ idx \in 0..(Len(p) - 1)
          BY <1>4, <2>1, <2>4, <2>5, <3>1
        <4> QED
          BY <4>1, <3>1, <1>8 DEF e
      <3>2. CASE y # fd /\ es[y] = {}
        BY <1>3, <1>4, <2>5, <3>2
      <3>3. CASE y # fd /\ es[y] # {}
        <4>1. s.pollidxs[y] \in 0..(n - 1) /\ s.polls[s.pollidxs[y] + 1] = [fd |-> y, events |-> es[y]]
          BY <1>3, <3>3
        <4>2. s.pollidxs[y] + 1 \in 1..n /\ s.polls[s.pollidxs[y] + 1].fd = y
          BY <1>2, <4>1
        <4>3. s.pollidxs[y] + 1 # idx + 1 /\ s.pollidxs[y] + 1 \in 1..Len(ps)
          BY <2>1, <4>2, <3>3
        <4>4. ps[s.pollidxs[y] + 1] = s.polls[s.pollidxs[y] + 1]
          BY <2>1, <4>3
        <4>5. x[y] = s.pollidxs[y] /\ es2[y] = es[y]
          BY <1>4, <2>5, <3>3
        <4>6. p[x[y] + 1] = [fd |-> y, events |-> es2[y]]
          BY <2>4, <4>1, <4>3, <4>4, <4>5
        <4>7. x[y] \in 0..(Len(p) - 1)
          BY <1>2, <2>1, <2>4, <4>1, <4>5
        <4> QED
          BY <3>3, <4>5, <4>6, <4>7
      <3> QED
        BY <3>1, <3>2, <3>3
    <2>8. ASSUME NEW i \in 1..Len(p) PROVE x[p[i].fd] = i - 1
      <3>1. CASE i = idx + 1
        BY <1>5, <2>1, <2>4, <2>5, <3>1
      <3>2. CASE i # idx + 1
        <4>1. p[i] = s.polls[i] /\ i \in 1..n
          BY <2>1, <2>4, <3>2
        <4>2. s.pollidxs[s.polls[i].fd] = i - 1 /\ s.polls[i].fd \in BackendFd
          BY <1>2, <1>3, <4>1
        <4>3. s.polls[i].fd # fd
          <5> SUFFICES ASSUME s.polls[i].fd = fd PROVE FALSE
            OBVIOUS
          <5>1. s.pollidxs[fd] = i - 1 /\ i - 1 >= 0
            BY <4>1, <4>2
          <5>2. idx = i - 1
            BY <1>2, <5>1 DEF idx
          <5> QED
            BY <3>2, <5>2, <4>1
        <4> QED
          BY <2>5, <4>1, <4>2, <4>3
      <3> QED
        BY <3>1, <3>2
    <2> QED
      BY <2>6, <2>7, <2>8 DEF PollKnows, es2
  <1>9. CASE es[fd] # nev /\ nev = {}
    <2> DEFINE k == s.pollidxs[fd]
               q == [s.polls EXCEPT ![k + 1] = last]
               p == Front(q)
               x == IF last.fd = fd THEN [s.pollidxs EXCEPT ![fd] = -1]
                    ELSE [s.pollidxs EXCEPT ![fd] = -1, ![last.fd] = k]
    <2>1. /\ k \in 0..(n - 1) /\ s.polls[k + 1] = [fd |-> fd, events |-> es[fd]]
      BY <1>3, <1>9
    <2>2. idx = k /\ ps = s.polls /\ n \in 1..n /\ k + 1 \in 1..n /\ n - 1 \in Nat
      BY <1>2, <2>1
    <2>3. last = s.polls[n] /\ last \in PollEntry /\ last.fd \in BackendFd
      BY <1>2, <2>2 DEF Last
    <2>4. t = [s EXCEPT !.polls = p, !.pollidxs = x]
      <3>1. t = [s EXCEPT !.polls = Front([ps EXCEPT ![idx + 1] = last]),
                     !.pollidxs = IF last.fd = fd THEN [@ EXCEPT ![fd] = -1]
                                  ELSE [@ EXCEPT ![fd] = -1, ![last.fd] = idx]]
        BY <1>1, <1>9
      <3> HIDE DEF ps, idx, k, last
      <3> QED
        BY <3>1, <2>2
    <2>5. q \in Seq(PollEntry) /\ Len(q) = n
          /\ \A i \in 1..n : q[i] = IF i = k + 1 THEN last ELSE s.polls[i]
      <3> HIDE DEF k, last
      <3> QED
        BY <1>2, <2>2, <2>3, ExceptSeq
    <2>6. p \in Seq(PollEntry) /\ Len(p) = n - 1
          /\ \A i \in 1..(n - 1) : p[i] = IF i = k + 1 THEN last ELSE s.polls[i]
      <3> HIDE DEF q, last, k
      <3>1. p = SubSeq(q, 1, n - 1)
        BY <2>5 DEF Front
      <3>2. \A i \in 1..(n - 1) : q[i] \in PollEntry
        BY <1>2, <2>5, ElementOfSeq
      <3>3. /\ p \in Seq(PollEntry) /\ Len(p) = n - 1
            /\ \A i \in 1..(n - 1) : p[i] = q[i]
        <4> DEFINE m == n - 1
        <4>1. m \in Nat /\ \A i \in 1..m : q[i] \in PollEntry
          BY <2>2, <3>2
        <4>2. p = SubSeq(q, 1, m)
          BY <3>1
        <4> HIDE DEF m, p
        <4>3. p \in Seq(PollEntry) /\ Len(p) = m /\ \A i \in 1..m : p[i] = q[i]
          BY <4>1, <4>2
        <4> QED
          BY <4>3 DEF m
      <3> QED
        BY <1>2, <2>5, <3>3
    <2>7. /\ x \in [BackendFd -> Int] /\ x[fd] = -1
          /\ last.fd # fd => x[last.fd] = k
          /\ \A y \in BackendFd : y # fd /\ y # last.fd => x[y] = s.pollidxs[y]
      <3> HIDE DEF k, last
      <3> QED
        BY <1>2, <2>2, <2>3
    <2> HIDE DEF p, x, q
    <2>8. /\ t \in BackendState /\ t.kernel = s.kernel /\ t.killed = s.killed
          /\ t.polls = p /\ t.pollidxs = x
      BY <2>4, <2>6, <2>7, <1>6
    <2>9. s.pollidxs[last.fd] = n - 1 /\ s.pollidxs[fd] = k
      BY <1>3, <2>2, <2>3
    <2>10. last.fd = fd <=> k = n - 1
      <3>1. ASSUME k = n - 1 PROVE last.fd = fd
        <4>1. k + 1 = n
          BY <1>2, <2>1, <3>1
        <4> QED
          BY <2>1, <2>3, <4>1
      <3> QED
        BY <2>9, <3>1
    <2> HIDE DEF ps, idx, e, es2, n, last, k
    <2>11. ASSUME NEW y \in BackendFd
          PROVE  IF es2[y] = {} THEN x[y] = -1
                 ELSE x[y] \in 0..(Len(p) - 1) /\ p[x[y] + 1] = [fd |-> y, events |-> es2[y]]
      <3>1. CASE y = fd
        BY <1>4, <1>9, <2>7, <3>1
      <3>2. CASE y # fd /\ es[y] = {}
        <4>1. s.pollidxs[y] = -1
          BY <1>3, <3>2
        <4>2. y # last.fd
          BY <1>2, <2>2, <2>9, <4>1
        <4> QED
          BY <1>4, <2>7, <3>2, <4>1, <4>2
      <3>3. CASE y # fd /\ es[y] # {}
        <4>1. s.pollidxs[y] \in 0..(n - 1) /\ s.polls[s.pollidxs[y] + 1] = [fd |-> y, events |-> es[y]]
          BY <1>3, <3>3
        <4>2. es2[y] = es[y]
          BY <1>4, <3>3
        <4>3. CASE y = last.fd
          <5>1. x[y] = k /\ k # n - 1 /\ s.pollidxs[y] = n - 1
            BY <2>7, <2>9, <2>10, <3>3, <4>3
          <5>2. last = [fd |-> y, events |-> es[y]]
            BY <2>3, <4>1, <5>1, <1>2
          <5>3. k + 1 \in 1..(n - 1) /\ k \in 0..((n - 1) - 1)
            BY <1>2, <2>1, <5>1
          <5>4. p[k + 1] = last
            BY <2>6, <5>3
          <5>5. p[x[y] + 1] = [fd |-> y, events |-> es2[y]]
            BY <4>2, <5>1, <5>2, <5>4
          <5>6. x[y] \in 0..(Len(p) - 1)
            BY <2>6, <5>1, <5>3
          <5> QED
            BY <3>3, <4>2, <5>5, <5>6
        <4>4. CASE y # last.fd
          <5>1. x[y] = s.pollidxs[y]
            BY <2>7, <3>3, <4>4
          <5>2. s.pollidxs[y] # n - 1
            <6> SUFFICES ASSUME s.pollidxs[y] = n - 1 PROVE FALSE
              OBVIOUS
            <6>1. s.pollidxs[y] + 1 = n
              BY <1>2
            <6>2. last.fd = y
              BY <2>3, <4>1, <6>1
            <6> QED
              BY <4>4, <6>2
          <5>3. s.pollidxs[y] # k
            <6> SUFFICES ASSUME s.pollidxs[y] = k PROVE FALSE
              OBVIOUS
            <6>1. [fd |-> y, events |-> es[y]] = [fd |-> fd, events |-> es[fd]]
              BY <2>1, <4>1
            <6> QED
              BY <3>3, <6>1
          <5>4. s.pollidxs[y] + 1 \in 1..(n - 1) /\ s.pollidxs[y] \in 0..((n - 1) - 1) /\ s.pollidxs[y] + 1 # k + 1
            BY <1>2, <2>1, <4>1, <5>2, <5>3
          <5>5. p[s.pollidxs[y] + 1] = s.polls[s.pollidxs[y] + 1]
            BY <2>6, <5>4
          <5> QED
            BY <2>6, <3>3, <4>1, <4>2, <5>1, <5>4, <5>5
        <4> QED
          BY <4>3, <4>4
      <3> QED
        BY <3>1, <3>2, <3>3
    <2>12. ASSUME NEW i \in 1..Len(p) PROVE x[p[i].fd] = i - 1
      <3>0. i \in 1..(n - 1) /\ i \in 1..n /\ i # n
        BY <1>2, <2>2, <2>6
      <3>1. CASE i = k + 1
        <4>1. p[i] = last
          BY <2>6, <3>0, <3>1
        <4>2. k # n - 1
          BY <1>2, <2>1, <3>0, <3>1
        <4>3. x[last.fd] = k
          BY <2>7, <2>10, <4>2
        <4> QED
          BY <2>1, <3>1, <4>1, <4>3
      <3>2. CASE i # k + 1
        <4>1. p[i] = s.polls[i]
          BY <2>6, <3>0, <3>2
        <4>2. s.pollidxs[s.polls[i].fd] = i - 1 /\ s.polls[i].fd \in BackendFd
          BY <1>2, <1>3, <3>0
        <4>5. i - 1 # k /\ i - 1 # n - 1
          BY <1>2, <2>1, <3>0, <3>2
        <4>3. s.polls[i].fd # fd /\ s.polls[i].fd # last.fd
          BY <2>9, <4>2, <4>5
        <4> QED
          BY <2>7, <4>1, <4>2, <4>3
      <3> QED
        BY <3>1, <3>2
    <2> QED
      BY <2>8, <2>11, <2>12 DEF PollKnows, es2
  <1> QED
    BY <1>7, <1>8, <1>9

LEMMA SelectModified ==
  ASSUME NEW s \in BackendState, NEW es \in [BackendFd -> SUBSET RW], SelectKnows(s, es),
         NEW fd \in BackendFd, NEW nev \in SUBSET RW, NEW t, t = SelectModify(s, fd, es[fd], nev)
  PROVE  /\ t \in BackendState /\ t.kernel = s.kernel /\ t.killed = s.killed
         /\ SelectKnows(t, ReifiedEvents(es, fd, nev))
  <1> DEFINE word == fd \div NFDBITS
             Old(S) == {x \in S : x \div NFDBITS < s.max}
             Set(S, ev) == IF ev \in nev THEN Old(S) \cup {fd} ELSE Old(S) \ {fd}
             max == IF s.max <= word THEN word + 1 ELSE s.max
             es2 == ReifiedEvents(es, fd, nev)
  <1>1. t = IF es[fd] = nev THEN s
            ELSE [s EXCEPT !.max = IF @ <= word THEN word + 1 ELSE @,
                           !.ri = Set(@, "EV_READ"), !.wi = Set(@, "EV_WRITE")]
    BY Zenon DEF SelectModify
  <1>2. s.max \in Nat /\ s.ri \subseteq BackendFd /\ s.wi \subseteq BackendFd
    BY DEF BackendState
  <1>3. \A x \in BackendFd : x \div NFDBITS \in Nat
    <2>1. BackendFd \subseteq Nat /\ NFDBITS \in Nat \ {0}
      BY MachinesAssumption DEF MachinesAssumption, BackendsAssumption
    <2>2. \A x, d \in Nat : d # 0 => x \div d \in Nat
      OBVIOUS
    <2> QED
      BY <2>1, <2>2
  <1>4. es2[fd] = nev /\ \A x \in BackendFd : x # fd => es2[x] = es[x]
    BY DEF ReifiedEvents
  <1>5. CASE es[fd] = nev
    <2>1. t = s /\ es2 = es
      BY <1>1, <1>5 DEF ReifiedEvents
    <2> QED
      BY <2>1
  <1>6. CASE es[fd] # nev
    <2>1. max \in Nat /\ s.max <= max /\ word < max
      BY <1>2, <1>3
    <2>2. ASSUME NEW S \in SUBSET BackendFd, NEW ev
          PROVE  /\ Set(S, ev) \in SUBSET BackendFd
                 /\ fd \in Set(S, ev) <=> ev \in nev
                 /\ \A x \in BackendFd : x # fd =>
                      (x \in Set(S, ev) /\ x \div NFDBITS < max <=> x \in S /\ x \div NFDBITS < s.max)
      <3> HIDE DEF max
      <3>1. \A x \in BackendFd : x \div NFDBITS < s.max => x \div NFDBITS < max
        BY <1>2, <1>3, <2>1
      <3> QED
        BY <3>1
    <2>3. t = [s EXCEPT !.max = max, !.ri = Set(s.ri, "EV_READ"), !.wi = Set(s.wi, "EV_WRITE")]
      BY <1>1, <1>6
    <2> HIDE DEF max, Set
    <2>4. Set(s.ri, "EV_READ") \subseteq BackendFd /\ Set(s.wi, "EV_WRITE") \subseteq BackendFd
      BY <1>2, <2>2
    <2>5. /\ t \in BackendState /\ t.kernel = s.kernel /\ t.killed = s.killed
          /\ t.max = max /\ t.ri = Set(s.ri, "EV_READ") /\ t.wi = Set(s.wi, "EV_WRITE")
      BY <2>1, <2>3, <2>4 DEF BackendState
    <2> HIDE DEF es2
    <2>6. ASSUME NEW x \in BackendFd
          PROVE  /\ x \in t.ri /\ x \div NFDBITS < t.max <=> "EV_READ" \in es2[x]
                 /\ x \in t.wi /\ x \div NFDBITS < t.max <=> "EV_WRITE" \in es2[x]
      <3>1. CASE x = fd
        BY <1>2, <1>4, <2>1, <2>2, <2>5, <3>1
      <3>2. CASE x # fd
        <4>1. /\ x \in Set(s.ri, "EV_READ") /\ x \div NFDBITS < max <=> x \in s.ri /\ x \div NFDBITS < s.max
              /\ x \in Set(s.wi, "EV_WRITE") /\ x \div NFDBITS < max <=> x \in s.wi /\ x \div NFDBITS < s.max
          BY <1>2, <2>2, <3>2
        <4>2. /\ x \in s.ri /\ x \div NFDBITS < s.max <=> "EV_READ" \in es[x]
              /\ x \in s.wi /\ x \div NFDBITS < s.max <=> "EV_WRITE" \in es[x]
          BY DEF SelectKnows
        <4> QED
          BY <1>4, <2>5, <3>2, <4>1, <4>2
      <3> QED
        BY <3>1, <3>2
    <2> QED
      BY <2>5, <2>6 DEF SelectKnows, es2
  <1> QED
    BY <1>5, <1>6

LEMMA KqueueModified ==
  ASSUME NEW s \in BackendState, NEW es \in [BackendFd -> SUBSET RW], NEW Sure, KqueueKnows(s, es, Sure),
         NEW fd \in BackendFd, NEW nev \in SUBSET RW, NEW t, t = KqueueModify(s, fd, es[fd], nev)
  PROVE  /\ t \in BackendState /\ t.kernel = s.kernel /\ t.killed = s.killed
         /\ KqueueKnows(t, ReifiedEvents(es, fd, nev), Sure \cup {fd})
  <1> DEFINE del == Filters(fd, "EV_DELETE", es[fd])
             q1 == s.kq \o (IF es[fd] # nev THEN del ELSE <<>>)
             q2 == q1 \o Filters(fd, "EV_ADD", nev)
             es2 == ReifiedEvents(es, fd, nev)
             K == s.kernel
  <1>1. t = [s EXCEPT !.kq = q2]
    BY Zenon DEF KqueueModify
  <1>2. s.kq \in Seq(FilterChange) /\ es[fd] \in SUBSET RW
    BY DEF BackendState
  <1>3. \A x \in BackendFd : /\ Watches(K, s.kq, x) \subseteq es[x]
                             /\ x \in Sure => Watches(K, s.kq, x) = es[x]
    BY DEF KqueueKnows, KernelSubset
  <1>4. es2[fd] = nev /\ \A x \in BackendFd : x # fd => es2[x] = es[x]
    BY DEF ReifiedEvents
  <1> HIDE DEF K
  <1>5. /\ q1 \in Seq(FilterChange)
        /\ \A x \in BackendFd : x # fd => Watches(K, q1, x) = Watches(K, s.kq, x)
        /\ es[fd] # nev => Watches(K, q1, fd) = Watches(K, s.kq, fd) \ es[fd]
        /\ es[fd] = nev => Watches(K, q1, fd) = Watches(K, s.kq, fd)
    <2>1. CASE es[fd] = nev
      <3>1. q1 = s.kq
        BY <1>2, <2>1, ConcatEmptySeq
      <3> QED
        BY <1>2, <2>1, <3>1
    <2>2. CASE es[fd] # nev
      <3> DEFINE d == es[fd]
                 q == s.kq \o Filters(fd, "EV_DELETE", d)
      <3>1. q1 = q
        BY <2>2
      <3>2. d \in SUBSET RW
        BY <1>2
      <3> HIDE DEF d, q1
      <3>3. /\ q \in Seq(FilterChange)
            /\ \A x \in BackendFd : Watches(K, q, x) =
                 IF x # fd THEN Watches(K, s.kq, x)
                 ELSE IF "EV_DELETE" = "EV_ADD" THEN Watches(K, s.kq, x) \cup d
                 ELSE Watches(K, s.kq, x) \ d
        <4>1. s.kq \in Seq(FilterChange)
          BY <1>2
        <4>2. "EV_DELETE" \in {"EV_ADD", "EV_DELETE"}
          OBVIOUS
        <4> DEFINE op == "EV_DELETE"
                   k == s.kq
        <4>3. k \in Seq(FilterChange) /\ op \in {"EV_ADD", "EV_DELETE"} /\ q = k \o Filters(fd, op, d)
          BY <4>1
        <4> HIDE DEF op, k, q
        <4>4. AfterFilters(K, k, fd, op, d, q)
          BY <3>2, <4>3, FiltersWatched
        <4> QED
          BY <4>4 DEF AfterFilters, op, k
      <3> QED
        BY <2>2, <3>1, <3>3 DEF d
    <2> QED
      BY <2>1, <2>2
  <1> HIDE DEF q1
  <1>6. /\ q2 \in Seq(FilterChange)
        /\ \A x \in BackendFd : Watches(K, q2, x) =
             IF x # fd THEN Watches(K, q1, x)
             ELSE IF "EV_ADD" = "EV_ADD" THEN Watches(K, q1, x) \cup nev
             ELSE Watches(K, q1, x) \ nev
    <2> DEFINE op == "EV_ADD"
    <2>1. q1 \in Seq(FilterChange) /\ op \in {"EV_ADD", "EV_DELETE"} /\ q2 = q1 \o Filters(fd, op, nev)
      BY <1>5
    <2> HIDE DEF op, q2
    <2>2. AfterFilters(K, q1, fd, op, nev, q2)
      BY <2>1, FiltersWatched
    <2> QED
      BY <2>2 DEF AfterFilters, op
  <1> HIDE DEF q2
  <1>7. /\ t \in BackendState /\ t.kernel = s.kernel /\ t.killed = s.killed /\ t.kq = q2
    BY <1>1, <1>6 DEF BackendState
  <1> HIDE DEF es2
  <1>8. ASSUME NEW x \in BackendFd
        PROVE  /\ Watches(K, q2, x) \subseteq es2[x]
               /\ x \in Sure \cup {fd} => Watches(K, q2, x) = es2[x]
    <2>1. CASE x = fd
      <3>1. Watches(K, q1, fd) \subseteq nev
        BY <1>3, <1>5
      <3> QED
        BY <1>4, <1>6, <2>1, <3>1
    <2>2. CASE x # fd
      BY <1>3, <1>4, <1>5, <1>6, <2>2
    <2> QED
      BY <2>1, <2>2
  <1> QED
    BY <1>7, <1>8 DEF KqueueKnows, KernelSubset, es2, K

\* t is what port_modify leaves
PortTold(t, es, Sure, fd) ==
  /\ t \in BackendState /\ Forgotten(t.kernel, open_fds)
  /\ KernelSubset(t.kernel, es, (Sure \cup {fd}) \cap open_fds)
  /\ t.killed = {} \/ (t.killed = {fd} /\ fd \notin open_fds)
LEMMA PortModified ==
  ASSUME NEW s \in BackendState, NEW es \in [BackendFd -> SUBSET RW], NEW Sure,
         KernelSubset(s.kernel, es, Sure), Forgotten(s.kernel, open_fds), s.killed = {},
         NEW fd \in BackendFd, NEW nev \in SUBSET RW, NEW t, t = PortModify(s, fd, es[fd], nev)
  PROVE  PortTold(t, ReifiedEvents(es, fd, nev), Sure, fd)
  <1> DEFINE es2 == ReifiedEvents(es, fd, nev)
  <1>1. t = IF nev = {} THEN [s EXCEPT !.kernel[fd] = IF es[fd] # {} THEN {} ELSE @]
            ELSE IF fd \notin open_fds THEN [s EXCEPT !.killed = @ \cup {fd}]
            ELSE [s EXCEPT !.kernel[fd] = nev]
    BY Zenon DEF PortModify
  <1>2. s.kernel \in [BackendFd -> SUBSET RW] /\ s.killed = {}
    BY DEF BackendState
  <1>3. /\ \A x \in BackendFd : s.kernel[x] \subseteq es[x] /\ (x \in Sure => s.kernel[x] = es[x])
        /\ \A x \in BackendFd \ open_fds : s.kernel[x] = {}
    BY DEF KernelSubset, Forgotten
  <1>4. es2[fd] = nev /\ \A x \in BackendFd : x # fd => es2[x] = es[x]
    BY DEF ReifiedEvents
  <1> HIDE DEF es2
  <1>5. CASE nev = {} \/ fd \in open_fds
    <2> DEFINE K == [s.kernel EXCEPT ![fd] = nev]
    <2>1. t = [s EXCEPT !.kernel = K]
      <3>1. CASE nev = {}
        <4>1. (IF es[fd] # {} THEN {} ELSE s.kernel[fd]) = nev
          BY <1>3, <3>1
        <4>2. t = [s EXCEPT !.kernel[fd] = IF es[fd] # {} THEN {} ELSE @]
          BY <1>1, <3>1
        <4> QED
          BY <4>1, <4>2
      <3>2. CASE nev # {}
        BY <1>1, <1>5, <3>2
      <3> QED
        BY <3>1, <3>2
    <2>2. K \in [BackendFd -> SUBSET RW] /\ K[fd] = nev /\ \A x \in BackendFd : x # fd => K[x] = s.kernel[x]
      BY <1>2
    <2> HIDE DEF K
    <2>3. t \in BackendState /\ t.kernel = K /\ t.killed = {}
      BY <1>2, <2>1, <2>2 DEF BackendState
    <2>4. KernelSubset(K, es2, (Sure \cup {fd}) \cap open_fds)
      BY <1>3, <1>4, <2>2 DEF KernelSubset
    <2>5. Forgotten(K, open_fds)
      BY <1>3, <1>5, <2>2 DEF Forgotten
    <2> QED
      BY <2>3, <2>4, <2>5 DEF es2, PortTold
  <1>6. CASE nev # {} /\ fd \notin open_fds
    <2>1. t = [s EXCEPT !.killed = s.killed \cup {fd}]
      BY <1>1, <1>6
    <2>2. t \in BackendState /\ t.kernel = s.kernel /\ t.killed = {fd}
      <3> DEFINE d == s.killed \cup {fd}
      <3>1. d = {fd} /\ d \in SUBSET BackendFd
        BY <1>2
      <3>2. t = [s EXCEPT !.killed = d]
        BY <2>1
      <3> HIDE DEF d
      <3>3. t \in BackendState /\ t.kernel = s.kernel /\ t.killed = d
        BY <3>1, <3>2 DEF BackendState
      <3> QED
        BY <3>1, <3>3
    <2>3. KernelSubset(s.kernel, es2, (Sure \cup {fd}) \cap open_fds)
      BY <1>3, <1>4, <1>6 DEF KernelSubset
    <2> QED
      BY <1>6, <1>3, <2>2, <2>3 DEF es2, PortTold, Forgotten
  <1> QED
    BY <1>5, <1>6

\* t is what backend_modify leaves, of any backend
ModifyTold(t, es, Sure, fd) ==
  /\ t \in BackendState /\ Forgotten(t.kernel, open_fds)
  /\ BackendTold(t, es, (Sure \cup {fd}) \cap open_fds)
  /\ t.killed = {} \/ (t.killed = {fd} /\ fd \notin open_fds)
LEMMA BackendModified ==
  ASSUME NEW s \in BackendState, NEW es \in [BackendFd -> SUBSET RW], NEW Sure, BackendTold(s, es, Sure),
         Forgotten(s.kernel, open_fds), s.killed = {}, backend \in Backend, Sure \subseteq open_fds,
         NEW fd \in BackendFd, NEW nev \in SUBSET RW, NEW t, t = BackendModify(s, fd, es[fd], nev)
  PROVE  ModifyTold(t, ReifiedEvents(es, fd, nev), Sure, fd)
  <1> USE DEF ModifyTold
  <1> DEFINE es2 == ReifiedEvents(es, fd, nev)
  <1>0. backend \in {"poll", "select", "kqueue", "port"}
    BY MachinesAssumption DEF MachinesAssumption, BackendsAssumption
  <1>1. CASE backend = "poll"
    <2>1. t = PollModify(s, fd, es[fd], nev)
      BY <1>1, Zenon DEF BackendModify
    <2>2. PollKnows(s, es)
      BY <1>1 DEF BackendTold
    <2>3. /\ t \in BackendState /\ t.kernel = s.kernel /\ t.killed = s.killed
          /\ PollKnows(t, ReifiedEvents(es, fd, nev))
      BY <2>1, <2>2, PollModified
    <2> QED
      BY <1>1, <2>3 DEF BackendTold
  <1>2. CASE backend = "select"
    <2>1. t = SelectModify(s, fd, es[fd], nev)
      BY <1>2, Zenon DEF BackendModify
    <2>2. SelectKnows(s, es)
      BY <1>2 DEF BackendTold
    <2>3. /\ t \in BackendState /\ t.kernel = s.kernel /\ t.killed = s.killed
          /\ SelectKnows(t, ReifiedEvents(es, fd, nev))
      BY <2>1, <2>2, SelectModified
    <2> QED
      BY <1>2, <2>3 DEF BackendTold
  <1>3. CASE backend = "kqueue"
    <2>1. t = KqueueModify(s, fd, es[fd], nev)
      BY <1>3, Zenon DEF BackendModify
    <2>2. KqueueKnows(s, es, Sure)
      BY <1>3 DEF BackendTold
    <2>3. /\ t \in BackendState /\ t.kernel = s.kernel /\ t.killed = s.killed
          /\ KqueueKnows(t, ReifiedEvents(es, fd, nev), Sure \cup {fd})
      BY <2>1, <2>2, KqueueModified
    <2>4. KqueueKnows(t, es2, (Sure \cup {fd}) \cap open_fds)
      BY <2>3 DEF KqueueKnows, KernelSubset
    <2> QED
      BY <1>3, <2>3, <2>4 DEF BackendTold
  <1>4. CASE backend = "port"
    <2>1. t = PortModify(s, fd, es[fd], nev)
      BY <1>4, Zenon DEF BackendModify
    <2>2. KernelSubset(s.kernel, es, Sure)
      BY <1>4 DEF BackendTold
    <2>3. PortTold(t, ReifiedEvents(es, fd, nev), Sure, fd)
      BY <2>1, <2>2, PortModified
    <2> QED
      BY <1>4, <2>3 DEF BackendTold, PortTold
  <1> QED
    BY <1>0, <1>1, <1>2, <1>3, <1>4

\* kevent: what the kernel watches once it has taken the changes
LEMMA TakenWatches ==
  ASSUME NEW K \in [BackendFd -> SUBSET RW], NEW cs \in Seq(FilterChange), NEW t, t = Taken(K, cs)
  PROVE  /\ t.kernel \in [BackendFd -> SUBSET RW] /\ t.errs \in Seq(BackendFd)
         /\ \A fd \in BackendFd :
              t.kernel[fd] = IF fd \in open_fds THEN Watches(K, cs, fd) ELSE K[fd]
  <1> DEFINE N == Len(cs)
             Q == [kernel |-> K, errs |-> <<>>]
             V == [kernel : [BackendFd -> SUBSET RW], errs : Seq(BackendFd)]
             After(n, fd) == IF fd \in open_fds THEN WouldWatch(K, cs, n, fd) ELSE K[fd]
             One(x, n) ==
               IF cs[n].fd \notin open_fds THEN [x EXCEPT !.errs = Append(@, cs[n].fd)]
               ELSE IF cs[n].op = "EV_ADD" THEN [x EXCEPT !.kernel[cs[n].fd] = @ \cup {cs[n].ev}]
               ELSE IF cs[n].ev \in x.kernel[cs[n].fd]
                 THEN [x EXCEPT !.kernel[cs[n].fd] = @ \ {cs[n].ev}]
               ELSE [x EXCEPT !.errs = Append(@, cs[n].fd)]
             Made(f) == f = [n \in 0..Len(cs) |->
               IF n = 0 THEN [kernel |-> K, errs |-> <<>>]
               ELSE IF cs[n].fd \notin open_fds THEN [f[n - 1] EXCEPT !.errs = Append(@, cs[n].fd)]
               ELSE IF cs[n].op = "EV_ADD" THEN [f[n - 1] EXCEPT !.kernel[cs[n].fd] = @ \cup {cs[n].ev}]
               ELSE IF cs[n].ev \in f[n - 1].kernel[cs[n].fd]
                 THEN [f[n - 1] EXCEPT !.kernel[cs[n].fd] = @ \ {cs[n].ev}]
               ELSE [f[n - 1] EXCEPT !.errs = Append(@, cs[n].fd)]]
             taken == CHOOSE f : Made(f)
             Set(n) == {x \in V : \A fd \in BackendFd : x.kernel[fd] = After(n, fd)}
             step == [p \in V \X (1..N) |-> One(p[1], p[2])]
             Good == [n \in 0..N |-> Set(n)]
  <1>0. N \in Nat /\ \A n \in 1..N : cs[n] \in FilterChange
    BY ElementOfSeq
  <1>1. t = taken[N]
    BY Zenon DEF Taken
  <1>2. ASSUME NEW n \in 1..N, NEW m, m = n - 1, NEW x \in Set(m) PROVE One(x, n) \in Set(n)
    <2> DEFINE c == cs[n]
               k == x.kernel
    <2>1. c \in FilterChange /\ c.fd \in BackendFd /\ c.ev \in RW /\ c.op \in {"EV_ADD", "EV_DELETE"}
      BY <1>0 DEF FilterChange
    <2>2. x \in V /\ \A fd \in BackendFd : k[fd] = After(m, fd)
      BY <1>2
    <2>3. k \in [BackendFd -> SUBSET RW] /\ x.errs \in Seq(BackendFd)
      BY <2>2
    <2>4. \A fd \in BackendFd : WouldWatch(K, cs, n, fd) =
           IF c.fd # fd THEN WouldWatch(K, cs, m, fd)
           ELSE IF c.op = "EV_ADD" THEN WouldWatch(K, cs, m, fd) \cup {c.ev}
           ELSE WouldWatch(K, cs, m, fd) \ {c.ev}
      <3> SUFFICES ASSUME NEW fd \in BackendFd
                   PROVE  WatchesOneMore(K, cs, n, m, fd)
        BY DEF WatchesOneMore
      <3>1. n \in 1..Len(cs) /\ m = n - 1 /\ fd \in BackendFd /\ cs \in Seq(FilterChange)
        BY <1>2
      <3> QED
        BY ONLY <3>1, WouldWatchStep
    <2> HIDE DEF c, k
    <2>5. ASSUME NEW S \in SUBSET RW, c.fd \in open_fds,
                 S = IF c.op = "EV_ADD" THEN k[c.fd] \cup {c.ev} ELSE k[c.fd] \ {c.ev}
          PROVE  [x EXCEPT !.kernel[c.fd] = S] \in Set(n)
      <3> DEFINE k2 == [k EXCEPT ![c.fd] = S]
      <3>1. k2 \in [BackendFd -> SUBSET RW] /\ \A fd \in BackendFd : k2[fd] = After(n, fd)
        BY <2>1, <2>2, <2>3, <2>4, <2>5
      <3>2. [x EXCEPT !.kernel[c.fd] = S] = [x EXCEPT !.kernel = k2]
        BY DEF k
      <3> HIDE DEF k2, After
      <3>3. [x EXCEPT !.kernel = k2] \in Set(n)
        BY <2>2, <3>1
      <3> QED
        BY <3>2, <3>3
    <2>6. ASSUME c.fd \in open_fds => c.op # "EV_ADD" /\ c.ev \notin k[c.fd]
          PROVE  [x EXCEPT !.errs = Append(@, c.fd)] \in Set(n)
      <3> DEFINE q == Append(x.errs, c.fd)
      <3>1. q \in Seq(BackendFd)
        BY <2>1, <2>3, AppendProperties
      <3> HIDE DEF q
      <3>2. \A fd \in BackendFd : k[fd] = After(n, fd)
        <4>1. \A fd \in BackendFd : fd # c.fd => k[fd] = After(n, fd)
          BY <2>2, <2>4
        <4>2. CASE c.fd \notin open_fds
          BY <2>1, <2>2, <4>1, <4>2
        <4>3. CASE c.fd \in open_fds
          <5>1. k[c.fd] = WouldWatch(K, cs, m, c.fd) /\ c.op # "EV_ADD" /\ c.ev \notin k[c.fd]
            BY <2>1, <2>2, <2>6, <4>3
          <5>2. WouldWatch(K, cs, n, c.fd) = WouldWatch(K, cs, m, c.fd) \ {c.ev}
            BY <2>1, <2>4, <5>1
          <5>3. k[c.fd] = After(n, c.fd)
            BY <4>3, <5>1, <5>2
          <5> QED
            BY <4>1, <5>3
        <4> QED
          BY <4>2, <4>3
      <3> HIDE DEF After
      <3>3. [x EXCEPT !.errs = q] \in Set(n)
        BY <2>2, <3>1, <3>2 DEF k
      <3> QED
        BY <3>3 DEF q
    <2> HIDE DEF Set, After, V
    <2>7. CASE c.fd \notin open_fds
      <3>1. One(x, n) = [x EXCEPT !.errs = Append(@, c.fd)]
        BY <2>7 DEF c
      <3> QED
        BY <2>6, <2>7, <3>1
    <2>8. CASE c.fd \in open_fds /\ c.op = "EV_ADD"
      <3> DEFINE S == k[c.fd] \cup {c.ev}
      <3>1. One(x, n) = [x EXCEPT !.kernel[c.fd] = S]
        BY <2>8 DEF c, k
      <3>2. S \in SUBSET RW /\ S = IF c.op = "EV_ADD" THEN k[c.fd] \cup {c.ev} ELSE k[c.fd] \ {c.ev}
        BY <2>1, <2>3, <2>8
      <3> HIDE DEF S
      <3> QED
        BY <2>5, <2>8, <3>1, <3>2
    <2>9. CASE c.fd \in open_fds /\ c.op # "EV_ADD" /\ c.ev \in k[c.fd]
      <3> DEFINE S == k[c.fd] \ {c.ev}
      <3>1. One(x, n) = [x EXCEPT !.kernel[c.fd] = S]
        BY <2>9 DEF c, k
      <3>2. S \in SUBSET RW /\ S = IF c.op = "EV_ADD" THEN k[c.fd] \cup {c.ev} ELSE k[c.fd] \ {c.ev}
        BY <2>1, <2>3, <2>9
      <3> HIDE DEF S
      <3> QED
        BY <2>5, <2>9, <3>1, <3>2
    <2>10. CASE c.fd \in open_fds /\ c.op # "EV_ADD" /\ c.ev \notin k[c.fd]
      <3>1. One(x, n) = [x EXCEPT !.errs = Append(@, c.fd)]
        BY <2>10 DEF c, k
      <3> QED
        BY <2>6, <2>10, <3>1
    <2> QED
      BY <2>7, <2>8, <2>9, <2>10
  <1>23. ASSUME NEW f, f = [n \in 0..N |-> IF n = 0 THEN Q ELSE One(f[n - 1], n)]
         PROVE  Made(f)
    BY <1>23, Zenon
  <1>24. ASSUME NEW f, Made(f)
         PROVE  f = [n \in 0..N |-> IF n = 0 THEN Q ELSE One(f[n - 1], n)]
    BY <1>24, Zenon
  <1> HIDE DEF One, Made
  <1>3. Q \in Set(0)
    <2>1. \A fd \in BackendFd : WouldWatch(K, cs, 0, fd) = K[fd]
      BY DEF WouldWatch
    <2>2. Q \in V
      OBVIOUS
    <2> QED
      BY <2>1, <2>2
  <1>31. \A n : Set(n) \subseteq V
    OBVIOUS
  <1> HIDE DEF V, Q, Set
  <1>4. Good \in [0..N -> SUBSET V] /\ Q \in Good[0] /\ \A n \in 0..N : Good[n] = Set(n)
    BY <1>0, <1>3, <1>31
  <1>5. \A n \in 1..N : \A x \in V : step[<<x, n>>] = One(x, n)
    OBVIOUS
  <1> HIDE DEF Good, step, N
  <1>6. \A n \in 1..N : n - 1 \in 0..N /\ n \in 0..N
    BY <1>0
  <1>7. \A n \in 1..N : \A x \in Good[n - 1] : step[<<x, n>>] \in Good[n]
    <2> TAKE n \in 1..N
    <2> DEFINE m == n - 1
    <2>1. m \in 0..N /\ n \in 0..N /\ Good[m] = Set(m) /\ Good[n] = Set(n) /\ m = n - 1
      BY <1>4, <1>6
    <2> HIDE DEF m
    <2>2. \A x \in Set(m) : step[<<x, n>>] \in Set(n)
      BY <1>2, <1>5, <1>31, <2>1
    <2> QED
      BY <2>1, <2>2
  <1>14. Leads(N, V, Good, Q, step)
    BY <1>0, <1>4, <1>7 DEF Leads
  <1>8. PICK f \in [0..N -> V] : f[0] = Q /\ \A n \in 1..N : f[n] = step[<<f[n - 1], n>>]
    BY <1>14, Iteration
  <1>9. Made(f)
    <2>1. ASSUME NEW n \in 0..N PROVE f[n] = IF n = 0 THEN Q ELSE One(f[n - 1], n)
      <3>1. CASE n = 0
        BY <1>8, <3>1
      <3>2. CASE n # 0
        <4>1. n \in 1..N
          BY <1>0, <3>2
        <4>2. f[n - 1] \in V
          BY <1>6, <1>8, <4>1
        <4> QED
          BY <1>5, <1>8, <3>2, <4>1, <4>2
      <3> QED
        BY <3>1, <3>2
    <2>2. f = [n \in 0..N |-> IF n = 0 THEN Q ELSE One(f[n - 1], n)]
      BY <2>1
    <2> QED
      BY <1>23, <2>2
  <1>10. Made(taken)
    BY <1>9, Zenon
  <1> HIDE DEF taken
  <1>11. taken[0] = Q /\ \A n \in 1..N : taken[n] = One(taken[n - 1], n)
    BY <1>0, <1>6, <1>10, <1>24
  <1>12. \A n \in 1..N : taken[n - 1] \in Good[n - 1] => taken[n] = step[<<taken[n - 1], n>>]
    BY <1>4, <1>5, <1>6, <1>11, <1>31
  <1>13. \A n \in 0..N : taken[n] \in Good[n]
    <2>1. Follows(N, taken, Good, Q, step)
      BY <1>11, <1>12 DEF Follows
    <2> QED
      BY <1>14, <2>1, IterationStays
  <1>15. taken[N] \in Set(N)
    BY <1>0, <1>4, <1>13
  <1> QED
    BY <1>1, <1>15 DEF Set, V, N, Watches

\* the changes that only add what is wanted of open descriptors
Additions == {c \in FilterChange : c.op = "EV_ADD" /\ c.fd \in open_fds /\ c.ev \in events[c.fd]}

LEMMA AdditionsWatched ==
  ASSUME NEW K \in [BackendFd -> SUBSET RW], NEW q \in Seq(Additions), NEW fd \in BackendFd
  PROVE  /\ K[fd] \subseteq Watches(K, q, fd) /\ Watches(K, q, fd) \subseteq K[fd] \cup events[fd]
         /\ fd \notin open_fds => Watches(K, q, fd) = K[fd]
  <1> DEFINE N == Len(q)
             Fits(W) == /\ K[fd] \subseteq W /\ W \subseteq K[fd] \cup events[fd]
                        /\ fd \notin open_fds => W = K[fd]
             S == {n \in 0..N : Fits(WouldWatch(K, q, n, fd))}
  <1>1. q \in Seq(FilterChange) /\ N \in Nat /\ \A i \in 1..N : q[i] \in Additions
    <2>1. Additions \subseteq FilterChange
      BY DEF Additions
    <2> QED
      BY <2>1, SeqMonotonic, ElementOfSeq
  <1>2. 0 \in S
    <2>1. WouldWatch(K, q, 0, fd) = K[fd]
      BY DEF WouldWatch
    <2> QED
      BY <1>1, <2>1
  <1>3. ASSUME NEW n \in 1..N, n - 1 \in S PROVE n \in S
    <2> DEFINE m == n - 1
    <2>1. n \in 1..Len(q) /\ m = n - 1 /\ Fits(WouldWatch(K, q, m, fd)) /\ n \in 0..N
      BY <1>1, <1>3
    <2> HIDE DEF m, Fits
    <2>2. WatchesOneMore(K, q, n, m, fd)
      BY <1>1, <2>1, WouldWatchStep
    <2>3. q[n].op = "EV_ADD" /\ q[n].fd \in open_fds /\ q[n].ev \in events[q[n].fd]
      BY <1>1, <1>3 DEF Additions
    <2>4. Fits(WouldWatch(K, q, n, fd))
      BY <2>1, <2>2, <2>3 DEF WatchesOneMore, Fits
    <2> QED
      BY <2>1, <2>4
  <1> HIDE DEF S, N
  <1>4. 0..N \subseteq S
    BY <1>1, <1>2, <1>3, UpTo
  <1>5. N \in S
    BY <1>1, <1>4
  <1> QED
    BY <1>5 DEF S, Watches, N

LEMMA FiltersAdd ==
  ASSUME NEW fd \in open_fds \cap BackendFd, events[fd] \in SUBSET RW
  PROVE  /\ Filters(fd, "EV_ADD", events[fd]) \in Seq(Additions)
         /\ Filters(fd, "EV_DELETE", {}) = <<>>
  <1> DEFINE F(ev) == [fd |-> fd, op |-> "EV_ADD", ev |-> ev]
             f(ev) == IF ev \in events[fd] THEN <<F(ev)>> ELSE <<>>
  <1>1. ASSUME NEW ev \in RW PROVE f(ev) \in Seq(Additions)
    <2>1. CASE ev \in events[fd]
      <3>1. F(ev) \in Additions
        BY <1>1, <2>1 DEF Additions, FilterChange
      <3> HIDE DEF F
      <3> QED
        BY <2>1, <3>1
    <2>2. CASE ev \notin events[fd]
      BY <2>2
    <2> QED
      BY <2>1, <2>2
  <1>2. Filters(fd, "EV_ADD", events[fd]) = f("EV_READ") \o f("EV_WRITE")
    BY Zenon DEF Filters
  <1>3. "EV_READ" \in RW /\ "EV_WRITE" \in RW
    BY DEF RW
  <1> HIDE DEF f
  <1>4. Filters(fd, "EV_ADD", events[fd]) \in Seq(Additions)
    BY <1>1, <1>2, <1>3, ConcatProperties
  <1>5. Filters(fd, "EV_DELETE", {}) = <<>>
    <2>1. Filters(fd, "EV_DELETE", {}) =
            (IF "EV_READ" \in {} THEN <<[fd |-> fd, op |-> "EV_DELETE", ev |-> "EV_READ"]>> ELSE <<>>)
            \o (IF "EV_WRITE" \in {} THEN <<[fd |-> fd, op |-> "EV_DELETE", ev |-> "EV_WRITE"]>> ELSE <<>>)
      BY Zenon DEF Filters
    <2>2. Filters(fd, "EV_DELETE", {}) = <<>> \o <<>>
      BY <2>1
    <2> QED
      BY <2>2, ConcatEmptySeq
  <1> QED
    BY <1>4, <1>5

\* kqueue_poll, of one descriptor that an error was reported of
ResubmittedSet(b) ==
  {x \in BackendState : /\ x.kernel = b.kernel /\ x.kq \in Seq(Additions)
                        /\ x.killed \cap open_fds = {}}
LEMMA OneResubmitted ==
  ASSUME events \in [BackendFd -> SUBSET RW], NEW b, NEW x \in ResubmittedSet(b), NEW fd \in BackendFd,
         NEW t, t = (IF events[fd] = {} THEN x
                     ELSE IF fd \in open_fds THEN KqueueModify(x, fd, {}, events[fd])
                     ELSE [x EXCEPT !.killed = @ \cup {fd}])
  PROVE  t \in ResubmittedSet(b)
  <1>1. /\ x \in BackendState /\ x.kernel = b.kernel /\ x.kq \in Seq(Additions)
        /\ x.killed \cap open_fds = {} /\ x.killed \in SUBSET BackendFd
    BY DEF ResubmittedSet, BackendState
  <1>2. CASE events[fd] = {}
    BY <1>2
  <1>3. CASE events[fd] # {} /\ fd \in open_fds
    <2> DEFINE add == Filters(fd, "EV_ADD", events[fd])
               q == x.kq \o add
    <2>1. t = KqueueModify(x, fd, {}, events[fd])
      BY <1>3
    <2>2. t = [x EXCEPT !.kq = x.kq \o (IF {} # events[fd] THEN Filters(fd, "EV_DELETE", {}) ELSE <<>>)
                               \o add]
      BY <2>1, Zenon DEF KqueueModify
    <2>3. add \in Seq(Additions) /\ Filters(fd, "EV_DELETE", {}) = <<>>
      BY <1>3, FiltersAdd
    <2> HIDE DEF add
    <2>4. x.kq \o <<>> = x.kq
      BY <1>1, ConcatEmptySeq
    <2>5. t = [x EXCEPT !.kq = q]
      BY <2>2, <2>3, <2>4
    <2>6. q \in Seq(Additions)
      BY <1>1, <2>3, ConcatProperties
    <2>7. q \in Seq(FilterChange)
      <3>1. Additions \subseteq FilterChange
        BY DEF Additions
      <3> QED
        BY <2>6, <3>1, SeqMonotonic
    <2> HIDE DEF q
    <2>8. t \in BackendState /\ t.kernel = x.kernel /\ t.kq = q /\ t.killed = x.killed
      BY <1>1, <2>5, <2>7 DEF BackendState
    <2> QED
      BY <1>1, <2>6, <2>8 DEF ResubmittedSet
  <1>4. CASE events[fd] # {} /\ fd \notin open_fds
    <2> DEFINE d == x.killed \cup {fd}
    <2>1. d \in SUBSET BackendFd /\ d \cap open_fds = {}
      BY <1>1, <1>4
    <2>2. t = [x EXCEPT !.killed = d]
      BY <1>4
    <2> HIDE DEF d
    <2>3. t \in BackendState /\ t.kernel = x.kernel /\ t.kq = x.kq /\ t.killed = d
      BY <1>1, <2>1, <2>2 DEF BackendState
    <2> QED
      BY <1>1, <2>1, <2>3 DEF ResubmittedSet
  <1> QED
    BY <1>2, <1>3, <1>4

LEMMA AllResubmitted ==
  ASSUME events \in [BackendFd -> SUBSET RW], NEW b \in BackendState, b.kq = <<>>, b.killed = {},
         NEW errs \in Seq(BackendFd), NEW t, t = Resubmitted(b, errs)
  PROVE  t \in ResubmittedSet(b)
  <1> DEFINE N == Len(errs)
             V == ResubmittedSet(b)
             One(x, n) == IF events[errs[n]] = {} THEN x
                          ELSE IF errs[n] \in open_fds THEN KqueueModify(x, errs[n], {}, events[errs[n]])
                          ELSE [x EXCEPT !.killed = @ \cup {errs[n]}]
             Made(f) == f = [n \in 0..Len(errs) |->
               IF n = 0 THEN b
               ELSE IF events[errs[n]] = {} THEN f[n - 1]
               ELSE IF errs[n] \in open_fds THEN KqueueModify(f[n - 1], errs[n], {}, events[errs[n]])
               ELSE [f[n - 1] EXCEPT !.killed = @ \cup {errs[n]}]]
             sent == CHOOSE f : Made(f)
             step == [p \in V \X (1..N) |-> One(p[1], p[2])]
             Good == [n \in 0..N |-> V]
  <1>0. N \in Nat /\ \A n \in 1..N : errs[n] \in BackendFd
    BY ElementOfSeq
  <1>1. t = sent[N]
    BY Zenon DEF Resubmitted
  <1> HIDE DEF V
  <1>2. ASSUME NEW n \in 1..N, NEW x \in V PROVE One(x, n) \in V
    <2>1. errs[n] \in BackendFd /\ x \in ResubmittedSet(b)
      BY <1>0, <1>2 DEF V
    <2> DEFINE r == One(x, n)
               fd == errs[n]
    <2>2. fd \in BackendFd /\ r = IF events[fd] = {} THEN x
                     ELSE IF fd \in open_fds THEN KqueueModify(x, fd, {}, events[fd])
                     ELSE [x EXCEPT !.killed = @ \cup {fd}]
      BY <2>1
    <2> HIDE DEF r, fd
    <2>3. r \in ResubmittedSet(b)
      BY <2>1, <2>2, OneResubmitted
    <2> QED
      BY <2>3 DEF r, V
  <1>23. ASSUME NEW f, f = [n \in 0..N |-> IF n = 0 THEN b ELSE One(f[n - 1], n)]
         PROVE  Made(f)
    BY <1>23, Zenon
  <1>24. ASSUME NEW f, Made(f)
         PROVE  f = [n \in 0..N |-> IF n = 0 THEN b ELSE One(f[n - 1], n)]
    BY <1>24, Zenon
  <1> HIDE DEF One, Made
  <1>3. b \in V
    <2>1. <<>> \in Seq(Additions)
      BY EmptySeq
    <2> QED
      BY <2>1 DEF V, ResubmittedSet
  <1>4. Good \in [0..N -> SUBSET V] /\ b \in Good[0] /\ \A n \in 0..N : Good[n] = V
    BY <1>0, <1>3
  <1>5. \A n \in 1..N : \A x \in V : step[<<x, n>>] = One(x, n)
    OBVIOUS
  <1> HIDE DEF Good, step, N
  <1>6. \A n \in 1..N : n - 1 \in 0..N /\ n \in 0..N
    BY <1>0
  <1>7. \A n \in 1..N : \A x \in Good[n - 1] : step[<<x, n>>] \in Good[n]
    <2> TAKE n \in 1..N
    <2>1. n - 1 \in 0..N /\ n \in 0..N /\ Good[n - 1] = V /\ Good[n] = V
      BY <1>4, <1>6
    <2> QED
      BY <1>2, <1>5, <2>1
  <1>14. Leads(N, V, Good, b, step)
    BY <1>0, <1>4, <1>7 DEF Leads
  <1>8. PICK f \in [0..N -> V] : f[0] = b /\ \A n \in 1..N : f[n] = step[<<f[n - 1], n>>]
    BY <1>14, Iteration
  <1>9. Made(f)
    <2>1. ASSUME NEW n \in 0..N PROVE f[n] = IF n = 0 THEN b ELSE One(f[n - 1], n)
      <3>1. CASE n = 0
        BY <1>8, <3>1
      <3>2. CASE n # 0
        <4>1. n \in 1..N
          BY <1>0, <3>2
        <4>2. f[n - 1] \in V
          BY <1>6, <1>8, <4>1
        <4> QED
          BY <1>5, <1>8, <3>2, <4>1, <4>2
      <3> QED
        BY <3>1, <3>2
    <2>2. f = [n \in 0..N |-> IF n = 0 THEN b ELSE One(f[n - 1], n)]
      BY <2>1
    <2> QED
      BY <1>23, <2>2
  <1>10. Made(sent)
    BY <1>9, Zenon
  <1> HIDE DEF sent
  <1>11. sent[0] = b /\ \A n \in 1..N : sent[n] = One(sent[n - 1], n)
    BY <1>0, <1>6, <1>10, <1>24
  <1>12. \A n \in 1..N : sent[n - 1] \in Good[n - 1] => sent[n] = step[<<sent[n - 1], n>>]
    BY <1>4, <1>5, <1>6, <1>11
  <1>13. \A n \in 0..N : sent[n] \in Good[n]
    <2>1. Follows(N, sent, Good, b, step)
      BY <1>11, <1>12 DEF Follows
    <2> QED
      BY <1>14, <2>1, IterationStays
  <1>15. sent[N] \in V
    BY <1>0, <1>4, <1>13
  <1> QED
    BY <1>1, <1>15 DEF V

-----------------------------------------------------------------------------
\* the list of changes, what it leaves unknown and what nothing stands in for
ChangesListed(cs) ==
  cs \in Seq(ListedChange) /\ \A i, j \in 1..Len(cs) : cs[i].fd = cs[j].fd => i = j
Waiting(cs, fd) == \E i \in 1..Len(cs) : cs[i].fd = fd
EventsKnown(es, w, cs) == \A fd \in BackendFd : ~Waiting(cs, fd) => es[fd] = w[fd]
SureOf(op, nt, cs) ==
  {fd \in op \ nt : \A i \in 1..Len(cs) : cs[i].fd = fd => ~cs[i].ioset}
BackendInv ==
  /\ backend \in Backend /\ open_fds \subseteq BackendFd /\ backend_phase \in {"run", "poll"}
  /\ want \in [BackendFd -> SUBSET RW] /\ events \in [BackendFd -> SUBSET RW]
  /\ ChangesListed(changed) /\ EventsKnown(events, want, changed)
  /\ backend_phase = "poll" => changed = <<>>
  /\ Backed \in BackendState /\ Forgotten(kernel_has, open_fds)
  /\ BackendTold(Backed, events, SureOf(open_fds, not_told, changed))

\* fewer descriptors are sure, or some are closed
LEMMA KnowsLess ==
  ASSUME NEW s, NEW es, NEW A, NEW B, B \subseteq A, BackendTold(s, es, A)
  PROVE  BackendTold(s, es, B)
  BY DEF BackendTold, KqueueKnows, KernelSubset

LEMMA BackedFields ==
  /\ Backed.polls = polls /\ Backed.pollidxs = pollidxs /\ Backed.ri = vec_ri /\ Backed.wi = vec_wi
  /\ Backed.max = vec_max /\ Backed.kq = kqueue_changes /\ Backed.kernel = kernel_has
  /\ Backed.killed = {}
  BY DEF Backed

\* what BackendBecomes leaves
LEMMA BackedAfter ==
  ASSUME NEW b, b \in BackendState, BackendBecomes(b), NEW es, NEW Sure
  PROVE  /\ Backed' \in BackendState /\ kernel_has' = b.kernel
         /\ PollKnows(b, es) => PollKnows(Backed', es)
         /\ SelectKnows(b, es) => SelectKnows(Backed', es)
         /\ KqueueKnows(b, es, Sure) => KqueueKnows(Backed', es, Sure)
         /\ Backed'.kernel = b.kernel
  <1>1. /\ Backed'.polls = b.polls /\ Backed'.pollidxs = b.pollidxs /\ Backed'.ri = b.ri
        /\ Backed'.wi = b.wi /\ Backed'.max = b.max /\ Backed'.kq = b.kq /\ Backed'.kernel = b.kernel
        /\ kernel_has' = b.kernel
    BY DEF Backed, BackendBecomes
  <1>2. Backed' \in BackendState
    BY DEF Backed, BackendBecomes, BackendState
  <1> HIDE DEF BackendBecomes
  <1> QED
    BY <1>1, <1>2 DEF PollKnows, SelectKnows, KqueueKnows

\* c is cs with a change of fd
ChangeAdded(cs, fd, ioset, c) ==
  /\ ChangesListed(c)
  /\ \A x : Waiting(c, x) <=> Waiting(cs, x) \/ x = fd
  /\ \A op, nt : SureOf(op, nt, c) = IF ioset THEN SureOf(op, nt, cs) \ {fd}
                                     ELSE SureOf(op, nt, cs)
LEMMA ChangeAppended ==
  ASSUME NEW cs, ChangesListed(cs), NEW fd \in BackendFd, ~Waiting(cs, fd), NEW ioset \in BOOLEAN,
         NEW c, c = Append(cs, [fd |-> fd, ioset |-> ioset])
  PROVE  ChangeAdded(cs, fd, ioset, c)
  <1> DEFINE n == Len(cs)
  <1>0. /\ cs \in Seq(ListedChange) /\ n \in Nat
        /\ \A i \in 1..n : cs[i] \in ListedChange
        /\ \A i, j \in 1..n : cs[i].fd = cs[j].fd => i = j
    BY ElementOfSeq DEF ChangesListed
  <1> DEFINE d == [fd |-> fd, ioset |-> ioset]
  <1>1. c = Append(cs, d)
    OBVIOUS
  <1>2. d \in ListedChange /\ d.fd = fd /\ d.ioset = ioset
    BY DEF ListedChange
  <1> HIDE DEF d
  <1>3. /\ c \in Seq(ListedChange) /\ Len(c) = n + 1 /\ c[n + 1] = d
        /\ \A i \in 1..n : c[i] = cs[i]
    BY <1>0, <1>1, <1>2, AppendProperties
  <1>4. \A i \in 1..n : cs[i].fd # fd
    BY DEF Waiting
  <1> HIDE DEF n
  <1>5. /\ \A i \in 1..Len(c) : i = n + 1 \/ i \in 1..n
        /\ \A i \in 1..n : i \in 1..Len(c)
        /\ n + 1 \in 1..Len(c)
    BY <1>0, <1>3
  <1>6. ChangesListed(c)
    BY <1>0, <1>2, <1>3, <1>4, <1>5 DEF ChangesListed
  <1>7. \A x : Waiting(c, x) <=> Waiting(cs, x) \/ x = fd
    BY <1>2, <1>3, <1>5 DEF Waiting, n
  <1>8. ASSUME NEW op, NEW nt
        PROVE  SureOf(op, nt, c) = IF ioset THEN SureOf(op, nt, cs) \ {fd}
                                   ELSE SureOf(op, nt, cs)
    <2>1. \A x : (\A i \in 1..Len(c) : c[i].fd = x => ~c[i].ioset) <=>
                 (\A i \in 1..n : cs[i].fd = x => ~cs[i].ioset) /\ (x = fd => ~ioset)
      BY <1>2, <1>3, <1>5
    <2> DEFINE Before(x) == \A i \in 1..Len(c) : c[i].fd = x => ~c[i].ioset
               Later(x) == \A i \in 1..Len(cs) : cs[i].fd = x => ~cs[i].ioset
    <2>2. SureOf(op, nt, c) = {x \in op \ nt : Before(x)} /\ SureOf(op, nt, cs) = {x \in op \ nt : Later(x)}
      BY DEF SureOf
    <2>3. \A x : Before(x) <=> Later(x) /\ (x = fd => ~ioset)
      BY <2>1 DEF n
    <2> HIDE DEF Before, Later
    <2> QED
      BY <2>2, <2>3
  <1> QED
    BY <1>6, <1>7, <1>8 DEF ChangeAdded

\* fd_change
LEMMA ChangesAfter ==
  ASSUME ChangesListed(changed), NEW fd \in BackendFd, NEW ioset \in BOOLEAN, NEW c, c = Changed(fd, ioset)
  PROVE  /\ ChangesListed(c)
         /\ \A x : Waiting(c, x) <=> Waiting(changed, x) \/ x = fd
         /\ \A op, nt : SureOf(op, nt, c) = IF ioset THEN SureOf(op, nt, changed) \ {fd}
                                            ELSE SureOf(op, nt, changed)
  <1> DEFINE n == Len(changed)
  <1>0. /\ changed \in Seq(ListedChange) /\ n \in Nat
        /\ \A i \in 1..n : changed[i] \in ListedChange
        /\ \A i, j \in 1..n : changed[i].fd = changed[j].fd => i = j
    BY ElementOfSeq DEF ChangesListed
  <1>1. CASE Waits(fd)
    <2> DEFINE C(i) == [changed[i] EXCEPT !.ioset = @ \/ (ioset /\ changed[i].fd = fd)]
    <2>1. c = [i \in 1..n |-> C(i)]
      BY <1>1, Zenon DEF Changed
    <2>2. ASSUME NEW i \in 1..n
          PROVE  /\ C(i) \in ListedChange /\ C(i).fd = changed[i].fd
                 /\ C(i).ioset <=> changed[i].ioset \/ (ioset /\ changed[i].fd = fd)
      <3> DEFINE d == changed[i]
                 b == d.ioset \/ (ioset /\ d.fd = fd)
      <3>1. d \in ListedChange /\ b \in BOOLEAN
        BY <1>0 DEF ListedChange
      <3> HIDE DEF d, b
      <3>2. [d EXCEPT !.ioset = b] \in ListedChange /\ [d EXCEPT !.ioset = b].fd = d.fd
            /\ [d EXCEPT !.ioset = b].ioset = b
        BY <3>1 DEF ListedChange
      <3>3. C(i) = [d EXCEPT !.ioset = b]
        BY DEF d, b
      <3> QED
        BY <3>2, <3>3 DEF d, b
    <2> HIDE DEF C
    <2>3. Len(c) = n /\ c \in Seq(ListedChange) /\ \A i \in 1..n : c[i] = C(i)
      BY <1>0, <2>1, <2>2
    <2>4. Waiting(changed, fd)
      BY <1>1 DEF Waits, Waiting
    <2> HIDE DEF n
    <2>5. ChangesListed(c)
      BY <1>0, <2>2, <2>3 DEF ChangesListed
    <2>6. \A x : Waiting(c, x) <=> Waiting(changed, x)
      BY <2>2, <2>3 DEF Waiting, n
    <2>7. ASSUME NEW op, NEW nt
          PROVE  SureOf(op, nt, c) = IF ioset THEN SureOf(op, nt, changed) \ {fd}
                                     ELSE SureOf(op, nt, changed)
      <3>1. SureOf(op, nt, c) = {x \in op \ nt : \A i \in 1..n : changed[i].fd = x =>
                                    ~(changed[i].ioset \/ (ioset /\ changed[i].fd = fd))}
        BY <2>2, <2>3 DEF SureOf
      <3>2. SureOf(op, nt, changed) = {x \in op \ nt : \A i \in 1..n : changed[i].fd = x => ~changed[i].ioset}
        BY DEF SureOf, n
      <3>3. \E i \in 1..n : changed[i].fd = fd
        BY <2>4 DEF Waiting, n
      <3> QED
        BY <3>1, <3>2, <3>3
    <2> QED
      BY <2>4, <2>5, <2>6, <2>7
  <1>2. CASE ~Waits(fd)
    <2>1. c = Append(changed, [fd |-> fd, ioset |-> ioset]) /\ ~Waiting(changed, fd)
      BY <1>2, Zenon DEF Changed, Waits, Waiting
    <2> DEFINE cs == changed
    <2>2. cs = changed /\ c = Append(cs, [fd |-> fd, ioset |-> ioset]) /\ ~Waiting(cs, fd)
          /\ ChangesListed(cs)
      BY <2>1
    <2> HIDE DEF cs
    <2>3. ChangeAdded(cs, fd, ioset, c)
      BY <2>2, ChangeAppended
    <2> QED
      BY <2>2, <2>3 DEF ChangeAdded
  <1> QED
    BY <1>1, <1>2

\* fd_kill, of any descriptors
LEMMA KillKeeps ==
  ASSUME ChangesListed(changed), EventsKnown(events, want, changed), want \in [BackendFd -> SUBSET RW],
         NEW fds \in SUBSET BackendFd, Kill(fds)
  PROVE  /\ want' \in [BackendFd -> SUBSET RW] /\ ChangesListed(changed')
         /\ EventsKnown(events, want', changed')
         /\ \A op, nt : SureOf(op, nt, changed') = SureOf(op, nt, changed)
  <1> DEFINE X == {x \in fds : want[x] # {} /\ ~Waits(x)}
             S == {[fd |-> fd, ioset |-> FALSE] : fd \in X}
             q == SetToSeq(S)
             c == changed'
             n == Len(changed)
  <1>1. /\ want' = [fd \in BackendFd |-> IF fd \in fds THEN {} ELSE want[fd]]
        /\ c = changed \o q
    BY DEF Kill
  <1>2. want' \in [BackendFd -> SUBSET RW] /\ \A x \in BackendFd : want'[x] = IF x \in fds THEN {} ELSE want[x]
    BY <1>1
  <1>30. X \subseteq BackendFd
    OBVIOUS
  <1>31. \A s \in S : \E x \in X : s = [fd |-> x, ioset |-> FALSE]
    OBVIOUS
  <1>3. X \subseteq BackendFd /\ \A s \in S : s \in ListedChange /\ s.fd \in X /\ ~s.ioset
    <2> HIDE DEF X, S
    <2> SUFFICES ASSUME NEW s \in S PROVE s \in ListedChange /\ s.fd \in X /\ ~s.ioset
      BY <1>30
    <2>1. PICK x \in X : s = [fd |-> x, ioset |-> FALSE]
      BY <1>31
    <2>2. s.fd = x /\ s.ioset = FALSE
      BY <2>1
    <2>3. s \in ListedChange
      BY <1>30, <2>1 DEF ListedChange
    <2> QED
      BY <2>2, <2>3
  <1>4. \A s, t \in S : s.fd = t.fd => s = t
    <2> HIDE DEF X, S
    <2> SUFFICES ASSUME NEW s \in S, NEW t \in S, s.fd = t.fd PROVE s = t
      OBVIOUS
    <2>1. PICK x \in X : s = [fd |-> x, ioset |-> FALSE]
      BY <1>31
    <2>2. PICK y \in X : t = [fd |-> y, ioset |-> FALSE]
      BY <1>31
    <2>3. s.fd = x /\ t.fd = y
      BY <2>1, <2>2
    <2> QED
      BY <2>1, <2>2, <2>3
  <1>5. IsFiniteSet(S)
    <2>1. IsFiniteSet(BackendFd)
      BY MachinesAssumption DEF MachinesAssumption, BackendsAssumption
    <2>2. IsFiniteSet(X)
      <3> HIDE DEF X
      <3> QED
        BY <1>3, <2>1, FS_Subset
    <2> DEFINE img == [x \in X |-> [fd |-> x, ioset |-> FALSE]]
    <2> HIDE DEF X
    <2>3. img \in Surjection(X, S)
      BY DEF Surjection
    <2> QED
      BY <2>2, <2>3, FS_Surjection
  <1>51. \A x \in X : \E s \in S : s.fd = x
    <2> SUFFICES ASSUME NEW x \in X PROVE \E s \in S : s.fd = x
      OBVIOUS
    <2> DEFINE s == [fd |-> x, ioset |-> FALSE]
    <2>1. s \in S /\ s.fd = x
      OBVIOUS
    <2> QED
      BY <2>1
  <1> HIDE DEF S
  <1>6. /\ q \in Seq(S)
        /\ \A i, j \in 1..Len(q) : q[i] = q[j] => i = j
        /\ \A x \in S : \E i \in 1..Len(q) : q[i] = x
        /\ \A i \in 1..Len(q) : q[i] \in S
    BY <1>5, SetAsSeq
  <1> HIDE DEF q, c, X
  <1>7. /\ changed \in Seq(ListedChange) /\ n \in Nat
        /\ \A i, j \in 1..n : changed[i].fd = changed[j].fd => i = j
    BY DEF ChangesListed
  <1>8. q \in Seq(ListedChange) /\ Len(q) \in Nat
    <2>1. S \subseteq ListedChange
      BY <1>3
    <2> QED
      BY <1>6, <2>1, SeqMonotonic
  <1>9. /\ c \in Seq(ListedChange) /\ Len(c) = n + Len(q)
        /\ \A i \in 1..(n + Len(q)) : c[i] = IF i <= n THEN changed[i] ELSE q[i - n]
    BY <1>1, <1>7, <1>8, ConcatProperties
  <1>10. /\ \A i \in 1..Len(c) : (i \in 1..n /\ c[i] = changed[i]) \/ (i - n \in 1..Len(q) /\ i \notin 1..n /\ c[i] = q[i - n])
         /\ \A i \in 1..n : i \in 1..Len(c) /\ c[i] = changed[i]
         /\ \A i \in 1..Len(q) : n + i \in 1..Len(c) /\ c[n + i] = q[i]
    <2> HIDE DEF n
    <2>1. ASSUME NEW i \in 1..Len(q) PROVE n + i \in 1..Len(c) /\ c[n + i] = q[i]
      <3>1. n + i \in 1..(n + Len(q)) /\ ~(n + i <= n) /\ (n + i) - n = i
        BY <1>7, <1>8
      <3> QED
        BY <1>9, <3>1
    <2> QED
      BY <1>7, <1>8, <1>9, <2>1
  <1>11. \A i \in 1..Len(q) : q[i].fd \in X /\ ~q[i].ioset
    BY <1>3, <1>6
  <1>12. \A x \in X : \A i \in 1..n : changed[i].fd # x
    BY DEF X, Waits
  <1> HIDE DEF n
  <1>13. ChangesListed(c)
    <2> SUFFICES ASSUME NEW i \in 1..Len(c), NEW j \in 1..Len(c), c[i].fd = c[j].fd PROVE i = j
      BY <1>9 DEF ChangesListed
    <2>1. CASE i \in 1..n /\ j \in 1..n
      BY <1>7, <1>10, <2>1
    <2>2. CASE i \notin 1..n /\ j \notin 1..n
      <3>1. /\ i - n \in 1..Len(q) /\ c[i] = q[i - n]
            /\ j - n \in 1..Len(q) /\ c[j] = q[j - n]
        BY <1>10, <2>2
      <3>2. q[i - n] = q[j - n]
        BY <1>4, <1>6, <3>1
      <3>3. i - n = j - n
        BY <1>6, <3>1, <3>2
      <3> QED
        BY <1>7, <3>3
    <2>3. CASE i \in 1..n /\ j \notin 1..n
      <3>1. c[i] = changed[i] /\ c[j].fd \in X
        BY <1>10, <1>11, <2>3
      <3> QED
        BY <1>12, <2>3, <3>1
    <2>4. CASE i \notin 1..n /\ j \in 1..n
      <3>1. c[j] = changed[j] /\ c[i].fd \in X
        BY <1>10, <1>11, <2>4
      <3> QED
        BY <1>12, <2>4, <3>1
    <2> QED
      BY <2>1, <2>2, <2>3, <2>4
  <1>14. EventsKnown(events, want', c)
    <2> SUFFICES ASSUME NEW x \in BackendFd, ~Waiting(c, x) PROVE events[x] = want'[x]
      BY DEF EventsKnown
    <2>1. ~Waiting(changed, x)
      BY <1>10 DEF Waiting, n
    <2>2. events[x] = want[x]
      BY <2>1 DEF EventsKnown
    <2>3. x \notin X
      <3> SUFFICES ASSUME x \in X PROVE FALSE
        OBVIOUS
      <3>1. PICK s \in S : s.fd = x
        BY <1>51
      <3>2. PICK i \in 1..Len(q) : q[i] = s
        BY <1>6
      <3> QED
        BY <1>10, <3>1, <3>2 DEF Waiting
    <2>4. x \in fds => want[x] = {}
      BY <2>1, <2>3 DEF X, Waits, Waiting
    <2> QED
      BY <1>2, <2>2, <2>4
  <1>15. ASSUME NEW op, NEW nt PROVE SureOf(op, nt, c) = SureOf(op, nt, changed)
    <2>1. \A x : (\A i \in 1..Len(c) : c[i].fd = x => ~c[i].ioset) <=>
                 (\A i \in 1..n : changed[i].fd = x => ~changed[i].ioset)
      BY <1>10, <1>11
    <2> QED
      BY <2>1 DEF SureOf, n
  <1> QED
    BY <1>2, <1>13, <1>14, <1>15 DEF c

LEMMA BackendStarts == BackendInit => BackendInv
  <1> SUFFICES ASSUME BackendInit PROVE BackendInv
    OBVIOUS
  <1>1. Backed \in BackendState
    <2>1. <<>> \in Seq(PollEntry) /\ <<>> \in Seq(FilterChange)
      BY EmptySeq
    <2> QED
      BY <2>1 DEF BackendInit, Backed, BackendState
  <1>2. ChangesListed(changed) /\ EventsKnown(events, want, changed)
    BY EmptySeq DEF BackendInit, ChangesListed, EventsKnown
  <1>3. \A fd \in BackendFd : Watches(kernel_has, kqueue_changes, fd) = {}
    BY DEF BackendInit, Watches, WouldWatch
  <1>4. BackendTold(Backed, events, SureOf(open_fds, not_told, changed))
    <2>1. PollKnows(Backed, events)
      BY BackedFields DEF BackendInit, PollKnows
    <2>2. SelectKnows(Backed, events)
      BY BackedFields DEF BackendInit, SelectKnows
    <2>3. KqueueKnows(Backed, events, SureOf(open_fds, not_told, changed))
      BY <1>3, BackedFields DEF BackendInit, KqueueKnows, KernelSubset
    <2>4. KernelSubset(Backed.kernel, events, SureOf(open_fds, not_told, changed))
      BY BackedFields DEF BackendInit, KernelSubset
    <2> QED
      BY <2>1, <2>2, <2>3, <2>4 DEF BackendTold
  <1>5. Forgotten(kernel_has, open_fds)
    BY DEF BackendInit, Forgotten
  <1> QED
    BY <1>1, <1>2, <1>4, <1>5 DEF BackendInit, BackendInv

LEMMA WantKeeps ==
  ASSUME BackendInv, NEW fd \in BackendFd, NEW ev \in SUBSET RW, NEW ioset \in BOOLEAN, Want(fd, ev, ioset)
  PROVE  BackendInv'
  <1>1. /\ backend_phase = "run" /\ UNCHANGED <<backend, events, backend_phase>>
        /\ want' = [want EXCEPT ![fd] = ev] /\ changed' = Changed(fd, ioset)
        /\ not_told' = IF ioset THEN not_told \ {fd} ELSE not_told
        /\ UNCHANGED <<open_fds, be>>
    BY DEF Want, Runs
  <1>2. Backed' = Backed /\ kernel_has' = kernel_has
    BY <1>1 DEF Backed, be
  <1> DEFINE c == changed'
  <1>3. c = Changed(fd, ioset) /\ ChangesListed(changed)
    BY <1>1 DEF BackendInv
  <1> HIDE DEF c
  <1>4. /\ ChangesListed(c)
        /\ \A x : Waiting(c, x) <=> Waiting(changed, x) \/ x = fd
        /\ \A op, nt : SureOf(op, nt, c) = IF ioset THEN SureOf(op, nt, changed) \ {fd}
                                            ELSE SureOf(op, nt, changed)
    BY <1>3, ChangesAfter
  <1>5. EventsKnown(events, want', c) /\ want' \in [BackendFd -> SUBSET RW]
    BY <1>1, <1>4 DEF BackendInv, EventsKnown
  <1>6. SureOf(open_fds, not_told', c) \subseteq SureOf(open_fds, not_told, changed)
    <2>1. SureOf(open_fds, not_told', c) = IF ioset THEN SureOf(open_fds, not_told', changed) \ {fd}
                                            ELSE SureOf(open_fds, not_told', changed)
      BY <1>4
    <2> QED
      BY <1>1, <2>1 DEF SureOf
  <1>7. BackendTold(Backed, events, SureOf(open_fds, not_told', c))
    BY <1>6, KnowsLess DEF BackendInv
  <1> QED
    BY <1>1, <1>2, <1>4, <1>5, <1>7 DEF BackendInv, BackendTold, c

\* the descriptors that are open do not matter to what a backend was told
LEMMA CloseKeeps ==
  ASSUME BackendInv, NEW fd \in BackendFd, CloseFd(fd)
  PROVE  BackendInv'
  <1> DEFINE sure == SureOf(open_fds, not_told, changed)
  <1>1. /\ open_fds' = open_fds \ {fd} /\ kernel_has' = [kernel_has EXCEPT ![fd] = {}]
        /\ UNCHANGED <<want, changed, polls, pollidxs, vec_ri, vec_wi, vec_max, kqueue_changes, not_told>>
        /\ UNCHANGED <<backend, events, backend_phase>>
    BY DEF CloseFd, Runs
  <1>2. /\ Backed \in BackendState /\ BackendTold(Backed, events, sure) /\ Forgotten(kernel_has, open_fds)
    BY DEF BackendInv
  <1>3. /\ Backed'.polls = Backed.polls /\ Backed'.pollidxs = Backed.pollidxs /\ Backed'.ri = Backed.ri
        /\ Backed'.wi = Backed.wi /\ Backed'.max = Backed.max /\ Backed'.kq = Backed.kq
        /\ Backed'.kernel = kernel_has'
    BY <1>1 DEF Backed
  <1>4. kernel_has \in [BackendFd -> SUBSET RW]
    BY <1>2, BackedFields DEF BackendState
  <1>5. kernel_has' \in [BackendFd -> SUBSET RW] /\ kernel_has'[fd] = {}
        /\ \A x \in BackendFd : x # fd => kernel_has'[x] = kernel_has[x]
    BY <1>1, <1>4
  <1>6. Backed' \in BackendState
    <2>1. Backed' = [Backed EXCEPT !.kernel = kernel_has']
      BY <1>1 DEF Backed
    <2> QED
      BY <1>2, <1>5, <2>1 DEF BackendState
  <1>7. Forgotten(kernel_has', open_fds')
    BY <1>1, <1>2, <1>5 DEF Forgotten
  <1>8. SureOf(open_fds', not_told, changed) \subseteq sure /\ fd \notin SureOf(open_fds', not_told, changed)
    BY <1>1 DEF SureOf
  <1> DEFINE sure2 == SureOf(open_fds', not_told, changed)
  <1> HIDE DEF sure, sure2
  <1>9. ASSUME KernelSubset(kernel_has, events, sure)
        PROVE  KernelSubset(kernel_has', events, sure2)
    BY <1>5, <1>8, <1>9 DEF KernelSubset, sure2
  <1>10. ASSUME KqueueKnows(Backed, events, sure)
         PROVE  KqueueKnows(Backed', events, sure2)
    <2>1. \A x \in BackendFd : x # fd => Watches(kernel_has', kqueue_changes, x) = Watches(kernel_has, kqueue_changes, x)
      BY <1>5 DEF Watches, WouldWatch
    <2>2. Watches(kernel_has', kqueue_changes, fd) \subseteq Watches(kernel_has, kqueue_changes, fd)
      BY <1>5 DEF Watches, WouldWatch
    <2>3. \A x \in BackendFd : /\ Watches(kernel_has, kqueue_changes, x) \subseteq events[x]
                               /\ x \in sure => Watches(kernel_has, kqueue_changes, x) = events[x]
      BY <1>10, BackedFields DEF KqueueKnows, KernelSubset
    <2>4. Backed'.kq = kqueue_changes
      BY <1>3, BackedFields
    <2> QED
      BY <1>3, <1>8, <2>1, <2>2, <2>3, <2>4 DEF KqueueKnows, KernelSubset, sure2
  <1>11. ASSUME PollKnows(Backed, events) PROVE PollKnows(Backed', events)
    BY <1>3, <1>11 DEF PollKnows
  <1>12. ASSUME SelectKnows(Backed, events) PROVE SelectKnows(Backed', events)
    BY <1>3, <1>12 DEF SelectKnows
  <1>13. /\ backend = "poll" => PollKnows(Backed', events)
         /\ backend = "select" => SelectKnows(Backed', events)
         /\ backend = "kqueue" => KqueueKnows(Backed', events, sure2)
         /\ backend = "port" => KernelSubset(Backed'.kernel, events, sure2)
    BY <1>2, <1>3, <1>9, <1>10, <1>11, <1>12, BackedFields DEF BackendTold
  <1>14. BackendTold(Backed, events, SureOf(open_fds, not_told, changed))'
    BY <1>1, <1>13 DEF BackendTold, sure2
  <1> QED
    BY <1>1, <1>6, <1>7, <1>14 DEF BackendInv

LEMMA OpenKeeps ==
  ASSUME BackendInv, NEW fd \in BackendFd, OpenFd(fd)
  PROVE  BackendInv'
  <1>1. /\ open_fds' = open_fds \cup {fd} /\ not_told' = not_told \cup {fd}
        /\ UNCHANGED <<want, changed, be>> /\ UNCHANGED <<backend, events, backend_phase>>
    BY DEF OpenFd, Runs
  <1>2. Backed' = Backed /\ kernel_has' = kernel_has
    BY <1>1 DEF Backed, be
  <1>3. SureOf(open_fds', not_told', changed) \subseteq SureOf(open_fds, not_told, changed)
    BY <1>1 DEF SureOf
  <1>4. BackendTold(Backed, events, SureOf(open_fds', not_told', changed))
    BY <1>3, KnowsLess DEF BackendInv
  <1>5. Forgotten(kernel_has, open_fds')
    BY <1>1 DEF BackendInv, Forgotten
  <1> QED
    BY <1>1, <1>2, <1>4, <1>5 DEF BackendInv, BackendTold

\* a step that leaves what the backend was told
LEMMA KillsKeep ==
  ASSUME BackendInv, NEW fds \in SUBSET BackendFd, Kill(fds), backend_phase' = "run",
         UNCHANGED <<backend, open_fds, events, be, not_told>>
  PROVE  BackendInv'
  <1>1. Backed' = Backed /\ kernel_has' = kernel_has
    BY DEF Backed, be
  <1>2. /\ want' \in [BackendFd -> SUBSET RW] /\ ChangesListed(changed')
        /\ EventsKnown(events, want', changed')
        /\ \A op, nt : SureOf(op, nt, changed') = SureOf(op, nt, changed)
    BY KillKeeps DEF BackendInv
  <1>3. SureOf(open_fds, not_told, changed') = SureOf(open_fds, not_told, changed)
    BY <1>2
  <1> QED
    BY <1>1, <1>2, <1>3 DEF BackendInv, BackendTold

LEMMA ChangeTaken ==
  ASSUME NEW cs, ChangesListed(cs), cs # <<>>, NEW h, h = Head(cs), NEW c, c = Tail(cs)
  PROVE  /\ h \in ListedChange /\ ChangesListed(c)
         /\ \A x : Waiting(c, x) <=> Waiting(cs, x) /\ x # h.fd
         /\ \A op, nt : SureOf(op, nt, c) \subseteq SureOf(op, nt, cs) \cup {h.fd}
         /\ ~h.ioset => \A op, nt : SureOf(op, nt, c) \subseteq SureOf(op, nt, cs)
  <1> DEFINE n == Len(cs)
  <1>0. /\ cs \in Seq(ListedChange) /\ n \in Nat
        /\ \A i, j \in 1..n : cs[i].fd = cs[j].fd => i = j
    BY DEF ChangesListed
  <1>1. /\ h \in ListedChange /\ c \in Seq(ListedChange) /\ Len(c) = n - 1
        /\ \A i \in 1..Len(c) : c[i] = cs[i + 1]
    BY <1>0, HeadTailProperties
  <1>2. n # 0 /\ h = cs[1]
    BY <1>0, EmptySeq
  <1> HIDE DEF n
  <1>3. /\ \A i \in 1..Len(c) : i + 1 \in 1..n /\ c[i] = cs[i + 1] /\ i + 1 # 1
        /\ \A i \in 1..n : i = 1 \/ (i - 1 \in 1..Len(c) /\ c[i - 1] = cs[i])
        /\ 1 \in 1..n
    <2>1. ASSUME NEW i \in 1..n, i # 1 PROVE i - 1 \in 1..Len(c) /\ c[i - 1] = cs[i]
      <3>1. i - 1 \in 1..Len(c) /\ (i - 1) + 1 = i
        BY <1>0, <1>1, <2>1
      <3> QED
        BY <1>1, <3>1
    <2> QED
      BY <1>0, <1>1, <1>2, <2>1
  <1>4. ChangesListed(c)
    <2> SUFFICES ASSUME NEW i \in 1..Len(c), NEW j \in 1..Len(c), c[i].fd = c[j].fd PROVE i = j
      BY <1>1 DEF ChangesListed
    <2>1. i + 1 = j + 1
      BY <1>0, <1>3
    <2> QED
      BY <2>1
  <1>5. ASSUME NEW x PROVE Waiting(c, x) <=> Waiting(cs, x) /\ x # h.fd
    <2>1. ASSUME Waiting(c, x) PROVE Waiting(cs, x) /\ x # h.fd
      <3>1. PICK i \in 1..Len(c) : c[i].fd = x
        BY <2>1 DEF Waiting
      <3>2. i + 1 \in 1..n /\ cs[i + 1].fd = x /\ i + 1 # 1
        BY <1>3, <3>1
      <3>3. x # cs[1].fd
        BY <1>0, <1>3, <3>2
      <3> QED
        BY <1>2, <3>2, <3>3 DEF Waiting, n
    <2>2. ASSUME Waiting(cs, x), x # h.fd PROVE Waiting(c, x)
      BY <1>2, <1>3, <2>2 DEF Waiting, n
    <2> QED
      BY <2>1, <2>2
  <1> DEFINE Now(x) == \A i \in 1..Len(c) : c[i].fd = x => ~c[i].ioset
             Then(x) == \A i \in 1..Len(cs) : cs[i].fd = x => ~cs[i].ioset
  <1>6. /\ \A x : Now(x) /\ x # h.fd => Then(x)
        /\ ~h.ioset => \A x : Now(x) => Then(x)
    BY <1>2, <1>3 DEF n
  <1>7. \A op, nt : /\ SureOf(op, nt, c) = {x \in op \ nt : Now(x)}
                    /\ SureOf(op, nt, cs) = {x \in op \ nt : Then(x)}
    BY DEF SureOf
  <1> HIDE DEF Now, Then
  <1> QED
    BY <1>1, <1>4, <1>5, <1>6, <1>7

LEMMA BackendReifyKeeps ==
  ASSUME BackendInv, BackendReify
  PROVE  BackendInv'
  <1> DEFINE h == Head(changed)
             fd == h.fd
             nev == want[fd]
             b == IF events[fd] # want[fd] \/ Head(changed).ioset
                    THEN BackendModify(Backed, fd, events[fd], want[fd]) ELSE Backed
             q == Tail(changed)
             sure == SureOf(open_fds, not_told, changed)
             es2 == ReifiedEvents(events, fd, nev)
  <1>1. /\ backend_phase = "run" /\ changed # <<>>
        /\ BackendBecomes(b)
        /\ events' = [events EXCEPT ![fd] = want[fd]]
        /\ want' = [want EXCEPT ![fd] = IF fd \in b.killed THEN {} ELSE @]
        /\ changed' = IF fd \in b.killed THEN Append(q, [fd |-> fd, ioset |-> FALSE]) ELSE q
        /\ UNCHANGED <<backend, open_fds, backend_phase, not_told, backend_changes>>
    BY Zenon DEF BackendReify
  <1>2. /\ backend \in Backend /\ want \in [BackendFd -> SUBSET RW] /\ events \in [BackendFd -> SUBSET RW]
        /\ ChangesListed(changed) /\ EventsKnown(events, want, changed)
        /\ Backed \in BackendState /\ Forgotten(Backed.kernel, open_fds) /\ BackendTold(Backed, events, sure)
    BY BackedFields DEF BackendInv
  <1>3. changed # <<>> /\ h = Head(changed) /\ q = Tail(changed)
    BY <1>1
  <1> HIDE DEF h, q
  <1>4. /\ h \in ListedChange /\ ChangesListed(q)
        /\ \A x : Waiting(q, x) <=> Waiting(changed, x) /\ x # h.fd
        /\ \A op, nt : SureOf(op, nt, q) \subseteq SureOf(op, nt, changed) \cup {h.fd}
        /\ ~h.ioset => \A op, nt : SureOf(op, nt, q) \subseteq SureOf(op, nt, changed)
    BY <1>2, <1>3, ChangeTaken
  <1>5. fd \in BackendFd /\ nev \in SUBSET RW /\ Waiting(changed, fd) = Waiting(changed, fd)
    BY <1>2, <1>4 DEF ListedChange
  <1>6. sure \subseteq open_fds
    BY DEF SureOf
  <1> DEFINE sure2 == SureOf(open_fds, not_told, q)
  <1>7. sure2 \subseteq (sure \cup {fd}) \cap open_fds /\ (~h.ioset => sure2 \subseteq sure)
    <2>1. sure2 \subseteq open_fds
      BY DEF SureOf
    <2> QED
      BY <1>4, <2>1
  <1> HIDE DEF fd, nev
  <1>8. /\ b \in BackendState /\ Forgotten(b.kernel, open_fds) /\ BackendTold(b, es2, sure2)
        /\ b.killed = {} \/ (b.killed = {fd} /\ fd \notin open_fds)
    <2>1. CASE events[fd] # want[fd] \/ h.ioset
      <3>1. b = BackendModify(Backed, fd, events[fd], nev)
        BY <2>1 DEF nev, h
      <3>2. Backed.killed = {}
        BY BackedFields
      <3> DEFINE r == b
                 s == Backed
                 sure3 == (sure \cup {fd}) \cap open_fds
      <3>3. r = BackendModify(s, fd, events[fd], nev) /\ s.killed = {} /\ s \in BackendState
            /\ BackendTold(s, events, sure) /\ Forgotten(s.kernel, open_fds)
        BY <1>2, <3>1, <3>2
      <3> HIDE DEF r, s, b, sure
      <3>40. ModifyTold(r, ReifiedEvents(events, fd, nev), sure, fd)
        BY <1>2, <1>5, <1>6, <3>3, BackendModified
      <3>4. /\ r \in BackendState /\ Forgotten(r.kernel, open_fds)
            /\ BackendTold(r, ReifiedEvents(events, fd, nev), (sure \cup {fd}) \cap open_fds)
            /\ r.killed = {} \/ (r.killed = {fd} /\ fd \notin open_fds)
        BY <3>40 DEF ModifyTold
      <3>5. BackendTold(r, es2, sure3)
        BY <3>4
      <3> HIDE DEF sure2, sure3, es2
      <3>6. sure2 \subseteq sure3
        BY <1>7 DEF sure3
      <3>7. BackendTold(r, es2, sure2)
        BY <3>5, <3>6, KnowsLess
      <3> QED
        BY <3>4, <3>7 DEF r
    <2>2. CASE ~(events[fd] # want[fd] \/ h.ioset)
      <3>1. b = Backed
        BY <2>2 DEF h
      <3>2. es2 = events
        BY <1>2, <1>5, <2>2 DEF ReifiedEvents, nev
      <3>3. sure2 \subseteq sure
        BY <1>7, <2>2
      <3> HIDE DEF b, sure, sure2, es2
      <3>4. BackendTold(Backed, events, sure2)
        BY <1>2, <3>3, KnowsLess
      <3> QED
        BY <1>2, <3>1, <3>2, <3>4, BackedFields
    <2> QED
      BY <2>1, <2>2
  <1> HIDE DEF b
  <1>9. /\ Backed' \in BackendState /\ kernel_has' = b.kernel /\ Backed'.kernel = b.kernel
        /\ PollKnows(b, es2) => PollKnows(Backed', es2)
        /\ SelectKnows(b, es2) => SelectKnows(Backed', es2)
        /\ KqueueKnows(b, es2, sure2) => KqueueKnows(Backed', es2, sure2)
    <2> HIDE DEF es2, sure2
    <2> QED
      BY <1>1, <1>8, BackedAfter
  <1>10. events' = es2 /\ es2[fd] = nev /\ events' \in [BackendFd -> SUBSET RW]
         /\ \A x \in BackendFd : x # fd => es2[x] = events[x]
    BY <1>1, <1>2, <1>5 DEF ReifiedEvents, nev
  <1> HIDE DEF es2, sure, sure2
  <1>11. /\ want' \in [BackendFd -> SUBSET RW] /\ ChangesListed(changed')
         /\ EventsKnown(events', want', changed')
         /\ SureOf(open_fds, not_told, changed') = sure2
    <2>1. CASE fd \notin b.killed
      <3>1. changed' = q /\ want' = want
        BY <1>1, <1>2, <1>5, <2>1
      <3>2. ASSUME NEW x \in BackendFd, ~Waiting(q, x) PROVE events'[x] = want[x]
        <4>1. CASE x = fd
          BY <1>10, <4>1 DEF nev
        <4>2. CASE x # fd
          <5>1. ~Waiting(changed, x)
            BY <1>4, <3>2, <4>2 DEF fd
          <5> QED
            BY <1>2, <1>10, <4>2, <5>1 DEF EventsKnown
        <4> QED
          BY <4>1, <4>2
      <3> QED
        BY <1>2, <1>4, <3>1, <3>2 DEF EventsKnown, sure2
    <2>2. CASE fd \in b.killed
      <3> DEFINE c == changed'
      <3>1. c = Append(q, [fd |-> fd, ioset |-> FALSE])
        BY <1>1, <2>2
      <3>2. ~Waiting(q, fd)
        BY <1>4 DEF fd
      <3>3. want' \in [BackendFd -> SUBSET RW] /\ \A x \in BackendFd : x # fd => want'[x] = want[x]
        BY <1>1, <1>2, <1>5
      <3> HIDE DEF c
      <3>4. /\ ChangesListed(c)
            /\ \A x : Waiting(c, x) <=> Waiting(q, x) \/ x = fd
            /\ \A op, nt : SureOf(op, nt, c) = SureOf(op, nt, q)
        <4> DEFINE no == FALSE
        <4>1. no \in BOOLEAN /\ c = Append(q, [fd |-> fd, ioset |-> no])
          BY <3>1
        <4> HIDE DEF no
        <4>2. ChangeAdded(q, fd, no, c)
          BY <1>4, <1>5, <3>2, <4>1, ChangeAppended
        <4> QED
          BY <4>2 DEF ChangeAdded, no
      <3>5. ASSUME NEW x \in BackendFd, ~Waiting(c, x) PROVE events'[x] = want'[x]
        <4>1. x # fd /\ ~Waiting(changed, x)
          BY <1>4, <3>4, <3>5 DEF fd
        <4> QED
          BY <1>2, <1>10, <3>3, <4>1 DEF EventsKnown
      <3>6. SureOf(open_fds, not_told, c) = sure2
        BY <3>4 DEF sure2
      <3> QED
        BY <3>3, <3>4, <3>5, <3>6 DEF EventsKnown, c
    <2> QED
      BY <2>1, <2>2
  <1>12. BackendTold(Backed, events, SureOf(open_fds, not_told, changed))'
    BY <1>1, <1>8, <1>9, <1>10, <1>11 DEF BackendTold
  <1>13. Forgotten(kernel_has, open_fds)'
    BY <1>1, <1>8, <1>9
  <1> QED
    BY <1>1, <1>9, <1>10, <1>11, <1>12, <1>13 DEF BackendInv

LEMMA KqueuePollKeeps ==
  ASSUME BackendInv, KqueuePoll
  PROVE  BackendInv'
  <1> DEFINE sure == SureOf(open_fds, not_told, changed)
             t == Taken(kernel_has, kqueue_changes)
             s == [Backed EXCEPT !.kernel = t.kernel, !.kq = <<>>]
             b == Resubmitted(s, t.errs)
  <1>1. /\ backend = "kqueue" /\ BackendBecomes(b) /\ Kill(b.killed) /\ backend_phase' = "run"
        /\ UNCHANGED <<backend, open_fds, events, not_told, backend_changes>>
    BY Zenon DEF KqueuePoll
  <1>2. /\ want \in [BackendFd -> SUBSET RW] /\ events \in [BackendFd -> SUBSET RW]
        /\ ChangesListed(changed) /\ EventsKnown(events, want, changed)
        /\ Backed \in BackendState /\ Forgotten(kernel_has, open_fds) /\ BackendTold(Backed, events, sure)
    BY DEF BackendInv
  <1>3. kernel_has \in [BackendFd -> SUBSET RW] /\ kqueue_changes \in Seq(FilterChange)
    BY <1>2, BackedFields DEF BackendState
  <1> HIDE DEF t
  <1>4. /\ t.kernel \in [BackendFd -> SUBSET RW] /\ t.errs \in Seq(BackendFd)
        /\ \A fd \in BackendFd :
             t.kernel[fd] = IF fd \in open_fds THEN Watches(kernel_has, kqueue_changes, fd) ELSE kernel_has[fd]
    BY <1>3, TakenWatches DEF t
  <1>5. s \in BackendState /\ s.kernel = t.kernel /\ s.kq = <<>> /\ s.killed = {}
    <2> DEFINE K == t.kernel
               none == <<>>
    <2>1. none \in Seq(FilterChange) /\ none = <<>>
      BY EmptySeq
    <2>2. s = [Backed EXCEPT !.kernel = K, !.kq = none] /\ K \in [BackendFd -> SUBSET RW]
      BY <1>4
    <2> HIDE DEF K, none, s
    <2>3. s \in BackendState /\ s.kernel = K /\ s.kq = none /\ s.killed = Backed.killed
      BY <1>2, <2>1, <2>2 DEF BackendState
    <2> QED
      BY <2>1, <2>3, BackedFields DEF K
  <1> HIDE DEF s
  <1> DEFINE errs == t.errs
  <1>6. b = Resubmitted(s, errs) /\ errs \in Seq(BackendFd)
    BY <1>4
  <1> HIDE DEF b, errs
  <1>7. b \in ResubmittedSet(s)
    BY <1>2, <1>5, <1>6, AllResubmitted
  <1>8. /\ b \in BackendState /\ b.kernel = t.kernel /\ b.kq \in Seq(Additions)
        /\ b.killed \in SUBSET BackendFd
    BY <1>5, <1>7 DEF ResubmittedSet, BackendState
  <1>9. KqueueKnows(b, events, sure)
    <2>1. \A x \in BackendFd : /\ Watches(kernel_has, kqueue_changes, x) \subseteq events[x]
                               /\ x \in sure => Watches(kernel_has, kqueue_changes, x) = events[x]
      BY <1>1, <1>2, BackedFields DEF BackendTold, KqueueKnows, KernelSubset
    <2> SUFFICES ASSUME NEW x \in BackendFd
                 PROVE  /\ Watches(b.kernel, b.kq, x) \subseteq events[x]
                        /\ x \in sure => Watches(b.kernel, b.kq, x) = events[x]
      BY DEF KqueueKnows, KernelSubset
    <2> DEFINE K == t.kernel
               q == b.kq
    <2>2. K \in [BackendFd -> SUBSET RW] /\ q \in Seq(Additions)
      BY <1>4, <1>8
    <2> HIDE DEF K, q
    <2>3. /\ K[x] \subseteq Watches(K, q, x) /\ Watches(K, q, x) \subseteq K[x] \cup events[x]
          /\ x \notin open_fds => Watches(K, q, x) = K[x]
      BY <2>2, AdditionsWatched
    <2>4. b.kernel = K /\ b.kq = q
      BY <1>8 DEF K, q
    <2>5. CASE x \in open_fds
      <3>1. K[x] = Watches(kernel_has, kqueue_changes, x)
        BY <1>4, <2>5 DEF K
      <3> QED
        BY <2>1, <2>3, <2>4, <3>1
    <2>6. CASE x \notin open_fds
      <3>1. K[x] = {} /\ x \notin sure
        BY <1>2, <1>4, <2>6 DEF K, Forgotten, SureOf
      <3> QED
        BY <2>3, <2>4, <2>6, <3>1
    <2> QED
      BY <2>5, <2>6
  <1>10. Forgotten(b.kernel, open_fds)
    BY <1>2, <1>4, <1>8 DEF Forgotten
  <1> HIDE DEF sure
  <1>11. /\ Backed' \in BackendState /\ kernel_has' = b.kernel
         /\ KqueueKnows(b, events, sure) => KqueueKnows(Backed', events, sure)
    BY <1>1, <1>8, BackedAfter
  <1> DEFINE fds == b.killed
  <1>12. fds \in SUBSET BackendFd /\ Kill(fds)
    BY <1>1, <1>8
  <1> HIDE DEF fds
  <1>13. /\ want' \in [BackendFd -> SUBSET RW] /\ ChangesListed(changed')
         /\ EventsKnown(events, want', changed')
         /\ \A op, nt : SureOf(op, nt, changed') = SureOf(op, nt, changed)
    BY <1>2, <1>12, KillKeeps
  <1>14. SureOf(open_fds, not_told, changed') = sure
    BY <1>13 DEF sure
  <1>15. BackendTold(Backed, events, SureOf(open_fds, not_told, changed))'
    BY <1>1, <1>9, <1>11, <1>14 DEF BackendTold
  <1> QED
    BY <1>1, <1>10, <1>11, <1>13, <1>15 DEF BackendInv

LEMMA PortPollKeeps ==
  ASSUME BackendInv, PortPoll
  PROVE  BackendInv'
  <1>1. /\ backend = "port" /\ backend_phase' = "run"
        /\ UNCHANGED <<backend, open_fds, want, events, changed, not_told, backend_changes>>
    BY DEF PortPoll
  <1>2. CASE UNCHANGED be
    <2>1. Backed' = Backed /\ kernel_has' = kernel_has
      BY <1>2 DEF Backed, be
    <2> QED
      BY <1>1, <2>1 DEF BackendInv, BackendTold
  <1>3. ASSUME NEW fd \in BackendFd, kernel_has[fd] # {},
               kernel_has' = [kernel_has EXCEPT ![fd] = events[fd]],
               UNCHANGED <<polls, pollidxs, vec_ri, vec_wi, vec_max, kqueue_changes>>
        PROVE  BackendInv'
    <2> DEFINE sure == SureOf(open_fds, not_told, changed)
    <2>1. /\ Backed \in BackendState /\ Forgotten(kernel_has, open_fds)
          /\ KernelSubset(kernel_has, events, sure) /\ events \in [BackendFd -> SUBSET RW]
      BY <1>1, BackedFields DEF BackendInv, BackendTold
    <2>2. kernel_has \in [BackendFd -> SUBSET RW]
      BY <2>1, BackedFields DEF BackendState
    <2>3. kernel_has' \in [BackendFd -> SUBSET RW] /\ kernel_has'[fd] = events[fd]
          /\ \A x \in BackendFd : x # fd => kernel_has'[x] = kernel_has[x]
      BY <1>3, <2>1, <2>2
    <2>4. fd \in open_fds
      BY <1>3, <2>1 DEF Forgotten
    <2>5. Forgotten(kernel_has', open_fds)
      BY <2>1, <2>3, <2>4 DEF Forgotten
    <2>6. KernelSubset(kernel_has', events, sure)
      BY <2>1, <2>3 DEF KernelSubset
    <2>7. Backed' \in BackendState /\ Backed'.kernel = kernel_has'
      <3>1. Backed' = [Backed EXCEPT !.kernel = kernel_has']
        BY <1>3 DEF Backed
      <3> QED
        BY <2>1, <2>3, <3>1 DEF BackendState
    <2>8. BackendTold(Backed, events, SureOf(open_fds, not_told, changed))'
      BY <1>1, <2>6, <2>7 DEF BackendTold
    <2> QED
      BY <1>1, <2>5, <2>7, <2>8 DEF BackendInv
  <1> QED
    BY <1>2, <1>3 DEF PortPoll

LEMMA BackendInductive == BackendInv /\ [BackendNext]_backend_vars => BackendInv'
  <1> SUFFICES ASSUME BackendInv, [BackendNext]_backend_vars PROVE BackendInv'
    OBVIOUS
  <1>1. ASSUME NEW fd \in BackendFd, CloseFd(fd) PROVE BackendInv'
    BY <1>1, CloseKeeps
  <1>2. ASSUME NEW fd \in BackendFd, OpenFd(fd) PROVE BackendInv'
    BY <1>2, OpenKeeps
  <1>3. ASSUME NEW fd \in BackendFd, NEW ev \in SUBSET RW, NEW ioset \in BOOLEAN, Want(fd, ev, ioset)
        PROVE  BackendInv'
    BY <1>3, WantKeeps
  <1>4. CASE BackendReify
    BY <1>4, BackendReifyKeeps
  <1>5. CASE BackendSleep
    <2>1. /\ changed = <<>> /\ backend_phase' = "poll"
          /\ UNCHANGED <<backend, open_fds, want, events, changed, be, not_told, backend_changes>>
      BY <1>5 DEF BackendSleep
    <2>2. Backed' = Backed /\ kernel_has' = kernel_has
      BY <2>1 DEF Backed, be
    <2> QED
      BY <2>1, <2>2 DEF BackendInv, BackendTold
  <1>6. CASE PollPoll
    <2> DEFINE nval == {polls[i].fd : i \in 1..Len(polls)} \ open_fds
    <2>1. /\ Kill(nval) \/ Kill(Enomem) \/ Kill({})
          /\ backend_phase' = "run"
          /\ UNCHANGED <<backend, open_fds, events, be, not_told, backend_changes>>
      BY <1>6 DEF PollPoll
    <2>2. nval \subseteq BackendFd
      <3>1. polls \in Seq(PollEntry)
        BY BackedFields DEF BackendInv, BackendState
      <3>2. \A i \in 1..Len(polls) : polls[i].fd \in BackendFd
        <4>1. \A i \in 1..Len(polls) : polls[i] \in PollEntry
          BY <3>1, ElementOfSeq
        <4> QED
          BY <4>1 DEF PollEntry
      <3> QED
        BY <3>2
    <2>3. Enomem \subseteq BackendFd
      BY DEF Enomem, Wanting
    <2> HIDE DEF nval
    <2> QED
      BY <2>1, <2>2, <2>3, KillsKeep
  <1>7. CASE SelectPoll
    <2>1. /\ Kill(Ebadf) \/ Kill(Enomem) \/ Kill({})
          /\ backend_phase' = "run"
          /\ UNCHANGED <<backend, open_fds, events, be, not_told, backend_changes>>
      BY <1>7 DEF SelectPoll
    <2>2. Ebadf \subseteq BackendFd /\ Enomem \subseteq BackendFd
      BY DEF Ebadf, Enomem, Wanting
    <2> QED
      BY <2>1, <2>2, KillsKeep
  <1>8. CASE KqueuePoll
    BY <1>8, KqueuePollKeeps
  <1>9. CASE PortPoll
    BY <1>9, PortPollKeeps
  <1>10. CASE UNCHANGED backend_vars
    <2>1. /\ UNCHANGED <<backend, open_fds, want, events, changed, be, backend_phase, not_told>>
      BY <1>10 DEF backend_vars
    <2>2. Backed' = Backed /\ kernel_has' = kernel_has
      BY <2>1 DEF Backed, be
    <2> QED
      BY <2>1, <2>2 DEF BackendInv, BackendTold
  <1> QED
    BY <1>1, <1>2, <1>3, <1>4, <1>5, <1>6, <1>7, <1>8, <1>9, <1>10, Zenon DEF BackendNext

LEMMA BackendInvKnows == BackendInv => BackendKnows
  <1> SUFFICES ASSUME BackendInv, backend_phase = "poll", NEW fd \in open_fds \ not_told
               PROVE  Interest(fd) = want[fd]
    BY DEF BackendKnows
  <1> DEFINE sure == SureOf(open_fds, not_told, changed)
  <1>1. /\ changed = <<>> /\ fd \in BackendFd /\ BackendTold(Backed, events, sure)
        /\ Backed \in BackendState /\ EventsKnown(events, want, changed)
        /\ backend \in {"poll", "select", "kqueue", "port"} /\ events \in [BackendFd -> SUBSET RW]
    BY MachinesAssumption DEF BackendInv, MachinesAssumption, BackendsAssumption
  <1>2. fd \in sure /\ events[fd] = want[fd]
    BY <1>1 DEF SureOf, EventsKnown, Waiting
  <1> HIDE DEF sure
  <1>3. CASE backend = "poll"
    <2>1. Interest(fd) = UNION {polls[i].events : i \in {j \in 1..Len(polls) : polls[j].fd = fd}}
      BY <1>3, Zenon DEF Interest
    <2>2. /\ IF events[fd] = {} THEN pollidxs[fd] = -1
             ELSE /\ pollidxs[fd] \in 0..(Len(polls) - 1)
                  /\ polls[pollidxs[fd] + 1] = [fd |-> fd, events |-> events[fd]]
          /\ \A i \in 1..Len(polls) : pollidxs[polls[i].fd] = i - 1
      BY <1>1, <1>3, BackedFields DEF BackendTold, PollKnows
    <2>3. polls \in Seq(PollEntry)
      BY <1>1, BackedFields DEF BackendState
    <2> DEFINE J == {j \in 1..Len(polls) : polls[j].fd = fd}
    <2>4. CASE events[fd] = {}
      <3>1. J = {}
        BY <2>2, <2>4
      <3> QED
        BY <1>2, <2>1, <2>4, <3>1
    <2>5. CASE events[fd] # {}
      <3> DEFINE k == pollidxs[fd] + 1
      <3>1. k \in 1..Len(polls) /\ polls[k].fd = fd /\ polls[k].events = events[fd]
        BY <2>2, <2>3, <2>5
      <3>2. J = {k}
        BY <2>2, <3>1
      <3> HIDE DEF k, J
      <3>3. {polls[i].events : i \in J} = {events[fd]}
        BY <3>1, <3>2
      <3> QED
        BY <1>2, <2>1, <3>3 DEF J
    <2> QED
      BY <2>4, <2>5
  <1>4. CASE backend = "select"
    <2>1. Interest(fd) = (IF fd \in Words(vec_ri) THEN {"EV_READ"} ELSE {})
                               \cup (IF fd \in Words(vec_wi) THEN {"EV_WRITE"} ELSE {})
      BY <1>4, Zenon DEF Interest
    <2>2. /\ fd \in Words(vec_ri) <=> "EV_READ" \in events[fd]
          /\ fd \in Words(vec_wi) <=> "EV_WRITE" \in events[fd]
      BY <1>1, <1>4, BackedFields DEF BackendTold, SelectKnows, Words
    <2>3. events[fd] \subseteq {"EV_READ", "EV_WRITE"}
      BY <1>1 DEF RW
    <2> QED
      BY <1>2, <2>1, <2>2, <2>3
  <1>5. CASE backend = "kqueue"
    <2>1. Interest(fd) = Taken(kernel_has, kqueue_changes).kernel[fd]
      BY <1>5, Zenon DEF Interest
    <2>2. kernel_has \in [BackendFd -> SUBSET RW] /\ kqueue_changes \in Seq(FilterChange)
      BY <1>1, BackedFields DEF BackendState
    <2> DEFINE t == Taken(kernel_has, kqueue_changes)
    <2> HIDE DEF t
    <2>3. /\ t.kernel \in [BackendFd -> SUBSET RW] /\ t.errs \in Seq(BackendFd)
          /\ \A x \in BackendFd :
               t.kernel[x] = IF x \in open_fds THEN Watches(kernel_has, kqueue_changes, x) ELSE kernel_has[x]
      BY <2>2, TakenWatches DEF t
    <2>4. Watches(kernel_has, kqueue_changes, fd) = events[fd]
      BY <1>1, <1>2, <1>5, BackedFields DEF BackendTold, KqueueKnows, KernelSubset
    <2> QED
      BY <1>1, <1>2, <2>1, <2>3, <2>4 DEF t
  <1>6. CASE backend = "port"
    <2>1. Interest(fd) = kernel_has[fd]
      BY <1>6, Zenon DEF Interest
    <2>2. kernel_has[fd] = events[fd]
      BY <1>1, <1>2, <1>6, BackedFields DEF BackendTold, KernelSubset
    <2> QED
      BY <1>2, <2>1, <2>2
  <1> QED
    BY <1>1, <1>3, <1>4, <1>5, <1>6

(* Whichever backend the loop uses, whenever it is about to sleep the      *)
(* backend waits for what the watchers want of every open descriptor,      *)
(* nothing more and nothing less, whatever was closed and reused before    *)
(* if ev_io_set told; and epoll under the current generation               *)
THEOREM BackendsAlwaysKnow == EpollSpec /\ BackendSpec => []BackendsKnow
  <1>1. BackendInit => BackendInv
    BY BackendStarts
  <1>2. BackendInv /\ [BackendNext]_backend_vars => BackendInv'
    BY BackendInductive
  <1>3. BackendInv => BackendKnows
    BY BackendInvKnows
  <1>4. BackendSpec => []BackendKnows
    BY <1>1, <1>2, <1>3, PTL DEF BackendSpec
  <1>5. EpollSpec => []KernelKnows
    BY KernelKnowsAlways
  <1> QED
    BY <1>4, <1>5, PTL DEF BackendsKnow

(* What ev_loop_verify asserts of timers always holds: every parent in the *)
(* heap is due before its children, an entry has its watcher's time, a     *)
(* watcher is at the place that its active field says, and what is pending *)
(* is where it says - whatever callbacks start, stop, adjust, set again    *)
(* and run, and however the clocks go on and jump                          *)
THEOREM HeapsVerifiedAlways == TimersSpec => []HeapsVerified
  <1>0. TimersAssumption
    BY MachinesAssumption
  <1>1. TimersInit => TimersInv
    BY <1>0, TimersStart
  <1>2. TimersInv /\ [TimersNext]_timers_vars => TimersInv'
    BY <1>0, TimersInductive
  <1>3. TimersInv => HeapsVerified
    BY <1>0, HeapsFollow
  <1> QED
    BY <1>1, <1>2, <1>3, PTL DEF TimersSpec

(* The loop never sleeps and waits longer than to the first of its timers  *)
(* and periodics and the backend's fudge, although it looks at the roots   *)
(* of the two heaps only, unless the interval in which timeouts are        *)
(* collected is longer; and it never gives the backend a negative time     *)
THEOREM NeverOversleepsAlways == TimersSpec => []NeverOversleeps
  <1>0. TimersAssumption
    BY MachinesAssumption
  <1>1. TimersInit => TimersInv
    BY <1>0, TimersStart
  <1>2. TimersInv /\ [TimersNext]_timers_vars => TimersInv'
    BY <1>0, TimersInductive
  <1>3. TimersInv => NeverOversleeps
    BY DEF TimersInv
  <1> QED
    BY <1>1, <1>2, <1>3, PTL DEF TimersSpec

(* When the poll has returned, exactly the timers and periodics that are   *)
(* due are pending, and of the same priority who was due first is called   *)
(* first, periodics before timers: the walks take root after root of the   *)
(* heaps, feed_reverse_done turns what they took around, and the arrays of *)
(* pending events are emptied from the end                                 *)
THEOREM DueInOrderAlways == TimersSpec => DueInOrder
  <1>0. TimersAssumption
    BY MachinesAssumption
  <1>1. TimersInit => TimersInv /\ PollEmpty
    BY <1>0, TimersStart DEF TimersInit, PollEmpty
  <1>2. TimersInv /\ PollEmpty /\ [TimersNext]_timers_vars => (TimersInv /\ PollEmpty)' /\ DueStep
    BY <1>0, TimersInductive, PollStaysEmpty, WakeInOrder
  <1>3. TimersInv /\ PollEmpty /\ [TimersNext]_timers_vars => [DueStep]_timers_vars
    BY <1>2
  <1> QED
    BY <1>1, <1>2, <1>3, PTL DEF TimersSpec, DueInOrder

(* Whatever the loop does with watchers of any kind, what ev_verify        *)
(* asserts at the end of every run holds                                   *)
THEOREM LoopVerifyAlways == TimersSpec /\ EpollSpec /\ LoopSpec => []LoopVerify
  BY HeapsVerifiedAlways, FdsVerifiedAlways, LoopVerifiedAlways, PTL DEF LoopVerify
=============================================================================
