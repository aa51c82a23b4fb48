------------------------------- MODULE Ev_proofs -------------------------------
(***************************************************************************)
(* Proofs about the callbacks of libev: what is pending (EvPending), for   *)
(* any watchers and priorities; the turns of the loop (EvLoop), for any    *)
(* depth of calls; child watchers (EvChild), for any number of children;   *)
(* events and ev_once (EvEvent), for any number of them; and the heaps of  *)
(* timers and periodics (EvTimers), for either branching factor.           *)
(***************************************************************************)
EXTENDS EvEvent, EvLoop, EvChild, EvTimers, SequenceTheorems, FiniteSetTheorems,
        WellFoundedInduction, TLAPS

(* The queues of any watchers W with priorities Ps, where pw stands for a  *)
(* watcher that was stopped.  As verify_watcher asserts, a pending watcher *)
(* is where it says, and nowhere else.                                     *)
G(W, Ps, pw) == INSTANCE EvPending WITH Watcher <- W, Pri <- Ps, pending_w <- pw

Received == {"EV_TIMEOUT", "EV_IOSIG", "EV_ERROR", "EV_CUSTOM", "EV_FORK", "EV_PREPARE",
             "EV_READ", "EV_WRITE", "EV_IDLE", "EV_CHECK", "EV_SIGNAL", "EV_CHILD",
             "EV_PERIODIC"}
Entries(W, pw) == [w : W \cup {pw}, events : SUBSET Received]
Queues(W, Ps, pw) == [q : [Ps -> Seq(Entries(W, pw))], at : [W -> Nat]]
Placed(W, Ps, pri, Q) ==
  /\ \A w \in W : Q.at[w] # 0 => /\ Q.at[w] \in 1..Len(Q.q[pri[w]])
                                 /\ Q.q[pri[w]][Q.at[w]].w = w
  /\ \A p \in Ps, w \in W : \A i \in 1..Len(Q.q[p]) :
       Q.q[p][i].w = w => p = pri[w] /\ Q.at[w] = i
Verified(W, Ps, pw, pri, Q) ==
  pw \notin W /\ pri \in [W -> Ps] /\ Q \in Queues(W, Ps, pw) /\ Placed(W, Ps, pri, Q)

(* One entry of an array is replaced                                       *)
LEMMA EntryReplaced ==
  ASSUME NEW E, NEW Ps, NEW q \in [Ps -> Seq(E)], NEW p \in Ps,
         NEW i \in 1..Len(q[p]), NEW x \in E
  PROVE  /\ [q EXCEPT ![p] = [@ EXCEPT ![i] = x]] \in [Ps -> Seq(E)]
         /\ Len([q EXCEPT ![p] = [@ EXCEPT ![i] = x]][p]) = Len(q[p])
         /\ \A j \in 1..Len(q[p]) :
              [q EXCEPT ![p] = [@ EXCEPT ![i] = x]][p][j] = IF j = i THEN x ELSE q[p][j]
         /\ \A o \in Ps \ {p} : [q EXCEPT ![p] = [@ EXCEPT ![i] = x]][o] = q[o]
  <1> DEFINE s == [q[p] EXCEPT ![i] = x]
             t == [q EXCEPT ![p] = s]
  <1>1. q[p] \in Seq(E)
    OBVIOUS
  <1>2. /\ s \in Seq(E) /\ Len(s) = Len(q[p])
        /\ \A j \in 1..Len(q[p]) : s[j] = IF j = i THEN x ELSE q[p][j]
    BY <1>1, ExceptSeq
  <1>3. t = [q EXCEPT ![p] = [@ EXCEPT ![i] = x]]
    BY Zenon
  <1> HIDE DEF s
  <1>4. t \in [Ps -> Seq(E)] /\ t[p] = s /\ \A o \in Ps \ {p} : t[o] = q[o]
    BY <1>2
  <1> HIDE DEF t
  <1> QED
    BY <1>2, <1>3, <1>4

(* What follows when another entry x stands where w was                    *)
LEMMA PlacedAgain ==
  ASSUME NEW W, NEW Ps, NEW pw, NEW pri, NEW Q, Verified(W, Ps, pw, pri, Q), NEW w \in W,
         Q.at[w] # 0, NEW x \in Entries(W, pw), NEW a,
         \/ x.w = w /\ a = Q.at
         \/ x.w = pw /\ a = [Q.at EXCEPT ![w] = 0]
  PROVE  LET t == [Q.q EXCEPT ![pri[w]] = [@ EXCEPT ![Q.at[w]] = x]]
         IN  /\ Verified(W, Ps, pw, pri, [q |-> t, at |-> a])
             /\ \A p \in Ps : Len(t[p]) = Len(Q.q[p])
  <1> DEFINE p == pri[w]
             i == Q.at[w]
             t == [Q.q EXCEPT ![p] = [@ EXCEPT ![i] = x]]
             R == [q |-> t, at |-> a]
  <1>0. /\ Q.q \in [Ps -> Seq(Entries(W, pw))] /\ Q.at \in [W -> Nat] /\ p \in Ps
        /\ pw \notin W /\ i \in 1..Len(Q.q[p]) /\ Q.q[p][i].w = w
        /\ pri \in [W -> Ps]
    BY DEF Verified, Queues, Placed
  <1>1. /\ t \in [Ps -> Seq(Entries(W, pw))] /\ Len(t[p]) = Len(Q.q[p])
        /\ \A j \in 1..Len(Q.q[p]) : t[p][j] = IF j = i THEN x ELSE Q.q[p][j]
        /\ \A o \in Ps \ {p} : t[o] = Q.q[o]
    BY <1>0, EntryReplaced
  <1> HIDE DEF t
  <1>2. /\ a \in [W -> Nat] /\ \A v \in W \ {w} : a[v] = Q.at[v]
        /\ a[w] = IF x.w = w THEN i ELSE 0
    <2>1. CASE x.w = w /\ a = Q.at
      BY <1>0, <2>1
    <2>2. CASE x.w = pw /\ a = [Q.at EXCEPT ![w] = 0]
      <3>1. x.w # w
        BY <1>0, <2>2
      <3> HIDE DEF i
      <3> QED
        BY <1>0, <2>2, <3>1
    <2> QED
      BY <2>1, <2>2
  <1> HIDE DEF p, i
  <1>3. R \in Queues(W, Ps, pw)
    BY <1>1, <1>2 DEF Queues
  <1>4. ASSUME NEW v \in W, a[v] # 0
        PROVE  a[v] \in 1..Len(t[pri[v]]) /\ t[pri[v]][a[v]].w = v
    <2>1. CASE v = w
      <3>1. x.w = w /\ a[v] = i
        BY <1>2, <1>4, <2>1
      <3> QED
        BY <1>0, <1>1, <2>1, <3>1 DEF p
    <2>2. CASE v # w
      <3>1. a[v] = Q.at[v] /\ Q.at[v] \in 1..Len(Q.q[pri[v]]) /\ Q.q[pri[v]][Q.at[v]].w = v
        BY <1>2, <1>4, <2>2 DEF Verified, Placed
      <3>2. pri[v] \in Ps
        BY <1>0
      <3>3. CASE pri[v] = p
        <4>1. Q.at[v] # i
          BY <1>0, <2>2, <3>1, <3>3
        <4> QED
          BY <1>1, <3>1, <3>3, <4>1
      <3>4. CASE pri[v] # p
        BY <1>1, <3>1, <3>2, <3>4
      <3> QED
        BY <3>3, <3>4
    <2> QED
      BY <2>1, <2>2
  <1>5. ASSUME NEW o \in Ps, NEW v \in W, NEW j \in 1..Len(t[o]), t[o][j].w = v
        PROVE  o = pri[v] /\ a[v] = j
    <2>1. CASE o = p /\ j = i
      <3>1. x.w = v
        BY <1>0, <1>1, <1>5, <2>1
      <3>2. v = w
        BY <1>0, <3>1
      <3> QED
        BY <1>2, <2>1, <3>1, <3>2 DEF p
    <2>2. CASE ~(o = p /\ j = i)
      <3>1. Q.q[o][j].w = v /\ j \in 1..Len(Q.q[o])
        <4>1. CASE o = p
          BY <1>1, <1>5, <2>2, <4>1
        <4>2. CASE o # p
          BY <1>1, <1>5, <4>2
        <4> QED
          BY <4>1, <4>2
      <3>2. o = pri[v] /\ Q.at[v] = j
        BY <3>1 DEF Verified, Placed
      <3>3. v # w
        BY <2>2, <3>2 DEF p, i
      <3> QED
        BY <1>2, <3>2, <3>3
    <2> QED
      BY <2>1, <2>2
  <1>6. Placed(W, Ps, pri, R)
    BY <1>4, <1>5 DEF Placed
  <1>7. Verified(W, Ps, pw, pri, R)
    BY <1>0, <1>3, <1>6 DEF Verified
  <1>8. \A o \in Ps : Len(t[o]) = Len(Q.q[o])
    BY <1>1
  <1> QED
    BY <1>7, <1>8, Zenon DEF t, p, i

(* clear_pending                                                           *)
LEMMA PendingCleared ==
  ASSUME NEW W, NEW Ps, NEW pw, NEW pri, NEW Q, Verified(W, Ps, pw, pri, Q), NEW w \in W
  PROVE  /\ Verified(W, Ps, pw, pri, G(W, Ps, pw)!ClearPending(Q, w, pri))
         /\ G(W, Ps, pw)!ClearPending(Q, w, pri).at = [Q.at EXCEPT ![w] = 0]
  <1> DEFINE p == pri[w]
             i == Q.at[w]
             a == [Q.at EXCEPT ![w] = 0]
  <1>0. /\ Q.q \in [Ps -> Seq(Entries(W, pw))] /\ Q.at \in [W -> Nat] /\ p \in Ps
        /\ Q.q[p] \in Seq(Entries(W, pw))
    BY DEF Verified, Queues
  <1>1. CASE i = 0
    <2>1. a = Q.at
      BY <1>0, <1>1
    <2> QED
      BY <1>1, <2>1 DEF G!ClearPending
  <1>2. CASE i # 0
    <2> DEFINE x == [Q.q[p][i] EXCEPT !.w = pw]
               t == [Q.q EXCEPT ![p] = [@ EXCEPT ![i] = x]]
               R == [q |-> t, at |-> a]
    <2>1. i \in 1..Len(Q.q[p])
      BY <1>2 DEF Verified, Placed
    <2>2. Q.q[p][i] \in Entries(W, pw)
      BY <1>0, <2>1, ElementOfSeq
    <2>3. x \in Entries(W, pw) /\ x.w = pw
      BY <2>2 DEF Entries
    <2>4. G(W, Ps, pw)!ClearPending(Q, w, pri) = R
      BY <1>0, <1>2, Zenon DEF G!ClearPending
    <2> HIDE DEF x
    <2>5. Verified(W, Ps, pw, pri, R)
      BY <1>2, <2>3, PlacedAgain
    <2> QED
      BY <2>4, <2>5
  <1> QED
    BY <1>1, <1>2

(* ev_feed_event: what is pending stays where it is, and the watcher is    *)
(* pending; if it was not, it is behind all that was in its array.         *)
Grown(Ps, Q, R) == \A p \in Ps : Len(Q.q[p]) <= Len(R.q[p])
Kept(W, Q, R) == \A v \in W : Q.at[v] # 0 => R.at[v] = Q.at[v]

LEMMA PendingFed ==
  ASSUME NEW W, NEW Ps, NEW pw, NEW pri, NEW Q, Verified(W, Ps, pw, pri, Q), NEW w \in W,
         NEW revents \in SUBSET Received, NEW R,
         R = G(W, Ps, pw)!FeedEvent(Q, w, revents, pri)
  PROVE  /\ Verified(W, Ps, pw, pri, R)
         /\ \A v \in W \ {w} : R.at[v] = Q.at[v]
         /\ Kept(W, Q, R) /\ R.at[w] # 0
         /\ Q.at[w] = 0 => R.at[w] > Len(Q.q[pri[w]])
         /\ Grown(Ps, Q, R)
  <1> DEFINE p == pri[w]
             i == Q.at[w]
  <1>0. /\ Q.q \in [Ps -> Seq(Entries(W, pw))] /\ Q.at \in [W -> Nat] /\ p \in Ps
        /\ \A o \in Ps : Q.q[o] \in Seq(Entries(W, pw)) /\ Len(Q.q[o]) \in Nat
        /\ pw \notin W /\ pri \in [W -> Ps]
    BY DEF Verified, Queues
  <1>1. CASE i # 0
    <2> DEFINE x == [Q.q[p][i] EXCEPT !.events = @ \cup revents]
               t == [Q.q EXCEPT ![p] = [@ EXCEPT ![i] = x]]
               S == [q |-> t, at |-> Q.at]
    <2>1. i \in 1..Len(Q.q[p]) /\ Q.q[p][i].w = w
      BY <1>1 DEF Verified, Placed
    <2>2. Q.q[p][i] \in Entries(W, pw)
      BY <1>0, <2>1, ElementOfSeq
    <2>3. x \in Entries(W, pw) /\ x.w = w
      BY <2>1, <2>2 DEF Entries
    <2>4. R = S
      BY <1>0, <1>1, Zenon DEF G!FeedEvent
    <2> HIDE DEF x
    <2>5. Verified(W, Ps, pw, pri, S) /\ \A o \in Ps : Len(t[o]) = Len(Q.q[o])
      BY <1>1, <2>3, PlacedAgain
    <2>6. R.at = Q.at /\ R.q = t
      BY <2>4
    <2> HIDE DEF t, p, i
    <2>7. Grown(Ps, Q, R)
      BY <1>0, <2>5, <2>6 DEF Grown
    <2> QED
      BY <1>1, <2>4, <2>5, <2>6, <2>7 DEF Kept, i
  <1>2. CASE i = 0
    <2> DEFINE n == Len(Q.q[p])
               x == [w |-> w, events |-> revents]
               s == Append(Q.q[p], x)
               t == [Q.q EXCEPT ![p] = s]
               a == [Q.at EXCEPT ![w] = n + 1]
               S == [q |-> t, at |-> a]
    <2>1. x \in Entries(W, pw) /\ x.w = w
      BY DEF Entries
    <2>2. R = S
      BY <1>0, <1>2 DEF G!FeedEvent
    <2> HIDE DEF x, p
    <2>3. /\ s \in Seq(Entries(W, pw)) /\ Len(s) = n + 1
          /\ s[n + 1] = x
          /\ \A j \in 1..n : s[j] = Q.q[p][j]
      BY <1>0, <2>1, AppendProperties
    <2> HIDE DEF s
    <2>4. /\ t \in [Ps -> Seq(Entries(W, pw))] /\ t[p] = s
          /\ \A o \in Ps \ {p} : t[o] = Q.q[o]
      BY <1>0, <2>3
    <2>5. /\ a \in [W -> Nat] /\ a[w] = n + 1
          /\ \A v \in W \ {w} : a[v] = Q.at[v]
      BY <1>0
    <2> HIDE DEF t, a
    <2>6. S \in Queues(W, Ps, pw)
      BY <2>4, <2>5 DEF Queues
    <2>7. ASSUME NEW v \in W, a[v] # 0
          PROVE  a[v] \in 1..Len(t[pri[v]]) /\ t[pri[v]][a[v]].w = v
      <3>1. CASE v = w
        BY <1>0, <2>1, <2>3, <2>4, <2>5, <3>1 DEF p
      <3>2. CASE v # w
        <4>1. a[v] = Q.at[v] /\ Q.at[v] \in 1..Len(Q.q[pri[v]]) /\ Q.q[pri[v]][Q.at[v]].w = v
          BY <2>5, <2>7, <3>2 DEF Verified, Placed
        <4>2. pri[v] \in Ps
          BY <1>0
        <4>3. CASE pri[v] = p
          BY <1>0, <2>3, <2>4, <4>1, <4>3
        <4>4. CASE pri[v] # p
          BY <2>4, <4>1, <4>2, <4>4
        <4> QED
          BY <4>3, <4>4
      <3> QED
        BY <3>1, <3>2
    <2>8. ASSUME NEW o \in Ps, NEW v \in W, NEW j \in 1..Len(t[o]), t[o][j].w = v
          PROVE  o = pri[v] /\ a[v] = j
      <3>1. CASE o = p /\ j = n + 1
        BY <2>1, <2>3, <2>4, <2>5, <2>8, <3>1 DEF p
      <3>2. CASE ~(o = p /\ j = n + 1)
        <4>1. j \in 1..Len(Q.q[o]) /\ Q.q[o][j].w = v
          <5>1. CASE o = p
            BY <1>0, <2>3, <2>4, <2>8, <3>2, <5>1, SMTT(30)
          <5>2. CASE o # p
            BY <2>4, <2>8, <5>2
          <5> QED
            BY <5>1, <5>2
        <4>2. o = pri[v] /\ Q.at[v] = j
          BY <4>1 DEF Verified, Placed
        <4>3. j # 0
          BY <1>0, <4>1
        <4> QED
          BY <1>2, <2>5, <4>2, <4>3
      <3> QED
        BY <3>1, <3>2
    <2>9. Placed(W, Ps, pri, S)
      BY <2>7, <2>8 DEF Placed
    <2>10. Verified(W, Ps, pw, pri, S)
      BY <1>0, <2>6, <2>9 DEF Verified
    <2>11. Grown(Ps, Q, S)
      <3>1. S.q = t /\ n \in Nat
        BY <1>0
      <3>2. ASSUME NEW o \in Ps PROVE Len(Q.q[o]) <= Len(t[o])
        <4>1. CASE o = p
          BY <2>3, <2>4, <3>1, <4>1
        <4>2. CASE o # p
          <5>1. t[o] = Q.q[o] /\ Len(Q.q[o]) \in Nat
            BY <1>0, <2>4, <4>2
          <5> QED
            BY <5>1
        <4> QED
          BY <4>1, <4>2
      <3> QED
        BY <3>1, <3>2 DEF Grown
    <2>12. n \in Nat /\ S.at = a
      BY <1>0
    <2>13. Kept(W, Q, S)
      BY <1>2, <2>5, <2>12 DEF Kept
    <2>14. S.at[w] # 0 /\ S.at[w] > n
      BY <2>5, <2>12
    <2> QED
      BY <2>2, <2>5, <2>10, <2>11, <2>12, <2>13, <2>14 DEF p
  <1> QED
    BY <1>1, <1>2

(* Induction along a sequence, over the set of the places where it holds   *)
LEMMA UpTo ==
  ASSUME NEW N \in Nat, NEW S, 0 \in S, \A n \in 1..N : n - 1 \in S => n \in S
  PROVE  0..N \subseteq S
  <1> SUFFICES ASSUME 0..N \ S # {} PROVE FALSE
    OBVIOUS
  <1> DEFINE M == 0..N \ S
  <1>1. M \in SUBSET Nat /\ M # {}
    OBVIOUS
  <1> HIDE DEF M
  <1>2. PICK m \in M : \A k \in M : <<k, m>> \notin OpToRel(<, Nat)
    BY <1>1, WFMin, NatLessThanWellFounded, Zenon
  <1>3. \A k \in M : ~(k < m)
    BY <1>1, <1>2, Zenon DEF OpToRel
  <1>4. m \in 1..N /\ m \notin S
    <2>1. m \in 0..N /\ m \notin S
      BY <1>2 DEF M
    <2>2. m # 0
      BY <2>1
    <2> QED
      BY <2>1, <2>2
  <1>5. m - 1 \in 0..N /\ m - 1 < m
    BY <1>4
  <1>6. m - 1 \in S
    BY <1>3, <1>5 DEF M
  <1> QED
    BY <1>4, <1>6

(* queue_events and child_reap: each of ws that is chosen becomes pending  *)
(* behind what was there, in the order of ws; what was pending stays.      *)
InTurn(ws, m, chosen, pri, Q, R) ==
  \A i, j \in 1..m :
    /\ i < j /\ ws[i] \in chosen /\ ws[j] \in chosen /\ pri[ws[i]] = pri[ws[j]]
    /\ Q.at[ws[j]] = 0 /\ \A k \in 1..(j - 1) : ws[k] # ws[j]
    => R.at[ws[i]] < R.at[ws[j]]

LEMMA PendingQueued ==
  ASSUME NEW W, NEW Ps, NEW pw, NEW pri, NEW Q, Verified(W, Ps, pw, pri, Q),
         NEW ws \in Seq(W), NEW chosen, NEW revents \in SUBSET Received, NEW R,
         R = G(W, Ps, pw)!QueueChosen(Q, ws, chosen, revents, pri)
  PROVE  /\ Verified(W, Ps, pw, pri, R)
         /\ Kept(W, Q, R) /\ Grown(Ps, Q, R)
         /\ \A i \in 1..Len(ws) : ws[i] \in chosen => R.at[ws[i]] # 0
         /\ \A v \in W : Q.at[v] = 0 /\ R.at[v] # 0 =>
              /\ R.at[v] > Len(Q.q[pri[v]])
              /\ v \in chosen /\ \E i \in 1..Len(ws) : ws[i] = v
         /\ InTurn(ws, Len(ws), chosen, pri, Q, R)
  <1> DEFINE N == Len(ws)
             Fed1(S, n) == IF ws[n] \in chosen THEN G(W, Ps, pw)!FeedEvent(S, ws[n], revents, pri)
                           ELSE S
             Makes(f, m) == f = [n \in 0..m |-> IF n = 0 THEN Q ELSE Fed1(f[n - 1], n)]
             fed == CHOOSE f : Makes(f, N)
  <1>0. N \in Nat /\ \A i \in 1..N : ws[i] \in W
    BY ElementOfSeq
  <1>1. R = fed[N]
    BY Zenon DEF G!QueueChosen
  <1> HIDE DEF Fed1
  <1>2. \E f : Makes(f, N)
    <2> DEFINE S == {m \in 0..N : \E f : Makes(f, m)}
    <2>1. 0 \in S
      <3> DEFINE g == [n \in 0..0 |-> Q]
      <3>1. g = [n \in 0..0 |-> IF n = 0 THEN Q ELSE Fed1(g[n - 1], n)]
        OBVIOUS
      <3>2. 0 \in 0..N
        BY <1>0
      <3> HIDE DEF g
      <3>3. \E f : Makes(f, 0)
        BY <3>1
      <3> QED
        BY <3>2, <3>3
    <2>2. ASSUME NEW m \in 1..N, m - 1 \in S PROVE m \in S
      <3>1. PICK f : Makes(f, m - 1)
        BY <2>2
      <3> DEFINE g == [n \in 0..m |-> IF n = m THEN Fed1(f[m - 1], m) ELSE f[n]]
      <3>2. \A n \in 0..m : g[n] = IF n = 0 THEN Q ELSE Fed1(g[n - 1], n)
        <4> TAKE n \in 0..m
        <4>1. CASE n = m
          BY <1>0, <4>1
        <4>2. CASE n # m /\ n # 0
          <5>1. n \in 0..m - 1 /\ n - 1 \in 0..m /\ n - 1 # m
            BY <1>0, <4>2
          <5>2. f[n] = Fed1(f[n - 1], n)
            BY <3>1, <4>2, <5>1
          <5>3. g[n] = f[n] /\ g[n - 1] = f[n - 1]
            BY <4>2, <5>1
          <5> QED
            BY <4>2, <5>2, <5>3
        <4>3. CASE n = 0 /\ n # m
          <5>1. 0 \in 0..m - 1
            BY <1>0, <4>3
          <5>2. f[0] = Q
            BY <3>1, <5>1
          <5> QED
            BY <4>3, <5>2
        <4> QED
          BY <4>1, <4>2, <4>3
      <3>3. g = [n \in 0..m |-> g[n]]
        OBVIOUS
      <3> HIDE DEF g
      <3>4. Makes(g, m)
        BY <3>2, <3>3
      <3> QED
        BY <3>4
    <2> HIDE DEF S, Makes
    <2>3. 0..N \subseteq S
      BY <1>0, <2>1, <2>2, UpTo
    <2>4. N \in S
      BY <1>0, <2>3
    <2> QED
      BY <2>4 DEF S
  <1>3. Makes(fed, N)
    BY <1>2, Zenon
  <1> HIDE DEF fed
  <1>4. fed[0] = Q /\ \A n \in 1..N : fed[n] = Fed1(fed[n - 1], n)
    BY <1>0, <1>3
  <1> HIDE DEF Makes
  <1> DEFINE Good(n) ==
        /\ Verified(W, Ps, pw, pri, fed[n])
        /\ Kept(W, Q, fed[n]) /\ Grown(Ps, Q, fed[n])
        /\ \A i \in 1..n : ws[i] \in chosen => fed[n].at[ws[i]] # 0
        /\ \A v \in W : Q.at[v] = 0 /\ fed[n].at[v] # 0 =>
             /\ fed[n].at[v] > Len(Q.q[pri[v]])
             /\ v \in chosen /\ \E i \in 1..n : ws[i] = v
        /\ InTurn(ws, n, chosen, pri, Q, fed[n])
        S == {n \in 0..N : Good(n)}
  <1>5. Good(0)
    <2>1. Grown(Ps, Q, Q)
      BY DEF Verified, Queues, Grown
    <2>2. InTurn(ws, 0, chosen, pri, Q, Q)
      BY DEF InTurn
    <2> QED
      BY <1>4, <2>1, <2>2 DEF Kept
  <1>6. ASSUME NEW n \in 1..N, Good(n - 1) PROVE Good(n)
    <2> DEFINE A == fed[n - 1]
               B == fed[n]
    <2>0. /\ n - 1 \in Nat /\ ws[n] \in W /\ 1..n = (1..(n - 1)) \cup {n}
          /\ B = Fed1(A, n) /\ Good(n - 1)
      BY <1>0, <1>4, <1>6
    <2> HIDE DEF A, B
    <2>1. CASE ws[n] \notin chosen
      <3>1. B = A
        BY <2>0, <2>1 DEF Fed1
      <3>2. InTurn(ws, n, chosen, pri, Q, B)
        <4>1. InTurn(ws, n - 1, chosen, pri, Q, A)
          BY <2>0 DEF A
        <4>2. \A i \in 1..n : ws[i] \in chosen => i \in 1..(n - 1)
          BY <2>0, <2>1
        <4> QED
          BY <3>1, <4>1, <4>2 DEF InTurn
      <3> QED
        BY <2>0, <2>1, <3>1, <3>2 DEF A, B
    <2>2. CASE ws[n] \in chosen
      <3>1. B = G(W, Ps, pw)!FeedEvent(A, ws[n], revents, pri)
        BY <2>0, <2>2 DEF Fed1
      <3>2. Verified(W, Ps, pw, pri, A) /\ Kept(W, Q, A) /\ Grown(Ps, Q, A)
        BY <2>0 DEF A
      <3>3. /\ Verified(W, Ps, pw, pri, B)
            /\ \A v \in W \ {ws[n]} : B.at[v] = A.at[v]
            /\ Kept(W, A, B) /\ B.at[ws[n]] # 0
            /\ A.at[ws[n]] = 0 => B.at[ws[n]] > Len(A.q[pri[ws[n]]])
            /\ Grown(Ps, A, B)
        BY <2>0, <3>1, <3>2, PendingFed
      <3>4. Kept(W, Q, B)
        BY <3>2, <3>3 DEF Kept
      <3>5. /\ \A p \in Ps : Len(Q.q[p]) \in Nat /\ Len(A.q[p]) \in Nat /\ Len(B.q[p]) \in Nat
            /\ pri \in [W -> Ps] /\ B.at \in [W -> Nat]
        <4>1. /\ Q.q \in [Ps -> Seq(Entries(W, pw))] /\ A.q \in [Ps -> Seq(Entries(W, pw))]
              /\ B.q \in [Ps -> Seq(Entries(W, pw))]
          BY <3>2, <3>3 DEF Verified, Queues
        <4>2. pri \in [W -> Ps] /\ B.at \in [W -> Nat]
          BY <3>3 DEF Verified, Queues
        <4> HIDE DEF A, B
        <4>3. ASSUME NEW p \in Ps
              PROVE  Len(Q.q[p]) \in Nat /\ Len(A.q[p]) \in Nat /\ Len(B.q[p]) \in Nat
          <5>1. /\ Q.q[p] \in Seq(Entries(W, pw)) /\ A.q[p] \in Seq(Entries(W, pw))
                /\ B.q[p] \in Seq(Entries(W, pw))
            BY <4>1
          <5> QED
            BY <5>1
        <4> QED
          BY <4>2, <4>3
      <3>6. Grown(Ps, Q, B)
        <4> SUFFICES ASSUME NEW p \in Ps PROVE Len(Q.q[p]) <= Len(B.q[p])
          BY DEF Grown
        <4>1. Len(Q.q[p]) \in Nat /\ Len(A.q[p]) \in Nat /\ Len(B.q[p]) \in Nat
          BY <3>5
        <4>2. Len(Q.q[p]) <= Len(A.q[p]) /\ Len(A.q[p]) <= Len(B.q[p])
          BY <3>2, <3>3 DEF Grown
        <4> QED
          BY <4>1, <4>2, SMTT(30)
      <3>7. ASSUME NEW i \in 1..n, ws[i] \in chosen PROVE B.at[ws[i]] # 0
        <4>1. CASE i = n
          BY <3>3, <4>1
        <4>2. CASE i \in 1..(n - 1)
          <5>1. A.at[ws[i]] # 0 /\ ws[i] \in W
            BY <1>0, <2>0, <3>7, <4>2 DEF A
          <5> QED
            BY <3>3, <5>1 DEF Kept
        <4> QED
          BY <2>0, <4>1, <4>2
      <3>8. ASSUME NEW v \in W, Q.at[v] = 0, B.at[v] # 0
            PROVE  /\ B.at[v] > Len(Q.q[pri[v]])
                   /\ v \in chosen /\ \E i \in 1..n : ws[i] = v
        <4>1. CASE A.at[v] # 0
          <5>1. B.at[v] = A.at[v]
            BY <3>3, <4>1 DEF Kept
          <5>2. /\ A.at[v] > Len(Q.q[pri[v]])
                /\ v \in chosen /\ \E i \in 1..(n - 1) : ws[i] = v
            BY <2>0, <3>8, <4>1 DEF A
          <5> QED
            BY <2>0, <5>1, <5>2
        <4>2. CASE A.at[v] = 0
          <5>1. v = ws[n]
            BY <3>3, <3>8, <4>2
          <5>2. B.at[v] > Len(A.q[pri[v]])
            BY <3>3, <4>2, <5>1
          <5>3. pri[v] \in Ps /\ B.at[v] \in Nat
            BY <3>5
          <5>4. Len(Q.q[pri[v]]) <= Len(A.q[pri[v]])
            BY <3>2, <5>3 DEF Grown
          <5>5. B.at[v] > Len(Q.q[pri[v]])
            BY <3>5, <5>2, <5>3, <5>4
          <5> QED
            BY <2>0, <2>2, <5>1, <5>5
        <4> QED
          BY <4>1, <4>2
      <3>9. InTurn(ws, n, chosen, pri, Q, B)
        <4> SUFFICES ASSUME NEW i \in 1..n, NEW j \in 1..n, i < j, ws[i] \in chosen, ws[j] \in chosen,
                            pri[ws[i]] = pri[ws[j]], Q.at[ws[j]] = 0,
                            \A k \in 1..(j - 1) : ws[k] # ws[j]
                     PROVE  B.at[ws[i]] < B.at[ws[j]]
          BY DEF InTurn
        <4>1. i \in 1..(n - 1) /\ ws[i] \in W /\ ws[j] \in W /\ A.at[ws[i]] # 0
          <5>1. i \in 1..(n - 1)
            OBVIOUS
          <5> QED
            BY <1>0, <2>0, <5>1 DEF A
        <4>2. B.at[ws[i]] = A.at[ws[i]]
          BY <3>3, <4>1 DEF Kept
        <4>3. CASE j = n
          <5>1. A.at[ws[n]] = 0
            <6>1. A.at[ws[n]] # 0 => \E k \in 1..(n - 1) : ws[k] = ws[n]
              BY <2>0, <4>3 DEF A
            <6> QED
              BY <4>3, <6>1
          <5>2. B.at[ws[n]] > Len(A.q[pri[ws[n]]])
            BY <3>3, <5>1
          <5>3. A.at[ws[i]] \in 1..Len(A.q[pri[ws[i]]])
            BY <3>2, <4>1 DEF Verified, Placed
          <5>4. B.at[ws[n]] \in Nat /\ Len(A.q[pri[ws[n]]]) \in Nat
            BY <3>5, <2>0
          <5> QED
            BY <4>2, <4>3, <5>2, <5>3, <5>4
        <4>4. CASE j # n
          <5>1. j \in 1..(n - 1)
            BY <4>4
          <5>2. InTurn(ws, n - 1, chosen, pri, Q, A)
            BY <2>0 DEF A
          <5>3. A.at[ws[i]] < A.at[ws[j]]
            BY <4>1, <5>1, <5>2 DEF InTurn
          <5>4. A.at[ws[j]] # 0
            BY <2>0, <5>1 DEF A
          <5>5. B.at[ws[j]] = A.at[ws[j]]
            BY <3>3, <4>1, <5>4 DEF Kept
          <5> QED
            BY <4>2, <5>3, <5>5
        <4> QED
          BY <4>3, <4>4
      <3> QED
        BY <3>3, <3>4, <3>6, <3>7, <3>8, <3>9 DEF B
    <2> QED
      BY <2>1, <2>2
  <1> HIDE DEF Good
  <1>7. 0 \in S
    BY <1>0, <1>5
  <1>8. \A n \in 1..N : n - 1 \in S => n \in S
    <2> TAKE n \in 1..N
    <2> HAVE n - 1 \in S
    <2>1. Good(n - 1)
      OBVIOUS
    <2>2. n \in 0..N
      BY <1>0
    <2> QED
      BY <1>6, <2>1, <2>2
  <1>9. N \in S
    <2> HIDE DEF S
    <2>1. 0..N \subseteq S
      BY <1>0, <1>7, <1>8, UpTo
    <2> QED
      BY <1>0, <2>1
  <1>10. Good(N)
    BY <1>9
  <1> QED
    BY <1>1, <1>10 DEF Good

(* The last entry of an array is taken; its watcher is pending no more     *)
LEMMA PendingPopped ==
  ASSUME NEW W, NEW Ps, NEW pw, NEW pri, NEW Q, Verified(W, Ps, pw, pri, Q),
         NEW p \in Ps, Q.q[p] # <<>>, NEW R, R = G(W, Ps, pw)!PoppedFrom(Q, p),
         NEW w, w = G(W, Ps, pw)!Last(Q, p).w
  PROVE  /\ Verified(W, Ps, pw, pri, R) /\ w \in W \cup {pw}
         /\ w \in W => /\ Q.at[w] # 0 /\ Q.at[w] = Len(Q.q[p]) /\ pri[w] = p
                       /\ R.at = [Q.at EXCEPT ![w] = 0]
         /\ w \notin W => R.at = Q.at
  <1> DEFINE n == Len(Q.q[p])
             short == SubSeq(Q.q[p], 1, n - 1)
             t == [Q.q EXCEPT ![p] = short]
             a == IF w = pw THEN Q.at ELSE [Q.at EXCEPT ![w] = 0]
             S == [q |-> t, at |-> a]
  <1>0. /\ Q.q \in [Ps -> Seq(Entries(W, pw))] /\ Q.at \in [W -> Nat]
        /\ Q.q[p] \in Seq(Entries(W, pw)) /\ n \in Nat
        /\ pw \notin W /\ pri \in [W -> Ps]
    BY DEF Verified, Queues
  <1>1. n \in 1..n /\ n > 0 /\ n # 0
    BY <1>0, EmptySeq
  <1>2. Q.q[p][n] \in Entries(W, pw) /\ w = Q.q[p][n].w
    BY <1>0, <1>1, ElementOfSeq DEF G!Last
  <1>3. w \in W \cup {pw}
    BY <1>2 DEF Entries
  <1>4. R = S
    BY <1>2 DEF G!PoppedFrom, G!Last
  <1>5. /\ short \in Seq(Entries(W, pw)) /\ Len(short) = n - 1
        /\ \A j \in 1..n - 1 : short[j] = Q.q[p][j]
    BY <1>0, <1>1, SubSeqProperties
  <1>6. t \in [Ps -> Seq(Entries(W, pw))] /\ t[p] = short /\ \A o \in Ps \ {p} : t[o] = Q.q[o]
    BY <1>0, <1>5
  <1>7. a \in [W -> Nat] /\ \A v \in W : a[v] = IF v = w THEN 0 ELSE Q.at[v]
    BY <1>0, <1>3
  <1>8. w \in W => pri[w] = p /\ Q.at[w] = n
    BY <1>1, <1>2 DEF Verified, Placed
  <1>9. (w \in W => a = [Q.at EXCEPT ![w] = 0]) /\ (w \notin W => a = Q.at)
    BY <1>0, <1>3
  <1> HIDE DEF t, a, short
  <1>10. S \in Queues(W, Ps, pw)
    BY <1>6, <1>7 DEF Queues
  <1>11. ASSUME NEW v \in W, a[v] # 0
         PROVE  a[v] \in 1..Len(t[pri[v]]) /\ t[pri[v]][a[v]].w = v
    <2>1. /\ v # w /\ a[v] = Q.at[v] /\ Q.at[v] \in 1..Len(Q.q[pri[v]])
          /\ Q.q[pri[v]][Q.at[v]].w = v /\ pri[v] \in Ps
      BY <1>0, <1>7, <1>11 DEF Verified, Placed
    <2>2. CASE pri[v] = p
      <3>1. Q.at[v] # n
        BY <1>2, <2>1, <2>2
      <3>2. Q.at[v] \in 1..n - 1
        BY <1>0, <2>1, <2>2, <3>1
      <3> QED
        BY <1>5, <1>6, <2>1, <2>2, <3>2
    <2>3. CASE pri[v] # p
      BY <1>6, <2>1, <2>3
    <2> QED
      BY <2>2, <2>3
  <1>12. ASSUME NEW o \in Ps, NEW v \in W, NEW j \in 1..Len(t[o]), t[o][j].w = v
         PROVE  o = pri[v] /\ a[v] = j
    <2>1. j \in 1..Len(Q.q[o]) /\ Q.q[o][j].w = v /\ ~(o = p /\ j = n)
      <3>1. CASE o = p
        <4>1. j \in 1..n - 1 /\ j \in 1..n /\ j # n
          BY <1>0, <1>5, <1>6, <3>1
        <4> QED
          BY <1>5, <1>6, <1>12, <3>1, <4>1
      <3>2. CASE o # p
        BY <1>6, <1>12, <3>2
      <3> QED
        BY <3>1, <3>2
    <2>2. o = pri[v] /\ Q.at[v] = j
      BY <2>1 DEF Verified, Placed
    <2>3. v # w
      BY <1>8, <2>1, <2>2
    <2> QED
      BY <1>7, <2>2, <2>3
  <1>13. Placed(W, Ps, pri, S)
    BY <1>11, <1>12 DEF Placed
  <1>14. Verified(W, Ps, pw, pri, S)
    BY <1>0, <1>10, <1>13 DEF Verified
  <1> QED
    BY <1>1, <1>3, <1>4, <1>8, <1>9, <1>14

LEMMA PoppedVerified ==
  ASSUME NEW W, NEW Ps, NEW pw, NEW pri, NEW Q, Verified(W, Ps, pw, pri, Q),
         NEW p \in Ps, Q.q[p] # <<>>, NEW R, R = G(W, Ps, pw)!PoppedFrom(Q, p)
  PROVE  Verified(W, Ps, pw, pri, R)
  <1> DEFINE w == G(W, Ps, pw)!Last(Q, p).w
  <1>1. w = G(W, Ps, pw)!Last(Q, p).w
    OBVIOUS
  <1> HIDE DEF w
  <1>2. /\ Verified(W, Ps, pw, pri, R)
        /\ w \in W => /\ Q.at[w] # 0 /\ Q.at[w] = Len(Q.q[p]) /\ pri[w] = p
                      /\ R.at = [Q.at EXCEPT ![w] = 0]
        /\ w \notin W => R.at = Q.at
    BY <1>1, PendingPopped
  <1> QED
    BY <1>2

LEMMA NonePending ==
  ASSUME NEW W, NEW Ps, NEW pw, NEW pri \in [W -> Ps], pw \notin W,
         NEW R, R = G(W, Ps, pw)!NoneFed
  PROVE  Verified(W, Ps, pw, pri, R) /\ \A w \in W : R.at[w] = 0
  <1> DEFINE q == [p \in Ps |-> <<>>]
             a == [w \in W |-> 0]
  <1>1. R = [q |-> q, at |-> a]
    BY DEF G!NoneFed
  <1>2. /\ q \in [Ps -> Seq(Entries(W, pw))] /\ \A p \in Ps : Len(q[p]) = 0
        /\ a \in [W -> Nat] /\ \A w \in W : a[w] = 0
    OBVIOUS
  <1> HIDE DEF q, a
  <1>3. R \in Queues(W, Ps, pw) /\ Placed(W, Ps, pri, R)
    BY <1>1, <1>2 DEF Queues, Placed
  <1> QED
    BY <1>1, <1>2, <1>3 DEF Verified

(* Of priorities that are bounded one is the highest                       *)
LEMMA Highest ==
  ASSUME NEW S \in SUBSET Nat, S # {}, NEW m \in Nat, \A s \in S : s <= m
  PROVE  \E s \in S : \A o \in S : o <= s
  <1> DEFINE D == {d \in Nat : \E s \in S : d = m - s}
  <1>1. D \in SUBSET Nat /\ D # {}
    <2>1. PICK s \in S : TRUE
      OBVIOUS
    <2>2. m - s \in Nat
      BY <2>1
    <2> QED
      BY <2>1, <2>2
  <1>2. \A o \in S : o \in Nat /\ m - o \in D
    OBVIOUS
  <1>3. \A d \in D : d \in Nat /\ \E s \in S : d = m - s
    OBVIOUS
  <1> HIDE DEF D
  <1>4. PICK d \in D : \A k \in D : <<k, d>> \notin OpToRel(<, Nat)
    BY <1>1, WFMin, NatLessThanWellFounded, Zenon
  <1>5. \A k \in D : ~(k < d)
    BY <1>1, <1>4, Zenon DEF OpToRel
  <1>6. PICK s \in S : d = m - s
    BY <1>3
  <1>7. ASSUME NEW o \in S PROVE o <= s
    <2>1. s \in Nat /\ o \in Nat /\ m - o \in D /\ m - o \in Nat
      BY <1>1, <1>2
    <2>2. ~(m - o < m - s)
      BY <1>5, <1>6, <2>1
    <2> QED
      BY <2>1, <2>2
  <1> QED
    BY <1>7

-----------------------------------------------------------------------------
(* Events and ev_once (EvEvent): the two watchers of each                  *)
EventVerified(Q) == Verified(Watchers, {0}, pending_w, priority, Q)

(* The inductive invariant.  A deleted event has no active watcher, and    *)
(* pending is only what event_active gave; an ev_once owns active and      *)
(* pending watchers only from its call to its callback.                    *)
EventTypes ==
  /\ active_w \subseteq Watchers /\ EventVerified(pending)
  /\ state \in [Once -> {"unused", "allocated", "freed"}] /\ called \in [Once -> Nat]
  /\ deleted \subseteq Event /\ byhand \subseteq Watchers
Silenced(A, Q, o) == \A w \in {iosig(o), to(o)} : w \notin A /\ Q.at[w] = 0
Deaf(A, Q, e, hand) ==
  iosig(e) \notin A /\ to(e) \notin A /\ (Q.at[iosig(e)] # 0 => iosig(e) \in hand)
TimesOut(A, Q, e, hand) ==
  /\ Q.at[to(e)] # 0 => to(e) \in A \/ to(e) \in hand
  /\ e \in timeouts => iosig(e) \notin A /\ (Q.at[iosig(e)] # 0 => iosig(e) \in hand)
EventsHeard ==
  \A e \in Event : /\ e \in deleted => Deaf(active_w, pending, e, byhand)
                   /\ TimesOut(active_w, pending, e, byhand)
OnceOwned(s, c, A, Q, o) ==
  /\ s = "unused" => c = 0 /\ Silenced(A, Q, o)
  /\ s = "allocated" => c = 0
  /\ s = "freed" => c = 1 /\ Silenced(A, Q, o)
OncesOwned == \A o \in Once : OnceOwned(state[o], called[o], active_w, pending, o)
EventIInv == EventTypes /\ EventsHeard /\ OncesOwned

(* Watchers have two names each                                            *)
LEMMA WatcherNames ==
  /\ \A e \in Event \cup Once : iosig(e) \in Watchers /\ to(e) \in Watchers
  /\ \A e, f : iosig(e) # to(f) /\ (iosig(e) = iosig(f) => e = f) /\ (to(e) = to(f) => e = f)
  /\ \A w \in Watchers : /\ w[1] \in Event \cup Once
                         /\ w = iosig(w[1]) \/ w = to(w[1])
                         /\ w[2] = "to" <=> w = to(w[1])
  /\ pending_w \notin Watchers /\ \A w \in Watchers : priority[w] = 0
  /\ Event \cap Once = {}
  BY EventAssumption DEF iosig, to, Watchers, priority

(* What is pending (EvPending), for these watchers                         *)
LEMMA EventCleared ==
  ASSUME NEW Q, EventVerified(Q), NEW w \in Watchers
  PROVE  /\ EventVerified(P!ClearPending(Q, w, priority))
         /\ P!ClearPending(Q, w, priority).at = [Q.at EXCEPT ![w] = 0]
  <1>1. P!ClearPending(Q, w, priority) = G(Watchers, {0}, pending_w)!ClearPending(Q, w, priority)
    BY DEF P!ClearPending, G!ClearPending
  <1> QED
    BY <1>1, PendingCleared DEF EventVerified

LEMMA EventFed ==
  ASSUME NEW Q, EventVerified(Q), NEW w \in Watchers, NEW revents \in SUBSET Received
  PROVE  /\ EventVerified(P!FeedEvent(Q, w, revents, priority))
         /\ \A v \in Watchers \ {w} : P!FeedEvent(Q, w, revents, priority).at[v] = Q.at[v]
  <1>1. P!FeedEvent(Q, w, revents, priority) =
          G(Watchers, {0}, pending_w)!FeedEvent(Q, w, revents, priority)
    BY DEF P!FeedEvent, G!FeedEvent
  <1> QED
    BY <1>1, PendingFed DEF EventVerified

LEMMA EventPopped ==
  ASSUME NEW Q, EventVerified(Q), P!AnyPending(Q)
  PROVE  /\ EventVerified(P!Popped(Q))
         /\ P!Next_(Q).w \in Watchers =>
              Q.at[P!Next_(Q).w] # 0 /\ P!Popped(Q).at = [Q.at EXCEPT ![P!Next_(Q).w] = 0]
         /\ P!Next_(Q).w \notin Watchers => P!Popped(Q).at = Q.at
  <1> DEFINE w == P!Next_(Q).w
             R == P!Popped(Q)
  <1>1. Q.q[0] # <<>> /\ P!TopPri(Q) = 0
    BY DEF P!AnyPending, P!TopPri
  <1>2. w = G(Watchers, {0}, pending_w)!Last(Q, 0).w
    BY <1>1 DEF P!Next_, P!Last, G!Last
  <1>3. R = G(Watchers, {0}, pending_w)!PoppedFrom(Q, 0)
    BY <1>1 DEF P!Popped, P!PoppedFrom, P!Last, G!PoppedFrom, G!Last
  <1> HIDE DEF w, R
  <1>4. Verified(Watchers, {0}, pending_w, priority, Q)
    BY DEF EventVerified
  <1>5. /\ Verified(Watchers, {0}, pending_w, priority, R)
        /\ w \in Watchers => Q.at[w] # 0 /\ R.at = [Q.at EXCEPT ![w] = 0]
        /\ w \notin Watchers => R.at = Q.at
    BY <1>1, <1>2, <1>3, <1>4, PendingPopped
  <1> QED
    BY <1>5 DEF EventVerified, w, R

-----------------------------------------------------------------------------
(* The watchers of the loop                                                *)
LoopOK(s) == s.active \subseteq Watchers /\ EventVerified(s.pending)

LEMMA StopEffect ==
  ASSUME NEW s, LoopOK(s), NEW w \in Watchers
  PROVE  /\ LoopOK(Stopped(s, w))
         /\ Stopped(s, w).active = s.active \ {w}
         /\ \A v \in Watchers : Stopped(s, w).pending.at[v] = IF v = w THEN 0 ELSE s.pending.at[v]
  <1>1. /\ Stopped(s, w).active = s.active \ {w}
        /\ Stopped(s, w).pending = P!ClearPending(s.pending, w, priority)
    BY DEF Stopped
  <1>2. s.pending.at \in [Watchers -> Nat] /\ EventVerified(s.pending)
    BY DEF LoopOK, EventVerified, Verified, Queues
  <1>3. /\ EventVerified(P!ClearPending(s.pending, w, priority))
        /\ P!ClearPending(s.pending, w, priority).at = [s.pending.at EXCEPT ![w] = 0]
    BY <1>2, EventCleared
  <1> QED
    BY <1>1, <1>2, <1>3 DEF LoopOK

LEMMA FedEffect ==
  ASSUME NEW A \in SUBSET Watchers, NEW Q, EventVerified(Q), NEW w \in Watchers,
         NEW revents \in SUBSET Received
  PROVE  LET s == Fed([active |-> A, pending |-> Q], w, revents)
         IN  /\ LoopOK(s) /\ s.active = A
             /\ \A v \in Watchers \ {w} : s.pending.at[v] = Q.at[v]
  <1> DEFINE R == P!FeedEvent(Q, w, revents, priority)
  <1>1. Fed([active |-> A, pending |-> Q], w, revents) = [active |-> A, pending |-> R]
    BY DEF Fed
  <1>2. EventVerified(R) /\ \A v \in Watchers \ {w} : R.at[v] = Q.at[v]
    BY EventFed
  <1> HIDE DEF R
  <1> QED
    BY <1>1, <1>2 DEF LoopOK

(* event_del leaves a pending timeout only if its watcher is not active,   *)
(* and what is pending for a descriptor or signal only if it has none      *)
LEMMA DelEffect ==
  ASSUME NEW s, LoopOK(s), NEW e \in Event, e \in timeouts => iosig(e) \notin s.active
  PROVE  /\ LoopOK(Deleted(s, e))
         /\ Deleted(s, e).active = s.active \ {iosig(e), to(e)}
         /\ Deleted(s, e).pending.at[iosig(e)] =
              IF e \in timeouts THEN s.pending.at[iosig(e)] ELSE 0
         /\ Deleted(s, e).pending.at[to(e)] =
              IF to(e) \in s.active THEN 0 ELSE s.pending.at[to(e)]
         /\ \A v \in Watchers \ {iosig(e), to(e)} :
              Deleted(s, e).pending.at[v] = s.pending.at[v]
  <1> DEFINE t == Unlistened(s, e)
  <1>1. iosig(e) \in Watchers /\ to(e) \in Watchers /\ iosig(e) # to(e)
    BY WatcherNames
  <1>2. /\ LoopOK(t) /\ t.active = s.active \ {iosig(e)}
        /\ \A v \in Watchers : t.pending.at[v] =
             IF v = iosig(e) /\ e \notin timeouts THEN 0 ELSE s.pending.at[v]
    <2>1. CASE e \in timeouts
      <3>1. t = s /\ s.active = s.active \ {iosig(e)}
        BY <2>1 DEF Unlistened
      <3> QED
        BY <2>1, <3>1
    <2>2. CASE e \notin timeouts
      <3>1. t = Stopped(s, iosig(e))
        BY <2>2 DEF Unlistened
      <3> QED
        BY <1>1, <2>2, <3>1, StopEffect
    <2> QED
      BY <2>1, <2>2
  <1>3. Deleted(s, e) = IF to(e) \in t.active THEN Stopped(t, to(e)) ELSE t
    BY DEF Deleted
  <1> HIDE DEF t
  <1>4. CASE to(e) \in s.active
    <2>1. Deleted(s, e) = Stopped(t, to(e))
      BY <1>1, <1>2, <1>3, <1>4
    <2>2. /\ LoopOK(Stopped(t, to(e))) /\ Stopped(t, to(e)).active = t.active \ {to(e)}
          /\ \A v \in Watchers :
               Stopped(t, to(e)).pending.at[v] = IF v = to(e) THEN 0 ELSE t.pending.at[v]
      BY <1>1, <1>2, StopEffect
    <2> QED
      BY <1>1, <1>2, <1>4, <2>1, <2>2
  <1>5. CASE to(e) \notin s.active
    <2>1. Deleted(s, e) = t
      BY <1>2, <1>3, <1>5
    <2> QED
      BY <1>1, <1>2, <1>5, <2>1
  <1> QED
    BY <1>4, <1>5

(* once_cb stops both                                                      *)
LEMMA OnceEffect ==
  ASSUME NEW s, LoopOK(s), NEW o \in Once, NEW w
  PROVE  /\ LoopOK(OnceDone(s, o, w))
         /\ OnceDone(s, o, w).active = s.active \ {iosig(o), to(o)}
         /\ OnceDone(s, o, w).pending.at[iosig(o)] = 0
         /\ OnceDone(s, o, w).pending.at[to(o)] = 0
         /\ \A v \in Watchers \ {iosig(o), to(o)} :
              OnceDone(s, o, w).pending.at[v] = s.pending.at[v]
  <1> DEFINE t == Stopped(s, iosig(o))
  <1>1. iosig(o) \in Watchers /\ to(o) \in Watchers /\ iosig(o) # to(o)
    BY WatcherNames
  <1>2. /\ LoopOK(t) /\ t.active = s.active \ {iosig(o)}
        /\ \A v \in Watchers : t.pending.at[v] = IF v = iosig(o) THEN 0 ELSE s.pending.at[v]
    BY <1>1, StopEffect
  <1>3. OnceDone(s, o, w) = Stopped(t, to(o))
    BY DEF OnceDone
  <1> HIDE DEF t
  <1>4. /\ LoopOK(Stopped(t, to(o))) /\ Stopped(t, to(o)).active = t.active \ {to(o)}
        /\ \A v \in Watchers :
             Stopped(t, to(o)).pending.at[v] = IF v = to(o) THEN 0 ELSE t.pending.at[v]
    BY <1>1, <1>2, StopEffect
  <1> QED
    BY <1>1, <1>2, <1>3, <1>4

(* What a step has to leave of the watchers of the events and of the       *)
(* calls of ev_once it does not touch                                      *)
LEMMA OthersKeep ==
  ASSUME EventIInv, NEW A, NEW Q, NEW x \in Event \cup Once,
         \A v \in Watchers \ {iosig(x), to(x)} : (v \in A <=> v \in active_w) /\ Q.at[v] = pending.at[v]
  PROVE  /\ \A e \in Event \ {x} : /\ e \in deleted => Deaf(A, Q, e, byhand)
                                   /\ TimesOut(A, Q, e, byhand)
         /\ \A o \in Once \ {x} : OnceOwned(state[o], called[o], A, Q, o)
  <1>1. \A y \in (Event \cup Once) \ {x} : 
          /\ iosig(y) \in Watchers \ {iosig(x), to(x)} 
          /\ to(y) \in Watchers \ {iosig(x), to(x)}
    BY WatcherNames
  <1>2. \A e \in Event \ {x} : /\ e \in deleted => Deaf(A, Q, e, byhand)
                               /\ TimesOut(A, Q, e, byhand)
    BY <1>1 DEF EventIInv, EventsHeard, Deaf, TimesOut
  <1>3. \A o \in Once \ {x} : OnceOwned(state[o], called[o], A, Q, o)
    BY <1>1 DEF EventIInv, OncesOwned, OnceOwned, Silenced
  <1> QED
    BY <1>2, <1>3

(* A step of an event, and one of an ev_once, that keeps the invariant     *)
LEMMA EventTouched ==
  ASSUME EventIInv, NEW e \in Event, active_w' \subseteq Watchers, EventVerified(pending'),
         state' = state, called' = called,
         \A v \in Watchers \ {iosig(e), to(e)} :
           (v \in active_w' <=> v \in active_w) /\ pending'.at[v] = pending.at[v],
         deleted' \in {deleted, deleted \cup {e}, deleted \ {e}},
         byhand' \subseteq Watchers,
         \A v \in Watchers \ {iosig(e), to(e)} : v \in byhand' <=> v \in byhand,
         e \in deleted' => Deaf(active_w', pending', e, byhand'),
         TimesOut(active_w', pending', e, byhand')
  PROVE  EventIInv'
  <1>1. e \in Event \cup Once /\ e \notin Once
    BY WatcherNames
  <1>2. /\ \A f \in Event \ {e} : /\ f \in deleted => Deaf(active_w', pending', f, byhand)
                                  /\ TimesOut(active_w', pending', f, byhand)
        /\ \A o \in Once : OnceOwned(state[o], called[o], active_w', pending', o)
    BY <1>1, OthersKeep
  <1>3. EventTypes'
    BY DEF EventIInv, EventTypes
  <1>4. ASSUME NEW f \in Event
        PROVE  /\ f \in deleted' => Deaf(active_w', pending', f, byhand')
               /\ TimesOut(active_w', pending', f, byhand')
    <2>1. CASE f = e
      BY <2>1
    <2>2. CASE f # e
      <3>1. /\ f \in deleted' <=> f \in deleted
            /\ iosig(f) \in byhand' <=> iosig(f) \in byhand
            /\ to(f) \in byhand' <=> to(f) \in byhand
        BY <2>2, WatcherNames
      <3> QED
        BY <1>2, <2>2, <3>1 DEF TimesOut, Deaf
    <2> QED
      BY <2>1, <2>2
  <1>5. EventsHeard'
    BY <1>4 DEF EventsHeard, Deaf, TimesOut, iosig, to
  <1>6. OncesOwned'
    BY <1>2 DEF OncesOwned, OnceOwned, Silenced, iosig, to
  <1> QED
    BY <1>3, <1>5, <1>6 DEF EventIInv

LEMMA OnceTouched ==
  ASSUME EventIInv, NEW o \in Once, active_w' \subseteq Watchers, EventVerified(pending'),
         deleted' = deleted, byhand' = byhand,
         \A v \in Watchers \ {iosig(o), to(o)} :
           (v \in active_w' <=> v \in active_w) /\ pending'.at[v] = pending.at[v],
         NEW s \in {"unused", "allocated", "freed"}, NEW c \in Nat,
         state' = [state EXCEPT ![o] = s], called' = [called EXCEPT ![o] = c],
         OnceOwned(s, c, active_w', pending', o)
  PROVE  EventIInv'
  <1>1. o \in Event \cup Once /\ o \notin Event
    BY WatcherNames
  <1>2. /\ \A e \in Event : /\ e \in deleted => Deaf(active_w', pending', e, byhand)
                            /\ TimesOut(active_w', pending', e, byhand)
        /\ \A q \in Once \ {o} : OnceOwned(state[q], called[q], active_w', pending', q)
    BY <1>1, OthersKeep
  <1>3. EventTypes'
    BY DEF EventIInv, EventTypes
  <1>4. EventsHeard'
    BY <1>2 DEF EventsHeard, Deaf, TimesOut, iosig, to
  <1>5. /\ state'[o] = s /\ called'[o] = c
        /\ \A q \in Once \ {o} : state'[q] = state[q] /\ called'[q] = called[q]
    BY DEF EventIInv, EventTypes
  <1>6. \A q \in Once : OnceOwned(state'[q], called'[q], active_w', pending', q)
    BY <1>2, <1>5
  <1>7. OncesOwned'
    BY <1>6 DEF OncesOwned, OnceOwned, Silenced, iosig, to
  <1> QED
    BY <1>3, <1>4, <1>7 DEF EventIInv

LEMMA LoopHere ==
  ASSUME EventIInv
  PROVE  /\ Here.active = active_w /\ Here.pending = pending /\ LoopOK(Here)
         /\ pending.at \in [Watchers -> Nat]
  BY DEF Here, LoopOK, EventIInv, EventTypes, EventVerified, Verified, Queues

(* The program: event_add, event_del and event_active                      *)
LEMMA EventAddKeeps ==
  ASSUME EventIInv, NEW e \in Event, EventAdd(e)
  PROVE  EventIInv'
  <1> DEFINE t == [Here EXCEPT !.active = @ \cup Listener(e)]
             s == Stopped(t, to(e))
  <1>1. iosig(e) \in Watchers /\ to(e) \in Watchers /\ iosig(e) # to(e)
    BY WatcherNames
  <1>2. t.active = active_w \cup Listener(e) /\ t.pending = pending
    BY LoopHere DEF Here
  <1>0. Listener(e) \subseteq {iosig(e)} /\ (e \in timeouts => Listener(e) = {})
    BY DEF Listener
  <1>3. LoopOK(t)
    BY <1>0, <1>1, <1>2, LoopHere DEF LoopOK
  <1>4. active_w' = s.active /\ pending' = s.pending
    BY Zenon DEF EventAdd, LoopBecomes
  <1> HIDE DEF t
  <1>5. /\ LoopOK(s) /\ s.active = t.active \ {to(e)}
        /\ \A v \in Watchers : s.pending.at[v] = IF v = to(e) THEN 0 ELSE t.pending.at[v]
    BY <1>1, <1>3, StopEffect
  <1> HIDE DEF s
  <1>6. active_w' \subseteq Watchers /\ EventVerified(pending')
    BY <1>4, <1>5 DEF LoopOK
  <1>7. \A v \in Watchers \ {iosig(e), to(e)} :
          (v \in active_w' <=> v \in active_w) /\ pending'.at[v] = pending.at[v]
    BY <1>0, <1>2, <1>4, <1>5
  <1>8. /\ pending'.at[to(e)] = 0 /\ pending'.at[iosig(e)] = pending.at[iosig(e)]
        /\ e \in timeouts => (iosig(e) \in active_w' => iosig(e) \in active_w)
    BY <1>0, <1>1, <1>2, <1>4, <1>5
  <1>9. /\ deleted' = deleted \ {e} /\ byhand' = byhand \ {to(e)}
        /\ state' = state /\ called' = called
    BY DEF EventAdd
  <1>10. TimesOut(active_w, pending, e, byhand)
    BY DEF EventIInv, EventsHeard
  <1>11. TimesOut(active_w', pending', e, byhand')
    BY <1>1, <1>8, <1>9, <1>10 DEF TimesOut
  <1>12. byhand' \subseteq Watchers
    BY <1>9 DEF EventIInv, EventTypes
  <1> QED
    BY <1>6, <1>7, <1>9, <1>11, <1>12, EventTouched

LEMMA EventAddTimeoutKeeps ==
  ASSUME EventIInv, NEW e \in Event, NEW again \in BOOLEAN, EventAddTimeout(e, again)
  PROVE  EventIInv'
  <1> DEFINE t == [Here EXCEPT !.active = @ \cup Listener(e)]
             u == [t EXCEPT !.active = @ \cup {to(e)}]
             s == Stopped(t, to(e))
  <1>1. iosig(e) \in Watchers /\ to(e) \in Watchers /\ iosig(e) # to(e)
    BY WatcherNames
  <1>2. /\ t.active = active_w \cup Listener(e) /\ t.pending = pending
        /\ u.active = (active_w \cup Listener(e)) \cup {to(e)} /\ u.pending = pending
    BY LoopHere DEF Here
  <1>0. Listener(e) \subseteq {iosig(e)} /\ (e \in timeouts => Listener(e) = {})
    BY DEF Listener
  <1>3. LoopOK(t) /\ LoopOK(u)
    BY <1>0, <1>1, <1>2, LoopHere DEF LoopOK
  <1>4. LoopBecomes(IF again THEN u ELSE IF to(e) \in active_w THEN s ELSE t)
    BY Zenon DEF EventAddTimeout
  <1> HIDE DEF t, u
  <1>5. /\ LoopOK(s) /\ s.active = t.active \ {to(e)}
        /\ \A v \in Watchers : s.pending.at[v] = IF v = to(e) THEN 0 ELSE t.pending.at[v]
    BY <1>1, <1>3, StopEffect
  <1> HIDE DEF s
  <1>6. /\ deleted' = deleted \ {e} /\ byhand' = byhand
        /\ state' = state /\ called' = called
    BY DEF EventAddTimeout
  <1>7. TimesOut(active_w, pending, e, byhand) /\ byhand' \subseteq Watchers
    BY <1>6 DEF EventIInv, EventsHeard, EventTypes
  <1>8. CASE again
    <2>1. active_w' = u.active /\ pending' = u.pending
      BY <1>4, <1>8 DEF LoopBecomes
    <2>2. active_w' \subseteq Watchers /\ EventVerified(pending')
      BY <1>3, <2>1 DEF LoopOK
    <2>3. \A v \in Watchers \ {iosig(e), to(e)} :
            (v \in active_w' <=> v \in active_w) /\ pending'.at[v] = pending.at[v]
      BY <1>0, <1>2, <2>1
    <2>4. TimesOut(active_w', pending', e, byhand')
      BY <1>0, <1>1, <1>2, <1>6, <1>7, <2>1 DEF TimesOut
    <2> QED
      BY <1>6, <1>7, <2>2, <2>3, <2>4, EventTouched
  <1>9. CASE ~again /\ to(e) \in active_w
    <2>1. active_w' = s.active /\ pending' = s.pending
      BY <1>4, <1>9 DEF LoopBecomes
    <2>2. active_w' \subseteq Watchers /\ EventVerified(pending')
      BY <1>5, <2>1 DEF LoopOK
    <2>3. \A v \in Watchers \ {iosig(e), to(e)} :
            (v \in active_w' <=> v \in active_w) /\ pending'.at[v] = pending.at[v]
      BY <1>0, <1>2, <1>5, <2>1
    <2>4. TimesOut(active_w', pending', e, byhand')
      BY <1>0, <1>1, <1>2, <1>5, <1>6, <1>7, <2>1 DEF TimesOut
    <2> QED
      BY <1>6, <1>7, <2>2, <2>3, <2>4, EventTouched
  <1>10. CASE ~again /\ to(e) \notin active_w
    <2>1. active_w' = t.active /\ pending' = t.pending
      BY <1>4, <1>10 DEF LoopBecomes
    <2>2. active_w' \subseteq Watchers /\ EventVerified(pending')
      BY <1>3, <2>1 DEF LoopOK
    <2>3. \A v \in Watchers \ {iosig(e), to(e)} :
            (v \in active_w' <=> v \in active_w) /\ pending'.at[v] = pending.at[v]
      BY <1>0, <1>2, <2>1
    <2>4. TimesOut(active_w', pending', e, byhand')
      BY <1>0, <1>1, <1>2, <1>6, <1>7, <2>1 DEF TimesOut
    <2> QED
      BY <1>6, <1>7, <2>2, <2>3, <2>4, EventTouched
  <1> QED
    BY <1>8, <1>9, <1>10

LEMMA EventDelKeeps ==
  ASSUME EventIInv, NEW e \in Event, EventDel(e)
  PROVE  EventIInv'
  <1> DEFINE s == Deleted(Here, e)
  <1>1. iosig(e) \in Watchers /\ to(e) \in Watchers /\ iosig(e) # to(e)
    BY WatcherNames
  <1>8. TimesOut(active_w, pending, e, byhand)
    BY DEF EventIInv, EventsHeard
  <1>2. /\ LoopOK(s) /\ s.active = active_w \ {iosig(e), to(e)}
        /\ s.pending.at[iosig(e)] = IF e \in timeouts THEN pending.at[iosig(e)] ELSE 0
        /\ s.pending.at[to(e)] = IF to(e) \in active_w THEN 0 ELSE pending.at[to(e)]
        /\ \A v \in Watchers \ {iosig(e), to(e)} : s.pending.at[v] = pending.at[v]
    BY LoopHere, <1>8, DelEffect DEF TimesOut
  <1>3. active_w' = s.active /\ pending' = s.pending
    BY DEF EventDel, LoopBecomes
  <1>4. /\ deleted' = deleted \cup {e}
        /\ byhand' = IF to(e) \in active_w THEN byhand \ {to(e)} ELSE byhand
        /\ state' = state /\ called' = called
    BY DEF EventDel
  <1> HIDE DEF s
  <1>5. active_w' \subseteq Watchers /\ EventVerified(pending')
    BY <1>2, <1>3 DEF LoopOK
  <1>6. \A v \in Watchers \ {iosig(e), to(e)} :
          (v \in active_w' <=> v \in active_w) /\ pending'.at[v] = pending.at[v]
    BY <1>2, <1>3
  <1>7. Deaf(active_w', pending', e, byhand') /\ byhand' \subseteq Watchers
    BY <1>1, <1>2, <1>3, <1>4, <1>8 DEF Deaf, TimesOut, EventIInv, EventTypes
  <1>9. TimesOut(active_w', pending', e, byhand')
    BY <1>1, <1>2, <1>3, <1>4, <1>8 DEF TimesOut
  <1> QED
    BY <1>4, <1>5, <1>6, <1>7, <1>9, EventTouched

LEMMA EventActiveKeeps ==
  ASSUME EventIInv, NEW e \in Event, NEW w \in {iosig(e), to(e)}, EventActive(e, w)
  PROVE  EventIInv'
  <1> DEFINE bits == {IF w = to(e) THEN "EV_TIMEOUT" ELSE "EV_IOSIG"}
             s == Fed(Here, w, bits)
  <1>1. iosig(e) \in Watchers /\ to(e) \in Watchers /\ iosig(e) # to(e)
    BY WatcherNames
  <1>2. bits \in SUBSET Received
    BY DEF Received
  <1>3. active_w' = s.active /\ pending' = s.pending
    BY Zenon DEF EventActive, LoopBecomes
  <1>4. /\ deleted' = deleted \ {e}
        /\ byhand' = IF w \notin active_w \cup Listener(e) THEN byhand \cup {w} ELSE byhand
        /\ state' = state /\ called' = called
    BY DEF EventActive
  <1> HIDE DEF bits
  <1>5. /\ LoopOK(s) /\ s.active = active_w
        /\ \A v \in Watchers \ {w} : s.pending.at[v] = pending.at[v]
    BY <1>1, <1>2, FedEffect, LoopHere DEF Here, LoopOK
  <1> HIDE DEF s
  <1>6. active_w' \subseteq Watchers /\ EventVerified(pending')
    BY <1>3, <1>5 DEF LoopOK
  <1>7. \A v \in Watchers \ {iosig(e), to(e)} :
          (v \in active_w' <=> v \in active_w) /\ pending'.at[v] = pending.at[v]
    BY <1>3, <1>5
  <1>8. TimesOut(active_w, pending, e, byhand)
    BY DEF EventIInv, EventsHeard
  <1>9. TimesOut(active_w', pending', e, byhand') /\ byhand' \subseteq Watchers
    BY <1>1, <1>3, <1>4, <1>5, <1>8 DEF TimesOut, Listener, EventIInv, EventTypes
  <1> QED
    BY <1>4, <1>6, <1>7, <1>9, EventTouched

(* ev_once                                                                 *)
LEMMA EvOnceKeeps ==
  ASSUME EventIInv, NEW o \in Once, NEW ws \in SUBSET {iosig(o), to(o)}, EvOnce(o, ws)
  PROVE  EventIInv'
  <1>1. iosig(o) \in Watchers /\ to(o) \in Watchers
    BY WatcherNames
  <1>2. /\ active_w' = active_w \cup ws /\ pending' = pending
        /\ deleted' = deleted /\ byhand' = byhand /\ called' = called
        /\ state' = [state EXCEPT ![o] = "allocated"] /\ state[o] = "unused"
    BY DEF EvOnce
  <1>3. called[o] = 0 /\ called = [called EXCEPT ![o] = 0]
    BY <1>2 DEF EventIInv, EventTypes, OncesOwned, OnceOwned
  <1>4. active_w' \subseteq Watchers /\ EventVerified(pending')
    BY <1>1, <1>2 DEF EventIInv, EventTypes
  <1>5. \A v \in Watchers \ {iosig(o), to(o)} :
          (v \in active_w' <=> v \in active_w) /\ pending'.at[v] = pending.at[v]
    BY <1>2
  <1>6. OnceOwned("allocated", 0, active_w', pending', o)
    BY DEF OnceOwned
  <1>7. called' = [called EXCEPT ![o] = 0]
    BY <1>2, <1>3
  <1> QED
    BY <1>2, <1>4, <1>5, <1>6, <1>7, OnceTouched

-----------------------------------------------------------------------------
(* The loop.  An ev_once with a watcher that is active or pending has not  *)
(* called back; a deleted event has none that is active                    *)
LEMMA OnceWaits ==
  ASSUME EventIInv, NEW o \in Once, NEW w \in {iosig(o), to(o)},
         w \in active_w \/ pending.at[w] # 0
  PROVE  /\ state[o] = "allocated" /\ called[o] = 0
         /\ [state EXCEPT ![o] = "allocated"] = state /\ [called EXCEPT ![o] = 0] = called
  <1>1. state[o] \in {"unused", "allocated", "freed"}
    BY DEF EventIInv, EventTypes
  <1>2. OnceOwned(state[o], called[o], active_w, pending, o)
    BY DEF EventIInv, OncesOwned
  <1>3. ~Silenced(active_w, pending, o)
    BY DEF Silenced
  <1>4. state[o] = "allocated" /\ called[o] = 0
    BY <1>1, <1>2, <1>3 DEF OnceOwned
  <1> QED
    BY <1>4 DEF EventIInv, EventTypes

LEMMA EventWatches ==
  ASSUME EventIInv, NEW e \in Event, iosig(e) \in active_w \/ to(e) \in active_w
  PROVE  e \notin deleted
  BY DEF EventIInv, EventsHeard, Deaf

(* A watcher is fed, after it was stopped if that is asked                 *)
LEMMA StoppedFed ==
  ASSUME EventIInv, NEW w \in Watchers, NEW bits \in SUBSET Received, NEW stop \in BOOLEAN,
         LoopBecomes(Fed(IF stop THEN Stopped(Here, w) ELSE Here, w, bits))
  PROVE  /\ active_w' \subseteq Watchers /\ EventVerified(pending')
         /\ active_w' = IF stop THEN active_w \ {w} ELSE active_w
         /\ \A v \in Watchers \ {w} : pending'.at[v] = pending.at[v]
  <1> DEFINE s == IF stop THEN Stopped(Here, w) ELSE Here
  <1>1. /\ s = [active |-> s.active, pending |-> s.pending] /\ LoopOK(s)
        /\ s.active = IF stop THEN active_w \ {w} ELSE active_w
        /\ \A v \in Watchers \ {w} : s.pending.at[v] = pending.at[v]
    <2>1. CASE stop
      <3>1. /\ LoopOK(Stopped(Here, w)) /\ Stopped(Here, w).active = active_w \ {w}
            /\ \A v \in Watchers :
                 Stopped(Here, w).pending.at[v] = IF v = w THEN 0 ELSE pending.at[v]
        BY LoopHere, StopEffect
      <3>2. Stopped(Here, w) = [active |-> Stopped(Here, w).active,
                                pending |-> Stopped(Here, w).pending]
        BY DEF Stopped
      <3> QED
        BY <2>1, <3>1, <3>2
    <2>2. CASE ~stop
      <3>1. Here = [active |-> Here.active, pending |-> Here.pending]
        BY DEF Here
      <3> QED
        BY <2>2, <3>1, LoopHere
    <2> QED
      BY <2>1, <2>2
  <1>2. active_w' = Fed(s, w, bits).active /\ pending' = Fed(s, w, bits).pending
    BY DEF LoopBecomes
  <1> HIDE DEF s
  <1> DEFINE A == s.active
             Q == s.pending
  <1>3. s = [active |-> A, pending |-> Q] /\ A \in SUBSET Watchers /\ EventVerified(Q)
    BY <1>1 DEF LoopOK
  <1> HIDE DEF A, Q
  <1>4. LoopOK(Fed(s, w, bits)) /\ Fed(s, w, bits).active = A
        /\ \A v \in Watchers \ {w} : Fed(s, w, bits).pending.at[v] = Q.at[v]
    BY <1>3, FedEffect
  <1> QED
    BY <1>1, <1>2, <1>4 DEF LoopOK, A, Q

LEMMA DueKeeps ==
  ASSUME EventIInv, NEW w \in Watchers, Due(w)
  PROVE  EventIInv'
  <1> DEFINE x == w[1]
             stop == w[2] = "to" /\ x \in Once
             bits == {IF w[2] = "to" THEN "EV_TIMEOUT" ELSE "EV_IOSIG"}
  <1>1. /\ x \in Event \cup Once /\ w \in {iosig(x), to(x)} /\ (w[2] = "to" <=> w = to(x))
        /\ iosig(x) \in Watchers /\ to(x) \in Watchers /\ iosig(x) # to(x)
        /\ Event \cap Once = {}
    BY WatcherNames
  <1>2. w \in active_w /\ LoopBecomes(Fed(IF stop THEN Stopped(Here, w) ELSE Here, w, bits))
    BY DEF Due
  <1>3. bits \in SUBSET Received /\ stop \in BOOLEAN
    BY DEF Received
  <1>4. state' = state /\ called' = called /\ deleted' = deleted /\ byhand' = byhand
    BY DEF Due
  <1> HIDE DEF bits, stop
  <1>5. /\ active_w' \subseteq Watchers /\ EventVerified(pending')
        /\ active_w' = IF stop THEN active_w \ {w} ELSE active_w
        /\ \A v \in Watchers \ {w} : pending'.at[v] = pending.at[v]
    BY <1>2, <1>3, StoppedFed
  <1> HIDE DEF x
  <1>6. \A v \in Watchers \ {iosig(x), to(x)} :
          (v \in active_w' <=> v \in active_w) /\ pending'.at[v] = pending.at[v]
    BY <1>1, <1>5
  <1>7. CASE x \in Event
    <2>1. ~stop /\ active_w' = active_w
      BY <1>1, <1>5, <1>7 DEF stop, x
    <2>2. x \notin deleted
      BY <1>1, <1>2, <1>7, EventWatches
    <2>3. TimesOut(active_w, pending, x, byhand) /\ byhand' \subseteq Watchers
      BY <1>4, <1>7 DEF EventIInv, EventsHeard, EventTypes
    <2>4. TimesOut(active_w', pending', x, byhand')
      BY <1>1, <1>2, <1>4, <1>5, <2>1, <2>3 DEF TimesOut
    <2> QED
      BY <1>4, <1>5, <1>6, <1>7, <2>2, <2>3, <2>4, EventTouched
  <1>8. CASE x \in Once
    <2>1. state' = [state EXCEPT ![x] = "allocated"] /\ called' = [called EXCEPT ![x] = 0]
      BY <1>1, <1>2, <1>4, <1>8, OnceWaits
    <2>2. OnceOwned("allocated", 0, active_w', pending', x)
      BY DEF OnceOwned
    <2> QED
      BY <1>4, <1>5, <1>6, <1>8, <2>1, <2>2, OnceTouched
  <1> QED
    BY <1>1, <1>7, <1>8

LEMMA FdKillKeeps ==
  ASSUME EventIInv, NEW x \in Event \cup Once, FdKill(x)
  PROVE  EventIInv'
  <1> DEFINE w == iosig(x)
             bits == {"EV_IOSIG", "EV_ERROR"}
  <1>1. w \in Watchers /\ to(x) \in Watchers /\ w # to(x) /\ Event \cap Once = {}
    BY WatcherNames
  <1>2. w \in active_w /\ LoopBecomes(Fed(IF TRUE THEN Stopped(Here, w) ELSE Here, w, bits))
    BY DEF FdKill
  <1>3. bits \in SUBSET Received
    BY DEF Received
  <1>4. state' = state /\ called' = called /\ deleted' = deleted /\ byhand' = byhand
    BY DEF FdKill
  <1> HIDE DEF bits, w
  <1>5. /\ active_w' \subseteq Watchers /\ EventVerified(pending')
        /\ active_w' = active_w \ {w}
        /\ \A v \in Watchers \ {w} : pending'.at[v] = pending.at[v]
    BY <1>1, <1>2, <1>3, StoppedFed
  <1>6. \A v \in Watchers \ {iosig(x), to(x)} :
          (v \in active_w' <=> v \in active_w) /\ pending'.at[v] = pending.at[v]
    BY <1>5 DEF w
  <1>7. CASE x \in Event
    <2>2. x \notin deleted
      BY <1>2, <1>7, EventWatches DEF w
    <2>3. TimesOut(active_w, pending, x, byhand) /\ byhand' \subseteq Watchers
      BY <1>4, <1>7 DEF EventIInv, EventsHeard, EventTypes
    <2>4. TimesOut(active_w', pending', x, byhand')
      BY <1>1, <1>2, <1>4, <1>5, <2>3 DEF TimesOut, w
    <2> QED
      BY <1>4, <1>5, <1>6, <1>7, <2>2, <2>3, <2>4, EventTouched
  <1>8. CASE x \in Once
    <2>1. state' = [state EXCEPT ![x] = "allocated"] /\ called' = [called EXCEPT ![x] = 0]
      BY <1>2, <1>4, <1>8, OnceWaits DEF w
    <2>2. OnceOwned("allocated", 0, active_w', pending', x)
      BY DEF OnceOwned
    <2> QED
      BY <1>4, <1>5, <1>6, <1>8, <2>1, <2>2, OnceTouched
  <1> QED
    BY <1>7, <1>8

(* The entry ev_invoke_pending takes is that of a pending watcher          *)
LEMMA PoppedEffect ==
  ASSUME EventIInv, NEW w, Popped(w)
  PROVE  /\ EventVerified(P!Popped(pending))
         /\ w \in Watchers => /\ pending.at[w] # 0 
                              /\ P!Popped(pending).at = [pending.at EXCEPT ![w] = 0]
         /\ w \notin Watchers => P!Popped(pending).at = pending.at
  <1>1. P!AnyPending(pending) /\ P!Next_(pending).w = w /\ EventVerified(pending)
    BY DEF Popped, EventIInv, EventTypes
  <1> QED
    BY <1>1, EventPopped

LEMMA EventCallbackKeeps ==
  ASSUME EventIInv, NEW e \in Event, EventCallback(e)
  PROVE  EventIInv' /\ (e \in deleted => \E w \in {iosig(e), to(e)} \cap byhand : Popped(w))
  <1>1. PICK w \in {iosig(e), to(e)} :
          /\ Popped(w)
          /\ LET s == [Here EXCEPT !.pending = P!Popped(@)]
                 del == Deletes(e, w, P!Next_(pending).events)
             IN  /\ LoopBecomes(IF del THEN Deleted(s, e) ELSE s)
                 /\ deleted' = IF del THEN deleted \cup {e} ELSE deleted
          /\ byhand' = byhand \ {w}
    BY DEF EventCallback
  <1> DEFINE Q == P!Popped(pending)
             s == [active |-> active_w, pending |-> Q]
             d == Deleted(s, e)
             del == Deletes(e, w, P!Next_(pending).events)
  <1>2. iosig(e) \in Watchers /\ to(e) \in Watchers /\ iosig(e) # to(e)
    BY WatcherNames
  <1>3. s = [Here EXCEPT !.pending = P!Popped(@)]
    BY DEF Here
  <1>4. /\ LoopBecomes(IF del THEN d ELSE s)
        /\ deleted' = IF del THEN deleted \cup {e} ELSE deleted
    BY <1>1, <1>3
  <1>5. /\ EventVerified(Q) /\ pending.at[w] # 0 /\ Q.at = [pending.at EXCEPT ![w] = 0]
    BY <1>1, <1>2, PoppedEffect
  <1>6. pending.at \in [Watchers -> Nat] /\ active_w \subseteq Watchers
    BY LoopHere DEF LoopOK
  <1>7. \A v \in Watchers : Q.at[v] = IF v = w THEN 0 ELSE pending.at[v]
    BY <1>5, <1>6
  <1> HIDE DEF Q
  <1>8. LoopOK(s) /\ s.active = active_w /\ s.pending = Q
    BY <1>5, <1>6 DEF LoopOK
  <1> HIDE DEF s
  <1>11. /\ TimesOut(active_w, pending, e, byhand)
         /\ e \in deleted => Deaf(active_w, pending, e, byhand)
    BY DEF EventIInv, EventsHeard
  <1>9. /\ LoopOK(d) /\ d.active = active_w \ {iosig(e), to(e)}
        /\ d.pending.at[iosig(e)] = IF e \in timeouts THEN Q.at[iosig(e)] ELSE 0
        /\ d.pending.at[to(e)] = IF to(e) \in active_w THEN 0 ELSE Q.at[to(e)]
        /\ \A v \in Watchers \ {iosig(e), to(e)} : d.pending.at[v] = Q.at[v]
    BY <1>8, <1>11, DelEffect DEF TimesOut
  <1> HIDE DEF d, del
  <1>10. state' = state /\ called' = called
    BY DEF EventCallback
  <1>12. /\ e \in deleted => w \in byhand
         /\ byhand' \subseteq Watchers /\ \A v \in Watchers \ {w} : v \in byhand' <=> v \in byhand
    BY <1>1, <1>5, <1>11 DEF Deaf, TimesOut, EventIInv, EventTypes
  <1>13. CASE del
    <2>1. active_w' = d.active /\ pending' = d.pending /\ deleted' = deleted \cup {e}
      BY <1>4, <1>13 DEF LoopBecomes
    <2>2. active_w' \subseteq Watchers /\ EventVerified(pending')
      BY <1>9, <2>1 DEF LoopOK
    <2>3. \A v \in Watchers \ {iosig(e), to(e)} :
            (v \in active_w' <=> v \in active_w) /\ pending'.at[v] = pending.at[v]
      BY <1>1, <1>7, <1>9, <2>1
    <2>4. Deaf(active_w', pending', e, byhand')
      BY <1>1, <1>2, <1>7, <1>9, <1>11, <2>1 DEF Deaf, TimesOut
    <2>5. TimesOut(active_w', pending', e, byhand')
      BY <1>1, <1>2, <1>7, <1>9, <1>11, <2>1 DEF TimesOut
    <2> QED
      BY <1>1, <1>10, <1>12, <2>1, <2>2, <2>3, <2>4, <2>5, EventTouched
  <1>14. CASE ~del
    <2>1. active_w' = active_w /\ pending' = Q /\ deleted' = deleted
      BY <1>4, <1>8, <1>14 DEF LoopBecomes
    <2>2. active_w' \subseteq Watchers /\ EventVerified(pending')
      BY <1>5, <1>6, <2>1
    <2>3. \A v \in Watchers \ {iosig(e), to(e)} :
            (v \in active_w' <=> v \in active_w) /\ pending'.at[v] = pending.at[v]
      BY <1>1, <1>7, <2>1
    <2>4. e \in deleted' => Deaf(active_w', pending', e, byhand')
      BY <1>1, <1>2, <1>7, <1>11, <2>1 DEF Deaf
    <2>5. TimesOut(active_w', pending', e, byhand')
      BY <1>1, <1>2, <1>7, <1>11, <2>1 DEF TimesOut
    <2> QED
      BY <1>1, <1>10, <1>12, <2>1, <2>2, <2>3, <2>4, <2>5, EventTouched
  <1> QED
    BY <1>13, <1>14

LEMMA OnceCallbackKeeps ==
  ASSUME EventIInv, NEW o \in Once, OnceCallback(o)
  PROVE  EventIInv'
  <1>1. PICK w \in {iosig(o), to(o)} :
          Popped(w) /\ LoopBecomes(OnceDone([Here EXCEPT !.pending = P!Popped(@)], o, w))
    BY DEF OnceCallback
  <1> DEFINE Q == P!Popped(pending)
             s == [active |-> active_w, pending |-> Q]
             d == OnceDone(s, o, w)
  <1>2. iosig(o) \in Watchers /\ to(o) \in Watchers /\ iosig(o) # to(o)
    BY WatcherNames
  <1>3. s = [Here EXCEPT !.pending = P!Popped(@)]
    BY DEF Here
  <1>4. active_w' = d.active /\ pending' = d.pending
    BY <1>1, <1>3 DEF LoopBecomes
  <1>5. EventVerified(Q) /\ pending.at[w] # 0 /\ Q.at = [pending.at EXCEPT ![w] = 0]
    BY <1>1, <1>2, PoppedEffect
  <1>6. pending.at \in [Watchers -> Nat] /\ active_w \subseteq Watchers
    BY LoopHere DEF LoopOK
  <1>7. \A v \in Watchers : Q.at[v] = IF v = w THEN 0 ELSE pending.at[v]
    BY <1>5, <1>6
  <1> HIDE DEF Q
  <1>8. LoopOK(s) /\ s.active = active_w /\ s.pending = Q
    BY <1>5, <1>6 DEF LoopOK
  <1> HIDE DEF s
  <1>9. /\ LoopOK(d) /\ d.active = active_w \ {iosig(o), to(o)}
        /\ d.pending.at[iosig(o)] = 0 /\ d.pending.at[to(o)] = 0
        /\ \A v \in Watchers \ {iosig(o), to(o)} : d.pending.at[v] = Q.at[v]
    BY <1>8, OnceEffect
  <1> HIDE DEF d
  <1>10. called[o] = 0
    BY <1>1, <1>5, OnceWaits
  <1>11. /\ state' = [state EXCEPT ![o] = "freed"] /\ called' = [called EXCEPT ![o] = 1]
         /\ deleted' = deleted /\ byhand' = byhand
    BY <1>10 DEF OnceCallback
  <1>12. active_w' \subseteq Watchers /\ EventVerified(pending')
    BY <1>4, <1>9 DEF LoopOK
  <1>13. \A v \in Watchers \ {iosig(o), to(o)} :
           (v \in active_w' <=> v \in active_w) /\ pending'.at[v] = pending.at[v]
    BY <1>1, <1>4, <1>7, <1>9
  <1>14. OnceOwned("freed", 1, active_w', pending', o)
    BY <1>4, <1>9 DEF OnceOwned, Silenced
  <1> QED
    BY <1>11, <1>12, <1>13, <1>14, OnceTouched

(* Nothing pending moves: ev_invoke_pending begins, ends or passes over a  *)
(* watcher that was stopped                                                *)
LEMMA LoopTurns ==
  ASSUME EventIInv, active_w' = active_w, EventVerified(pending'), pending'.at = pending.at,
         UNCHANGED <<state, called, deleted, byhand>>
  PROVE  EventIInv'
  BY DEF EventIInv, EventTypes, EventsHeard, Deaf, TimesOut, OncesOwned, OnceOwned, Silenced,
         iosig, to

LEMMA EventInductive ==
  ASSUME EventIInv, [EventNext]_event_vars
  PROVE  EventIInv'
  <1>1. CASE UNCHANGED event_vars
    BY <1>1, LoopTurns DEF event_vars, EventIInv, EventTypes
  <1>2. ASSUME NEW e \in Event,
               \/ EventAdd(e) \/ EventDel(e) \/ EventCallback(e)
               \/ \E again \in BOOLEAN : EventAddTimeout(e, again)
               \/ \E w \in {iosig(e), to(e)} : EventActive(e, w)
        PROVE  EventIInv'
    BY <1>2, EventAddKeeps, EventDelKeeps, EventCallbackKeeps, EventAddTimeoutKeeps,
       EventActiveKeeps
  <1>3. ASSUME NEW o \in Once,
               \/ OnceCallback(o)
               \/ \E ws \in (SUBSET {iosig(o), to(o)}) \ {{}} : EvOnce(o, ws)
        PROVE  EventIInv'
    BY <1>3, OnceCallbackKeeps, EvOnceKeeps
  <1>4. CASE (\E w \in Watchers : Due(w)) \/ \E e \in Event \cup Once : FdKill(e)
    BY <1>4, DueKeeps, FdKillKeeps
  <1>5. CASE Invoking
    BY <1>5, LoopTurns DEF Invoking, EventIInv, EventTypes
  <1>6. CASE Skip
    <2>1. active_w' = active_w /\ UNCHANGED <<state, called, deleted, byhand>>
      BY <1>6 DEF Skip
    <2>2. CASE UNCHANGED pending
      BY <2>1, <2>2, LoopTurns DEF EventIInv, EventTypes
    <2>3. CASE Popped(pending_w) /\ pending' = P!Popped(pending)
      <3>1. EventVerified(pending') /\ pending'.at = pending.at
        BY <2>3, PoppedEffect, WatcherNames
      <3> QED
        BY <2>1, <3>1, LoopTurns
    <2> QED
      BY <1>6, <2>2, <2>3 DEF Skip
  <1> QED
    BY <1>1, <1>2, <1>3, <1>4, <1>5, <1>6 DEF EventNext

LEMMA EventStarts ==
  ASSUME EventInit
  PROVE  EventIInv
  <1>1. pending = G(Watchers, {0}, pending_w)!NoneFed
    BY DEF EventInit, P!NoneFed, G!NoneFed
  <1>2. priority \in [Watchers -> {0}] /\ pending_w \notin Watchers
    BY EventAssumption DEF priority, Watchers
  <1>3. Verified(Watchers, {0}, pending_w, priority, pending) /\ \A w \in Watchers : pending.at[w] = 0
    BY <1>1, <1>2, NonePending
  <1>4. EventTypes
    BY <1>3 DEF EventInit, EventTypes, EventVerified
  <1>5. \A x \in Event \cup Once : iosig(x) \in Watchers /\ to(x) \in Watchers
    BY WatcherNames
  <1>6. EventsHeard
    BY <1>3, <1>5 DEF EventInit, EventsHeard, Deaf, TimesOut
  <1>7. OncesOwned
    BY <1>3, <1>5 DEF EventInit, OncesOwned, OnceOwned, Silenced
  <1> QED
    BY <1>4, <1>6, <1>7 DEF EventIInv

(* For any number of events and calls of ev_once, whatever the program     *)
(* does with them and whenever they are due: no callback of a watcher that *)
(* was stopped.  An event that was deleted is called only for what         *)
(* event_active gave it by hand and event_del leaves pending, ev_once      *)
(* calls back once at most, and nothing of it is active or pending after   *)
THEOREM CalledInTimeAlways == EventSpec => CalledInTime
  <1>1. EventInit => EventIInv
    BY EventStarts
  <1>2. EventIInv /\ [EventNext]_event_vars => EventIInv'
    BY EventInductive
  <1>3. EventIInv' => \A o \in Once : OnceOver(o)'
    <2> SUFFICES ASSUME EventIInv', NEW o \in Once
                 PROVE  OnceOver(o)'
      OBVIOUS
    <2>1. /\ OnceOwned(state'[o], called'[o], active_w', pending', o)
          /\ state'[o] \in {"unused", "allocated", "freed"}
      BY DEF EventIInv, EventTypes, OncesOwned, OnceOwned, Silenced, iosig, to
    <2>2. /\ called'[o] \in {0, 1}
          /\ called'[o] = 1 => Silenced(active_w', pending', o)
      BY <2>1 DEF OnceOwned
    <2> QED
      BY <2>2 DEF OnceOver, Silenced, iosig, to
  <1>4. EventIInv => \A e \in deleted :
          EventCallback(e) => \E w \in {iosig(e), to(e)} \cap byhand : Popped(w)
    BY EventCallbackKeeps DEF EventIInv, EventTypes
  <1>5. EventIInv /\ EventIInv' => CallStep
    BY <1>3, <1>4 DEF CallStep
  <1> QED
    BY <1>1, <1>2, <1>5, PTL DEF EventSpec, CalledInTime

-----------------------------------------------------------------------------
(* Child watchers (EvChild).  Their priority may be raised while they are  *)
(* not pending                                                             *)
LEMMA PriorityChanged ==
  ASSUME NEW W, NEW Ps, NEW pw, NEW pri, NEW Q, Verified(W, Ps, pw, pri, Q),
         NEW new \in [W -> Ps], \A w \in W : Q.at[w] # 0 => new[w] = pri[w]
  PROVE  Verified(W, Ps, pw, new, Q)
  <1>1. ASSUME NEW w \in W, Q.at[w] # 0
        PROVE  Q.at[w] \in 1..Len(Q.q[new[w]]) /\ Q.q[new[w]][Q.at[w]].w = w
    <2>1. new[w] = pri[w]
      BY <1>1
    <2> QED
      BY <1>1, <2>1 DEF Verified, Placed
  <1>2. ASSUME NEW p \in Ps, NEW w \in W, NEW i \in 1..Len(Q.q[p]), Q.q[p][i].w = w
        PROVE  p = new[w] /\ Q.at[w] = i
    <2>1. p = pri[w] /\ Q.at[w] = i
      BY <1>2 DEF Verified, Placed
    <2>2. Q.at[w] # 0
      BY <2>1
    <2> QED
      BY <2>1, <2>2
  <1>3. Placed(W, Ps, new, Q)
    BY <1>1, <1>2 DEF Placed
  <1> QED
    BY <1>3 DEF Verified

(* The inductive invariant.  A child watcher is only pending at the        *)
(* highest priority and behind the watcher of SIGCHLD: childcb is not      *)
(* called, and no child asked for, before its callback                     *)
Behind(Q, pri) ==
  /\ Verified(ReapWatcher, ChildPri, child_pending_w, pri, Q)
  /\ pri[childev] = EV_MAXPRI
  /\ \A w \in ChildWatcher : Q.at[w] # 0 =>
       pri[w] = EV_MAXPRI /\ Q.at[childev] # 0 /\ Q.at[childev] < Q.at[w]
ChildTypes ==
  /\ childs \in [0..EV_PID_HASHSIZE - 1 -> Seq(ChildWatcher)]
  /\ waitable \subseteq [pid : Pid, status : {"exited", "stopped"}]
ChildIInv == ChildTypes /\ Behind(child_pending, child_priority) /\ NobodyLeftWaiting

LEMMA Chains ==
  /\ EV_PID_HASHSIZE \in Nat \ {0} /\ 0 \in 0..EV_PID_HASHSIZE - 1
  /\ \A p \in Pid \cup {0} : Chain(p) \in 0..EV_PID_HASHSIZE - 1
  <1>1. EV_PID_HASHSIZE \in Nat \ {0} /\ Pid \cup {0} \subseteq Nat
    BY ChildAssumption
  <1>2. ASSUME NEW p \in Nat PROVE p % EV_PID_HASHSIZE \in 0..EV_PID_HASHSIZE - 1
    BY <1>1
  <1> QED
    BY <1>1, <1>2 DEF Chain

(* Queues for the watchers of a chain keep them behind                     *)
LEMMA ReapKeeps ==
  ASSUME ChildTypes, NEW x, NEW Q, Behind(Q, Raised(x)), Q.at[childev] # 0,
         NEW c \in {Chain(x.pid), 0}, c \in 0..EV_PID_HASHSIZE - 1,
         NEW R, R = child_reap(Q, c, x)
  PROVE  Behind(R, Raised(x)) /\ R.at[childev] # 0
  <1> DEFINE pri == Raised(x)
             ws == childs[c]
  <1>1. ws \in Seq(ReapWatcher) /\ \A i \in 1..Len(ws) : ws[i] \in ChildWatcher
    <2>1. ws \in Seq(ChildWatcher)
      BY DEF ChildTypes
    <2>2. ChildWatcher \subseteq ReapWatcher
      BY DEF ReapWatcher
    <2> HIDE DEF ws
    <2> QED
      BY <2>1, <2>2, ElementOfSeq
  <1>2. \A w \in ChildWatcher :
          w \in Concerned(x) /\ (\E i \in 1..Len(ws) : ws[i] = w) => pri[w] = EV_MAXPRI
    BY DEF Raised, Hears, ReapWatcher
  <1>3. R = G(ReapWatcher, ChildPri, child_pending_w)!QueueChosen(Q, ws, Concerned(x), {"EV_CHILD"}, pri)
    BY Zenon DEF child_reap, CP!QueueChosen, CP!FeedEvent, G!QueueChosen, G!FeedEvent
  <1>4. Verified(ReapWatcher, ChildPri, child_pending_w, pri, Q) /\ {"EV_CHILD"} \in SUBSET Received
    BY DEF Behind, Received
  <1> HIDE DEF pri, ws
  <1>5. /\ Verified(ReapWatcher, ChildPri, child_pending_w, pri, R)
        /\ Kept(ReapWatcher, Q, R)
        /\ \A v \in ReapWatcher : Q.at[v] = 0 /\ R.at[v] # 0 =>
             /\ R.at[v] > Len(Q.q[pri[v]])
             /\ v \in Concerned(x) /\ \E i \in 1..Len(ws) : ws[i] = v
    BY <1>1, <1>3, <1>4, PendingQueued
  <1>6. childev \in ReapWatcher /\ ChildWatcher \subseteq ReapWatcher /\ EV_MAXPRI \in ChildPri
    BY ChildAssumption DEF ReapWatcher
  <1>7. pri[childev] = EV_MAXPRI /\ Q.at[childev] # 0 /\ R.at[childev] = Q.at[childev]
    BY <1>5, <1>6 DEF Behind, Kept, pri
  <1>8. /\ Q.at[childev] \in 1..Len(Q.q[EV_MAXPRI]) /\ Len(Q.q[EV_MAXPRI]) \in Nat
        /\ R.at \in [ReapWatcher -> Nat]
    <2>1. /\ Q.at[childev] \in 1..Len(Q.q[pri[childev]]) /\ Q.q \in [ChildPri -> Seq(Entries(ReapWatcher, child_pending_w))]
      BY <1>4, <1>6, <1>7 DEF Verified, Placed, Queues
    <2>2. Q.q[EV_MAXPRI] \in Seq(Entries(ReapWatcher, child_pending_w))
      BY <1>6, <2>1
    <2>3. R.at \in [ReapWatcher -> Nat]
      BY <1>5 DEF Verified, Queues
    <2> QED
      BY <1>7, <2>1, <2>2, <2>3
  <1>9. ASSUME NEW w \in ChildWatcher, R.at[w] # 0
        PROVE  pri[w] = EV_MAXPRI /\ R.at[childev] < R.at[w]
    <2>1. CASE Q.at[w] # 0
      <3>1. R.at[w] = Q.at[w]
        BY <1>5, <1>6, <2>1 DEF Kept
      <3> QED
        BY <1>7, <2>1, <3>1 DEF Behind, pri
    <2>2. CASE Q.at[w] = 0
      <3>1. /\ R.at[w] > Len(Q.q[pri[w]])
            /\ w \in Concerned(x) /\ \E i \in 1..Len(ws) : ws[i] = w
        BY <1>5, <1>6, <1>9, <2>2
      <3>2. pri[w] = EV_MAXPRI /\ R.at[w] \in Nat
        BY <1>2, <1>6, <1>8, <3>1
      <3> QED
        BY <1>7, <1>8, <3>1, <3>2
    <2> QED
      BY <2>1, <2>2
  <1>10. Behind(R, pri)
    BY <1>5, <1>7, <1>9 DEF Behind
  <1> QED
    BY <1>7, <1>10 DEF pri

(* ev_feed_event for childev and clear_pending                             *)
LEMMA SignalFed ==
  ASSUME NEW Q, NEW pri, Behind(Q, pri), NEW R,
         R = CP!FeedEvent(Q, childev, {"EV_SIGNAL"}, pri)
  PROVE  /\ Behind(R, pri) /\ R.at[childev] # 0
         /\ \A w \in ChildWatcher : R.at[w] = Q.at[w]
  <1>1. R = G(ReapWatcher, ChildPri, child_pending_w)!FeedEvent(Q, childev, {"EV_SIGNAL"}, pri)
    BY DEF CP!FeedEvent, G!FeedEvent
  <1>2. /\ Verified(ReapWatcher, ChildPri, child_pending_w, pri, Q)
        /\ {"EV_SIGNAL"} \in SUBSET Received
        /\ childev \in ReapWatcher /\ ChildWatcher \subseteq ReapWatcher \ {childev}
    BY ChildAssumption DEF Behind, Received, ReapWatcher
  <1>3. /\ Verified(ReapWatcher, ChildPri, child_pending_w, pri, R)
        /\ \A v \in ReapWatcher \ {childev} : R.at[v] = Q.at[v]
        /\ Kept(ReapWatcher, Q, R) /\ R.at[childev] # 0
    BY <1>1, <1>2, PendingFed
  <1> QED
    BY <1>2, <1>3 DEF Behind, Kept

LEMMA ChildCleared ==
  ASSUME NEW Q, NEW pri, Behind(Q, pri), NEW w \in ChildWatcher, NEW R,
         R = CP!ClearPending(Q, w, pri)
  PROVE  Behind(R, pri) /\ R.at[childev] = Q.at[childev]
  <1>1. R = G(ReapWatcher, ChildPri, child_pending_w)!ClearPending(Q, w, pri)
    BY DEF CP!ClearPending, G!ClearPending
  <1>2. /\ Verified(ReapWatcher, ChildPri, child_pending_w, pri, Q)
        /\ w \in ReapWatcher /\ childev \in ReapWatcher /\ ChildWatcher \subseteq ReapWatcher
        /\ w # childev /\ Q.at \in [ReapWatcher -> Nat]
    BY ChildAssumption DEF Behind, ReapWatcher, Verified, Queues
  <1>3. Verified(ReapWatcher, ChildPri, child_pending_w, pri, R) /\ R.at = [Q.at EXCEPT ![w] = 0]
    BY <1>1, <1>2, PendingCleared
  <1>4. R.at[childev] = Q.at[childev] /\ \A v \in ChildWatcher : R.at[v] # 0 => R.at[v] = Q.at[v]
    BY <1>2, <1>3
  <1> QED
    BY <1>3, <1>4 DEF Behind

(* Nothing is behind childev when it is taken                              *)
LEMMA ChildPopped ==
  ASSUME NEW Q, NEW pri, Behind(Q, pri), CP!AnyPending(Q), NEW R, R = CP!Popped(Q),
         NEW w, w = CP!Next_(Q).w
  PROVE  /\ Behind(R, pri)
         /\ w = childev => \A v \in ChildWatcher : Q.at[v] = 0 /\ R.at[v] = 0
         /\ w # childev => R.at[childev] = Q.at[childev]
  <1> DEFINE p == CP!TopPri(Q)
  <1>1. /\ Verified(ReapWatcher, ChildPri, child_pending_w, pri, Q)
        /\ ChildPri \in SUBSET Nat /\ EV_MAXPRI \in Nat /\ \A o \in ChildPri : o <= EV_MAXPRI
        /\ childev \in ReapWatcher /\ ChildWatcher \subseteq ReapWatcher
        /\ Q.at \in [ReapWatcher -> Nat] /\ childev \notin ChildWatcher
    BY ChildAssumption DEF Behind, ReapWatcher, Verified, Queues
  <1>4. R = G(ReapWatcher, ChildPri, child_pending_w)!PoppedFrom(Q, p)
    BY DEF CP!Popped, CP!PoppedFrom, CP!Last, G!PoppedFrom, G!Last
  <1>5. w = G(ReapWatcher, ChildPri, child_pending_w)!Last(Q, p).w
    BY DEF CP!Next_, CP!Last, G!Last
  <1>6. p \in ChildPri /\ Q.q[p] # <<>>
    <2> DEFINE S == {o \in ChildPri : Q.q[o] # <<>>}
    <2>1. S \in SUBSET Nat /\ S # {} /\ \A s \in S : s <= EV_MAXPRI
      BY <1>1 DEF CP!AnyPending
    <2>2. PICK s \in S : \A o \in S : o <= s
      BY <1>1, <2>1, Highest
    <2>3. ASSUME NEW o \in ChildPri, o > s PROVE Q.q[o] = <<>>
      <3>1. o \in Nat /\ s \in Nat /\ ~(o <= s)
        BY <1>1, <2>3
      <3> QED
        BY <2>2, <3>1
    <2>4. s \in ChildPri /\ Q.q[s] # <<>>
      BY <2>2
    <2> QED
      BY <2>3, <2>4 DEF CP!TopPri
  <1> HIDE DEF p
  <1>7. /\ Verified(ReapWatcher, ChildPri, child_pending_w, pri, R)
        /\ w \in ReapWatcher => /\ Q.at[w] # 0 /\ Q.at[w] = Len(Q.q[p]) /\ pri[w] = p
                                /\ R.at = [Q.at EXCEPT ![w] = 0]
        /\ w \notin ReapWatcher => R.at = Q.at
    BY <1>1, <1>4, <1>5, <1>6, PendingPopped
  <1>8. \A v \in ReapWatcher : R.at[v] = IF v = w THEN 0 ELSE Q.at[v]
    BY <1>1, <1>7
  <1>9. ASSUME w = childev, NEW v \in ChildWatcher
        PROVE  Q.at[v] = 0
    <2> SUFFICES ASSUME Q.at[v] # 0 PROVE FALSE
      OBVIOUS
    <2>1. pri[v] = EV_MAXPRI /\ pri[childev] = EV_MAXPRI /\ Q.at[childev] < Q.at[v]
      BY DEF Behind
    <2>2. Q.at[v] \in 1..Len(Q.q[EV_MAXPRI])
      BY <1>1, <2>1 DEF Verified, Placed
    <2>3. Q.at[childev] = Len(Q.q[EV_MAXPRI]) /\ Q.at[childev] \in Nat
      BY <1>1, <1>7, <1>9, <2>1
    <2> QED
      BY <2>1, <2>2, <2>3
  <1>10. CASE w = childev
    <2>1. \A v \in ChildWatcher : Q.at[v] = 0 /\ R.at[v] = 0
      BY <1>1, <1>8, <1>9, <1>10
    <2> QED
      BY <1>7, <1>10, <2>1 DEF Behind
  <1>11. CASE w # childev
    <2>1. R.at[childev] = Q.at[childev] /\ \A v \in ChildWatcher : R.at[v] # 0 => R.at[v] = Q.at[v]
      BY <1>1, <1>8, <1>11
    <2> QED
      BY <1>7, <1>11, <2>1 DEF Behind
  <1> QED
    BY <1>10, <1>11

(* childcb reaps one child                                                 *)
LEMMA ReapOne ==
  ASSUME ChildTypes, NEW x \in waitable, NEW Q, Behind(Q, child_priority),
         \A w \in ChildWatcher : Q.at[w] = 0, NEW R, R = FedAgain(Q, x)
  PROVE  Behind(R, Raised(x)) /\ R.at[childev] # 0
  <1> DEFINE S == CP!FeedEvent(Q, childev, {"EV_SIGNAL"}, child_priority)
             T == child_reap(S, Chain(x.pid), x)
  <1>1. R = IF EV_PID_HASHSIZE > 1 THEN child_reap(T, 0, x) ELSE T
    BY DEF FedAgain, Reaped
  <1>2. /\ Behind(S, child_priority) /\ S.at[childev] # 0
        /\ \A w \in ChildWatcher : S.at[w] = 0
    BY SignalFed
  <1> HIDE DEF S
  <1>3. childev \notin ChildWatcher /\ EV_MAXPRI \in ChildPri
    BY ChildAssumption
  <1>4. child_priority \in [ReapWatcher -> ChildPri] /\ child_priority[childev] = EV_MAXPRI
    BY <1>2 DEF Behind, Verified
  <1>5. Raised(x) \in [ReapWatcher -> ChildPri] /\ Raised(x)[childev] = EV_MAXPRI
    BY <1>3, <1>4 DEF Raised, ReapWatcher
  <1>6. \A w \in ReapWatcher : S.at[w] # 0 => Raised(x)[w] = child_priority[w]
    BY <1>2, <1>4, <1>5 DEF ReapWatcher
  <1>7. Verified(ReapWatcher, ChildPri, child_pending_w, Raised(x), S)
    BY <1>2, <1>5, <1>6, PriorityChanged DEF Behind
  <1>8. Behind(S, Raised(x))
    BY <1>2, <1>5, <1>7 DEF Behind
  <1>9. {Chain(x.pid), 0} \subseteq 0..EV_PID_HASHSIZE - 1
    <2>1. x.pid \in Pid
      BY DEF ChildTypes
    <2> QED
      BY <2>1, Chains
  <1>10. Behind(T, Raised(x)) /\ T.at[childev] # 0
    BY <1>2, <1>8, <1>9, ReapKeeps
  <1> HIDE DEF T
  <1>11. CASE EV_PID_HASHSIZE > 1
    <2>1. R = child_reap(T, 0, x)
      BY <1>1, <1>11
    <2> QED
      BY <1>9, <1>10, <2>1, ReapKeeps
  <1>12. CASE ~(EV_PID_HASHSIZE > 1)
    BY <1>1, <1>10, <1>12
  <1> QED
    BY <1>11, <1>12

(* wlist_del leaves a list of the others                                   *)
LEMMA DelistedList ==
  ASSUME NEW list \in Seq(ChildWatcher), NEW w
  PROVE  Delisted(list, w) \in Seq(ChildWatcher)
  <1>1. CASE \E i \in 1..Len(list) : list[i] = w
    <2> DEFINE i == CHOOSE i \in 1..Len(list) : list[i] = w
    <2>1. i \in 1..Len(list) /\ Len(list) \in Nat
      BY <1>1
    <2>2. Delisted(list, w) = SubSeq(list, 1, i - 1) \o SubSeq(list, i + 1, Len(list))
      BY <1>1 DEF Delisted
    <2> HIDE DEF i
    <2>3. \A j \in 1..Len(list) : list[j] \in ChildWatcher
      BY ElementOfSeq
    <2>4. /\ SubSeq(list, 1, i - 1) \in Seq(ChildWatcher)
          /\ SubSeq(list, i + 1, Len(list)) \in Seq(ChildWatcher)
      BY <2>1, <2>3, SubSeqProperties
    <2> QED
      BY <2>2, <2>4, ConcatProperties
  <1>2. CASE ~\E i \in 1..Len(list) : list[i] = w
    BY <1>2 DEF Delisted
  <1> QED
    BY <1>1, <1>2

(* A callback stands for one status, which nobody replaces before it       *)
StatusKept ==
  \A w \in ChildWatcher :
    child_pending.at[w] # 0 /\ child_pending'.at[w] # 0 => rstatus'[w] = rstatus[w]

LEMMA ChildProgram ==
  ASSUME ChildIInv,
         \/ \E p \in Pid, status \in {"exited", "stopped"} : Change(p, status)
         \/ \E w \in ChildWatcher : ChildStart(w) \/ ChildStop(w)
  PROVE  ChildIInv' /\ StatusKept
  <1>0. Behind(child_pending, child_priority) /\ ChildTypes /\ NobodyLeftWaiting
    BY DEF ChildIInv
  <1>1. ASSUME NEW p \in Pid, NEW status \in {"exited", "stopped"}, Change(p, status)
        PROVE  ChildIInv' /\ StatusKept
    <2>1. ChildTypes'
      BY <1>0, <1>1 DEF Change, ChildTypes
    <2>2. Behind(child_pending', child_priority') /\ NobodyLeftWaiting'
      BY <1>0, <1>1 DEF Change, NobodyLeftWaiting
    <2> QED
      BY <1>1, <2>1, <2>2 DEF Change, ChildIInv, StatusKept
  <1>2. ASSUME NEW w \in ChildWatcher, ChildStart(w)
        PROVE  ChildIInv' /\ StatusKept
    <2>1. ChildTypes'
      <3> DEFINE c == Chain(pid[w])
      <3>1. childs' = [childs EXCEPT ![c] = <<w>> \o @] /\ waitable' = waitable
        BY <1>2 DEF ChildStart
      <3> HIDE DEF c
      <3>2. \A d \in 0..EV_PID_HASHSIZE - 1 : <<w>> \o childs[d] \in Seq(ChildWatcher)
        BY <1>0, ConcatProperties DEF ChildTypes
      <3> QED
        BY <1>0, <3>1, <3>2 DEF ChildTypes
    <2>2. Behind(child_pending', child_priority') /\ NobodyLeftWaiting'
      BY <1>0, <1>2 DEF ChildStart, NobodyLeftWaiting
    <2> QED
      BY <1>2, <2>1, <2>2 DEF ChildStart, ChildIInv, StatusKept
  <1>3. ASSUME NEW w \in ChildWatcher, ChildStop(w)
        PROVE  ChildIInv' /\ StatusKept
    <2>1. ChildTypes'
      <3> DEFINE c == Chain(pid[w])
      <3>1. childs' = [childs EXCEPT ![c] = Delisted(@, w)] /\ waitable' = waitable
        BY <1>3 DEF ChildStop
      <3> HIDE DEF c
      <3>2. \A d \in 0..EV_PID_HASHSIZE - 1 : Delisted(childs[d], w) \in Seq(ChildWatcher)
        BY <1>0, DelistedList DEF ChildTypes
      <3> QED
        BY <1>0, <3>1, <3>2 DEF ChildTypes
    <2>2. /\ child_pending' = CP!ClearPending(child_pending, w, child_priority)
          /\ UNCHANGED <<child_priority, rstatus, sigchld, waitable>>
      BY <1>3 DEF ChildStop
    <2>3. /\ Behind(child_pending', child_priority)
          /\ child_pending'.at[childev] = child_pending.at[childev]
      BY <1>0, <2>2, ChildCleared
    <2>4. NobodyLeftWaiting'
      BY <1>0, <2>2, <2>3 DEF NobodyLeftWaiting
    <2> QED
      BY <2>1, <2>2, <2>3, <2>4 DEF ChildIInv, StatusKept
  <1> QED
    BY <1>1, <1>2, <1>3

LEMMA ChildLoop ==
  ASSUME ChildIInv, FeedSignal \/ ChildCb \/ ChildCallback
  PROVE  ChildIInv' /\ StatusKept
  <1>0. Behind(child_pending, child_priority) /\ ChildTypes /\ NobodyLeftWaiting
    BY DEF ChildIInv
  <1>1. CASE FeedSignal
    <2>1. /\ child_pending' = CP!FeedEvent(child_pending, childev, {"EV_SIGNAL"}, child_priority)
          /\ UNCHANGED <<childs, child_priority, rstatus, waitable>>
      BY <1>1 DEF FeedSignal
    <2>2. Behind(child_pending', child_priority) /\ child_pending'.at[childev] # 0
      BY <1>0, <2>1, SignalFed
    <2> QED
      BY <1>0, <2>1, <2>2 DEF ChildIInv, ChildTypes, NobodyLeftWaiting, StatusKept
  <1>2. CASE ChildCallback
    <2>1. /\ CP!AnyPending(child_pending) /\ CP!Next_(child_pending).w # childev
          /\ child_pending' = CP!Popped(child_pending)
          /\ UNCHANGED <<childs, child_priority, rstatus, sigchld, waitable>>
      BY <1>2 DEF ChildCallback
    <2>2. /\ Behind(child_pending', child_priority)
          /\ child_pending'.at[childev] = child_pending.at[childev]
      BY <1>0, <2>1, ChildPopped
    <2> QED
      BY <1>0, <2>1, <2>2 DEF ChildIInv, ChildTypes, NobodyLeftWaiting, StatusKept
  <1>3. CASE ChildCb
    <2> DEFINE Q == CP!Popped(child_pending)
    <2>1. /\ CP!AnyPending(child_pending) /\ CP!Next_(child_pending).w = childev
          /\ UNCHANGED <<childs, sigchld>>
      BY <1>3 DEF ChildCb
    <2>2. /\ Behind(Q, child_priority)
          /\ \A w \in ChildWatcher : child_pending.at[w] = 0 /\ Q.at[w] = 0
      BY <1>0, <2>1, ChildPopped
    <2>3. StatusKept
      BY <2>2 DEF StatusKept
    <2>4. CASE /\ waitable = {} /\ child_pending' = Q
               /\ UNCHANGED <<child_priority, rstatus, waitable>>
      BY <1>0, <2>1, <2>2, <2>3, <2>4 DEF ChildIInv, ChildTypes, NobodyLeftWaiting
    <2>5. ASSUME NEW x \in waitable, waitable' = waitable \ {x}, child_priority' = Raised(x),
                 child_pending' = FedAgain(Q, x)
          PROVE  ChildIInv'
      <3> HIDE DEF Q
      <3>1. Behind(child_pending', child_priority') /\ child_pending'.at[childev] # 0
        BY <1>0, <2>2, <2>5, ReapOne
      <3>2. ChildTypes'
        BY <1>0, <2>1, <2>5 DEF ChildTypes
      <3> QED
        BY <3>1, <3>2 DEF ChildIInv, NobodyLeftWaiting
    <2> QED
      BY <1>3, <2>3, <2>4, <2>5 DEF ChildCb
  <1> QED
    BY <1>1, <1>2, <1>3

LEMMA ChildStarts ==
  ASSUME ChildInit
  PROVE  ChildIInv
  <1>1. child_pending = G(ReapWatcher, ChildPri, child_pending_w)!NoneFed
    BY DEF ChildInit, CP!NoneFed, G!NoneFed
  <1>2. /\ child_priority \in [ReapWatcher -> ChildPri] /\ child_priority[childev] = EV_MAXPRI
        /\ child_pending_w \notin ReapWatcher
    BY ChildAssumption DEF ChildInit, ReapWatcher
  <1>3. /\ Verified(ReapWatcher, ChildPri, child_pending_w, child_priority, child_pending)
        /\ \A w \in ReapWatcher : child_pending.at[w] = 0
    BY <1>1, <1>2, NonePending
  <1>4. Behind(child_pending, child_priority)
    BY <1>2, <1>3 DEF Behind, ReapWatcher
  <1> QED
    BY <1>4 DEF ChildInit, ChildIInv, ChildTypes, NobodyLeftWaiting

(* For any watchers and children: one SIGCHLD is enough, however many      *)
(* change, for childcb to be called until waitpid has nothing to tell; and *)
(* no watcher gets another status before it was called for the last        *)
THEOREM ReapedOneByOneAlways == ChildSpec => ReapedOneByOne
  <1>1. ChildInit => ChildIInv
    BY ChildStarts
  <1>2. ChildIInv /\ [ChildNext]_child_vars => ChildIInv' /\ ReapStep
    <2> SUFFICES ASSUME ChildIInv, [ChildNext]_child_vars
                 PROVE  ChildIInv' /\ StatusKept
      BY DEF ReapStep, StatusKept, ChildIInv
    <2>1. CASE UNCHANGED child_vars
      BY <2>1 DEF child_vars, ChildIInv, ChildTypes, NobodyLeftWaiting, StatusKept
    <2>2. CASE ChildNext
      BY <2>2, ChildProgram, ChildLoop DEF ChildNext
    <2> QED
      BY <2>1, <2>2
  <1> QED
    BY <1>1, <1>2, PTL DEF ChildSpec, ReapedOneByOne

-----------------------------------------------------------------------------
(* The turns of the loop (EvLoop).  The inductive invariant: every active  *)
(* watcher is in its array where its active field says, and activecnt      *)
(* counts them; and of the fork told last, those still to hear of it are   *)
(* pending, at a priority that is not done with, in every call of ev_loop  *)
(* that is past its fork watchers.                                         *)
Frame == [at : {"enter", "forks", "prepares", "checks", "turn"}, pri : LoopPri,
          running : BOOLEAN, once : BOOLEAN]
Listed(arr, act) ==
  /\ arr \in [Arrays -> Seq(LoopWatcher)] /\ act \in [LoopWatcher -> Nat]
  /\ \A a \in Arrays : \A i \in 1..Len(arr[a]) : ArrayOf(arr[a][i]) = a /\ act[arr[a][i]] = i
  /\ \A w \in LoopWatcher : act[w] # 0 => /\ act[w] \in 1..Len(arr[ArrayOf(w)])
                                          /\ arr[ArrayOf(w)][act[w]] = w
ActiveOnes(act) == {w \in LoopWatcher : act[w] # 0}
Counted(act, cnt, r) == r \in {0, -1} /\ cnt = Cardinality(ActiveOnes(act)) + r
LoopPending(Q) == Verified(LoopWatcher, LoopPri, loop_pending_w, loop_priority, Q)
Told(U, act) == U \subseteq {w \in LoopWatcher : kind[w] = "fork" /\ act[w] # 0}
Promised(U, Q, fr) ==
  \A i \in 1..Len(fr) : fr[i].at \in {"forks", "prepares"} =>
    \A w \in U : Q.at[w] # 0 /\ loop_priority[w] <= fr[i].pri
ForksHeard ==
  /\ Told(unheard, actives) /\ Promised(unheard, pendings, frames)
  /\ unheard # {} => postfork
LoopIInv ==
  /\ Listed(array, actives) /\ Counted(actives, activecnt, refs)
  /\ LoopPending(pendings) /\ frames \in Seq(Frame)
  /\ ForksHeard
  /\ ending => loop_done = "EVUNLOOP_ALL"

LEMMA LoopConstants ==
  /\ \A w \in LoopWatcher : ArrayOf(w) \in Arrays /\ loop_priority[w] \in LoopPri
  /\ \A p \in LoopPri : Idles(p) \in Arrays
  /\ \A k \in {"fork", "prepare", "check", "plain"} : The(k) \in Arrays
  /\ \A w \in LoopWatcher : kind[w] = "fork" => ArrayOf(w) = The("fork")
  /\ LoopPri \in SUBSET Nat
  /\ MaxPri \in LoopPri /\ \A p \in LoopPri : p <= MaxPri
  <1>1. /\ \A w \in LoopWatcher : ArrayOf(w) \in Arrays /\ loop_priority[w] \in LoopPri
        /\ \A p \in LoopPri : Idles(p) \in Arrays
        /\ \A k \in {"fork", "prepare", "check", "plain"} : The(k) \in Arrays
        /\ \A w \in LoopWatcher : kind[w] = "fork" => ArrayOf(w) = The("fork")
    BY LoopAssumption DEF ArrayOf, Arrays, The, Idles
  <1>2. LoopPri \in SUBSET Nat /\ \E m \in LoopPri : \A p \in LoopPri : p <= m
    BY LoopAssumption
  <1>3. MaxPri \in LoopPri /\ \A p \in LoopPri : p <= MaxPri
    BY <1>2 DEF MaxPri
  <1> QED
    BY <1>1, <1>2, <1>3

(* What is pending                                                         *)
LEMMA LoopFed ==
  ASSUME NEW Q, LoopPending(Q), NEW w \in LoopWatcher, NEW revents \in SUBSET Received,
         NEW R, R = LP!FeedEvent(Q, w, revents, loop_priority)
  PROVE  LoopPending(R) /\ Kept(LoopWatcher, Q, R)
  <1>1. R = G(LoopWatcher, LoopPri, loop_pending_w)!FeedEvent(Q, w, revents, loop_priority)
    BY DEF LP!FeedEvent, G!FeedEvent
  <1> QED
    BY <1>1, PendingFed DEF LoopPending

LEMMA LoopCleared ==
  ASSUME NEW Q, LoopPending(Q), NEW w \in LoopWatcher, NEW R,
         R = LP!ClearPending(Q, w, loop_priority)
  PROVE  LoopPending(R) /\ \A v \in LoopWatcher \ {w} : R.at[v] = Q.at[v]
  <1>1. R = G(LoopWatcher, LoopPri, loop_pending_w)!ClearPending(Q, w, loop_priority)
    BY DEF LP!ClearPending, G!ClearPending
  <1>2. LoopPending(R) /\ R.at = [Q.at EXCEPT ![w] = 0]
    BY <1>1, PendingCleared DEF LoopPending
  <1>3. Q.at \in [LoopWatcher -> Nat]
    BY DEF LoopPending, Verified, Queues
  <1> QED
    BY <1>2, <1>3

LEMMA LoopQueued ==
  ASSUME NEW Q, LoopPending(Q), NEW ws \in Seq(LoopWatcher), NEW revents \in SUBSET Received,
         NEW R, R = LP!QueueEvents(Q, ws, revents, loop_priority)
  PROVE  /\ LoopPending(R) /\ Kept(LoopWatcher, Q, R)
         /\ \A i \in 1..Len(ws) : R.at[ws[i]] # 0
  <1>1. R = G(LoopWatcher, LoopPri, loop_pending_w)!QueueChosen(Q, ws, LoopWatcher, revents, loop_priority)
    BY Zenon DEF LP!QueueEvents, LP!QueueChosen, LP!FeedEvent, G!QueueChosen, G!FeedEvent
  <1>2. \A i \in 1..Len(ws) : ws[i] \in LoopWatcher
    BY ElementOfSeq
  <1> QED
    BY <1>1, <1>2, PendingQueued DEF LoopPending

(* Frames                                                                  *)
LEMMA TopChanged ==
  ASSUME NEW fr \in Seq(Frame), fr # <<>>, NEW f \in Frame, NEW g,
         g = [fr EXCEPT ![Len(fr)] = f]
  PROVE  /\ g \in Seq(Frame) /\ Len(g) = Len(fr) /\ Len(fr) \in 1..Len(fr)
         /\ g[Len(fr)] = f /\ \A i \in 1..Len(fr) : i # Len(fr) => g[i] = fr[i]
  <1>1. Len(fr) \in 1..Len(fr)
    BY EmptySeq
  <1> QED
    BY <1>1, ExceptSeq

LEMMA TopFrame ==
  ASSUME LoopIInv, frames # <<>>
  PROVE  Len(frames) \in 1..Len(frames) /\ Top \in Frame
  <1>1. frames \in Seq(Frame)
    BY DEF LoopIInv
  <1>2. Len(frames) \in 1..Len(frames)
    BY <1>1, EmptySeq
  <1> QED
    BY <1>1, <1>2, ElementOfSeq DEF Top

(* Watchers of the arrays                                                  *)
LEMMA StartLists ==
  ASSUME Listed(array, actives), NEW w \in LoopWatcher, actives[w] = 0,
         array' = [array EXCEPT ![ArrayOf(w)] = Append(@, w)],
         actives' = [actives EXCEPT ![w] = Len(array[ArrayOf(w)]) + 1]
  PROVE  /\ Listed(array', actives')
         /\ ActiveOnes(actives') = ActiveOnes(actives) \cup {w}
  <1> DEFINE a == ArrayOf(w)
             n == Len(array[a])
             s == Append(array[a], w)
  <1>0. /\ array \in [Arrays -> Seq(LoopWatcher)] /\ actives \in [LoopWatcher -> Nat]
        /\ a \in Arrays /\ array[a] \in Seq(LoopWatcher) /\ n \in Nat
    BY LoopConstants DEF Listed
  <1>1. /\ s \in Seq(LoopWatcher) /\ Len(s) = n + 1 /\ s[n + 1] = w
        /\ \A i \in 1..n : s[i] = array[a][i]
    BY <1>0, AppendProperties
  <1>2. actives' = [actives EXCEPT ![w] = n + 1] /\ array' = [array EXCEPT ![a] = s]
    <2>1. array' = [array EXCEPT ![a] = Append(@, w)]
      OBVIOUS
    <2> QED
      BY <2>1, Zenon
  <1> HIDE DEF a, n, s
  <1>3. /\ array' \in [Arrays -> Seq(LoopWatcher)] /\ array'[a] = s
        /\ \A b \in Arrays \ {a} : array'[b] = array[b]
    BY <1>0, <1>1, <1>2, ZenonT(30)
  <1>4. /\ actives' \in [LoopWatcher -> Nat] /\ actives'[w] = n + 1
        /\ \A v \in LoopWatcher \ {w} : actives'[v] = actives[v]
    BY <1>0, <1>2
  <1>5. ASSUME NEW b \in Arrays, NEW i \in 1..Len(array'[b])
        PROVE  ArrayOf(array'[b][i]) = b /\ actives'[array'[b][i]] = i
    <2>1. CASE b = a /\ i = n + 1
      BY <1>1, <1>3, <1>4, <2>1 DEF a
    <2>2. CASE ~(b = a /\ i = n + 1)
      <3>1. i \in 1..Len(array[b]) /\ array'[b][i] = array[b][i]
        <4>1. CASE b = a
          BY <1>0, <1>1, <1>3, <1>5, <2>2, <4>1 DEF n
        <4>2. CASE b # a
          BY <1>3, <1>5, <4>2
        <4> QED
          BY <4>1, <4>2
      <3>2. ArrayOf(array[b][i]) = b /\ actives[array[b][i]] = i /\ i # 0
        BY <3>1 DEF Listed
      <3>3. array[b][i] \in LoopWatcher
        <4>1. array[b] \in Seq(LoopWatcher)
          BY <1>0
        <4> QED
          BY <3>1, <4>1, ElementOfSeq
      <3> QED
        BY <1>4, <3>1, <3>2, <3>3
    <2> QED
      BY <2>1, <2>2
  <1>6. ASSUME NEW v \in LoopWatcher, actives'[v] # 0
        PROVE  actives'[v] \in 1..Len(array'[ArrayOf(v)]) /\ array'[ArrayOf(v)][actives'[v]] = v
    <2>1. CASE v = w
      BY <1>0, <1>1, <1>3, <1>4, <2>1 DEF a
    <2>2. CASE v # w
      <3>1. /\ actives'[v] = actives[v] /\ actives[v] \in 1..Len(array[ArrayOf(v)])
            /\ array[ArrayOf(v)][actives[v]] = v /\ ArrayOf(v) \in Arrays
        BY <1>4, <1>6, <2>2, LoopConstants DEF Listed
      <3>2. CASE ArrayOf(v) = a
        BY <1>0, <1>1, <1>3, <3>1, <3>2 DEF n
      <3>3. CASE ArrayOf(v) # a
        BY <1>3, <3>1, <3>3
      <3> QED
        BY <3>2, <3>3
    <2> QED
      BY <2>1, <2>2
  <1>7. Listed(array', actives')
    BY <1>3, <1>4, <1>5, <1>6 DEF Listed
  <1>8. ActiveOnes(actives') = ActiveOnes(actives) \cup {w}
    BY <1>0, <1>4 DEF ActiveOnes
  <1> QED
    BY <1>7, <1>8

LEMMA StopLists ==
  ASSUME Listed(array, actives), NEW w \in LoopWatcher, actives[w] # 0,
         ArrayRemove(w, ArrayOf(w))
  PROVE  /\ Listed(array', actives')
         /\ ActiveOnes(actives') = ActiveOnes(actives) \ {w}
  <1> DEFINE a == ArrayOf(w)
             n == Len(array[a])
             last == array[a][n]
             i == actives[w]
             r == [array[a] EXCEPT ![i] = last]
             s == SubSeq(r, 1, n - 1)
  <1>0. /\ array \in [Arrays -> Seq(LoopWatcher)] /\ actives \in [LoopWatcher -> Nat]
        /\ a \in Arrays /\ array[a] \in Seq(LoopWatcher) /\ n \in Nat
        /\ i \in 1..n /\ array[a][i] = w
    BY LoopConstants DEF Listed
  <1>1. n \in 1..n /\ n - 1 \in 0..n
    BY <1>0
  <1>2. last \in LoopWatcher /\ ArrayOf(last) = a /\ actives[last] = n
    BY <1>0, <1>1, ElementOfSeq DEF Listed
  <1>3. /\ array' = [array EXCEPT ![a] = s]
        /\ actives' = [actives EXCEPT ![last] = i, ![w] = 0]
    <2>1. array' = [array EXCEPT ![a] = SubSeq([@ EXCEPT ![i] = last], 1, Len(@) - 1)]
      BY DEF ArrayRemove
    <2>2. actives' = [actives EXCEPT ![last] = i, ![w] = 0]
      BY DEF ArrayRemove
    <2> QED
      BY <2>1, <2>2, Zenon
  <1> HIDE DEF a, n, last, i
  <1>4. /\ r \in Seq(LoopWatcher) /\ Len(r) = n
        /\ \A j \in 1..n : r[j] = IF j = i THEN last ELSE array[a][j]
    <2>1. n = Len(array[a])
      BY DEF n
    <2> QED
      BY <1>0, <1>2, <2>1, ExceptSeq
  <1> HIDE DEF r
  <1>5. \A j \in 1..n : r[j] \in LoopWatcher
    BY <1>4, ElementOfSeq
  <1>6. /\ s \in Seq(LoopWatcher) /\ Len(s) = n - 1
        /\ \A j \in 1..n - 1 : s[j] = IF j = i THEN last ELSE array[a][j]
    BY <1>0, <1>1, <1>4, <1>5, SubSeqProperties, SMTT(30)
  <1> HIDE DEF s
  <1>7. /\ array' \in [Arrays -> Seq(LoopWatcher)] /\ array'[a] = s
        /\ \A b \in Arrays \ {a} : array'[b] = array[b]
    BY <1>0, <1>3, <1>6
  <1>8. /\ actives' \in [LoopWatcher -> Nat] /\ actives'[w] = 0
        /\ last # w => actives'[last] = i
        /\ \A v \in LoopWatcher \ {w, last} : actives'[v] = actives[v]
    BY <1>0, <1>2, <1>3
  <1>9. (last = w <=> i = n) /\ i # 0
    BY <1>0, <1>2 DEF last, i
  <1>10. ASSUME NEW b \in Arrays, NEW j \in 1..Len(array'[b])
         PROVE  ArrayOf(array'[b][j]) = b /\ actives'[array'[b][j]] = j
    <2>1. CASE b = a /\ j = i
      <3>1. j \in 1..n - 1
        BY <1>6, <1>7, <1>10, <2>1
      <3>2. array'[b][j] = last
        BY <1>6, <1>7, <2>1, <3>1
      <3>3. last # w
        BY <1>0, <1>9, <2>1, <3>1
      <3> QED
        BY <1>2, <1>8, <2>1, <3>2, <3>3
    <2>2. CASE ~(b = a /\ j = i)
      <3>1. /\ j \in 1..Len(array[b]) /\ array'[b][j] = array[b][j]
            /\ ~(b = a /\ j = n)
        <4>1. CASE b = a
          <5>1. j \in 1..n - 1 /\ j \in 1..n /\ j # n
            BY <1>0, <1>6, <1>7, <1>10, <4>1
          <5> QED
            BY <1>6, <1>7, <2>2, <4>1, <5>1 DEF n
        <4>2. CASE b # a
          BY <1>7, <1>10, <4>2
        <4> QED
          BY <4>1, <4>2
      <3>2. ArrayOf(array[b][j]) = b /\ actives[array[b][j]] = j
        BY <3>1 DEF Listed
      <3>3. array[b][j] \in LoopWatcher
        <4>1. array[b] \in Seq(LoopWatcher)
          BY <1>0
        <4> QED
          BY <3>1, <4>1, ElementOfSeq
      <3>4. array[b][j] # last
        BY <1>2, <3>1, <3>2
      <3>5. array[b][j] # w
        BY <2>2, <3>2 DEF a, i
      <3> QED
        BY <1>8, <3>1, <3>2, <3>3, <3>4, <3>5
    <2> QED
      BY <2>1, <2>2
  <1>11. ASSUME NEW v \in LoopWatcher, actives'[v] # 0
         PROVE  actives'[v] \in 1..Len(array'[ArrayOf(v)]) /\ array'[ArrayOf(v)][actives'[v]] = v
    <2>1. CASE v = last
      <3>1. v # w /\ actives'[v] = i
        BY <1>8, <1>11, <2>1
      <3>2. i \in 1..n - 1
        BY <1>0, <1>9, <2>1, <3>1
      <3> QED
        BY <1>2, <1>6, <1>7, <2>1, <3>1, <3>2
    <2>2. CASE v # last
      <3>1. v # w
        BY <1>8, <1>11
      <3>2. /\ actives'[v] = actives[v] /\ actives[v] \in 1..Len(array[ArrayOf(v)])
            /\ array[ArrayOf(v)][actives[v]] = v /\ ArrayOf(v) \in Arrays
        BY <1>8, <1>11, <2>2, <3>1, LoopConstants DEF Listed
      <3>3. CASE ArrayOf(v) = a
        <4>1. actives[v] # n /\ actives[v] # i
          BY <1>0, <2>2, <3>1, <3>2, <3>3 DEF last
        <4>2. actives[v] \in 1..n
          BY <3>2, <3>3 DEF n
        <4>3. actives[v] \in 1..n - 1
          BY <1>0, <4>1, <4>2
        <4> QED
          BY <1>6, <1>7, <3>2, <3>3, <4>1, <4>3
      <3>4. CASE ArrayOf(v) # a
        BY <1>7, <3>2, <3>4
      <3> QED
        BY <3>3, <3>4
    <2> QED
      BY <2>1, <2>2
  <1>12. Listed(array', actives')
    BY <1>7, <1>8, <1>10, <1>11 DEF Listed
  <1>13. ActiveOnes(actives') = ActiveOnes(actives) \ {w}
    <2>1. ASSUME NEW v \in LoopWatcher PROVE actives'[v] # 0 <=> actives[v] # 0 /\ v # w
      <3>1. CASE v = last /\ v # w
        BY <1>1, <1>2, <1>8, <1>9, <3>1
      <3>2. CASE v = w \/ v # last
        BY <1>8, <3>2
      <3> QED
        BY <3>1, <3>2
    <2> QED
      BY <2>1 DEF ActiveOnes
  <1> QED
    BY <1>12, <1>13

(* What the invariant asks of a step that leaves the arrays, or what is    *)
(* pending, or the frames                                                  *)
LEMMA PromisesKept ==
  ASSUME NEW U, NEW U2 \in SUBSET U, NEW Q, NEW R, NEW fr, Promised(U, Q, fr),
         \A w \in U2 : Q.at[w] # 0 => R.at[w] # 0
  PROVE  Promised(U2, R, fr)
  BY DEF Promised

LEMMA CountedAgain ==
  ASSUME NEW act, NEW cnt, NEW r, Counted(act, cnt, r), NEW new, NEW w \in LoopWatcher
  PROVE  /\ act[w] = 0 /\ ActiveOnes(new) = ActiveOnes(act) \cup {w} => Counted(new, cnt + 1, r)
         /\ act[w] # 0 /\ ActiveOnes(new) = ActiveOnes(act) \ {w} => Counted(new, cnt - 1, r)
  <1>1. IsFiniteSet(ActiveOnes(act))
    BY LoopAssumption, FS_Subset DEF ActiveOnes
  <1>2. Cardinality(ActiveOnes(act)) \in Nat
    BY <1>1, FS_CardinalityType
  <1>3. w \in ActiveOnes(act) <=> act[w] # 0
    BY DEF ActiveOnes
  <1>4. CASE act[w] = 0 /\ ActiveOnes(new) = ActiveOnes(act) \cup {w}
    <2>1. Cardinality(ActiveOnes(new)) = Cardinality(ActiveOnes(act)) + 1
      BY <1>1, <1>3, <1>4, FS_AddElement
    <2> QED
      BY <1>2, <1>4, <2>1 DEF Counted
  <1>5. CASE act[w] # 0 /\ ActiveOnes(new) = ActiveOnes(act) \ {w}
    <2>1. Cardinality(ActiveOnes(new)) = Cardinality(ActiveOnes(act)) - 1
      BY <1>1, <1>3, <1>5, FS_RemoveElement
    <2> QED
      BY <1>2, <1>5, <2>1 DEF Counted
  <1> QED
    BY <1>4, <1>5

(* The program                                                             *)
LEMMA LoopStartKeeps ==
  ASSUME LoopIInv, NEW w \in LoopWatcher, LoopStart(w)
  PROVE  LoopIInv'
  <1>1. /\ actives[w] = 0 /\ array' = [array EXCEPT ![ArrayOf(w)] = Append(@, w)]
        /\ actives' = [actives EXCEPT ![w] = Len(array[ArrayOf(w)]) + 1]
        /\ activecnt' = activecnt + 1
        /\ UNCHANGED <<pendings, loop_done, postfork, frames, refs, unheard, ending>>
    BY DEF LoopStart
  <1>2. Listed(array', actives') /\ ActiveOnes(actives') = ActiveOnes(actives) \cup {w}
    BY <1>1, StartLists DEF LoopIInv
  <1>3. Counted(actives', activecnt', refs')
    BY <1>1, <1>2, CountedAgain DEF LoopIInv
  <1>4. Told(unheard', actives')
    <2>1. \A v \in LoopWatcher : actives[v] # 0 => actives'[v] # 0
      BY <1>2 DEF ActiveOnes
    <2> QED
      BY <1>1, <2>1 DEF LoopIInv, ForksHeard, Told
  <1> QED
    BY <1>1, <1>2, <1>3, <1>4 DEF LoopIInv, ForksHeard

LEMMA LoopStopKeeps ==
  ASSUME LoopIInv, NEW w \in LoopWatcher, LoopStop(w)
  PROVE  LoopIInv'
  <1>1. /\ pendings' = LP!ClearPending(pendings, w, loop_priority)
        /\ unheard' = unheard \ {w}
        /\ UNCHANGED <<loop_done, postfork, frames, refs, ending>>
    BY DEF LoopStop
  <1>2. LoopPending(pendings') /\ \A v \in LoopWatcher \ {w} : pendings'.at[v] = pendings.at[v]
    BY <1>1, LoopCleared DEF LoopIInv
  <1>3. Told(unheard, actives) /\ Promised(unheard, pendings, frames)
    BY DEF LoopIInv, ForksHeard
  <1>4. Promised(unheard', pendings', frames')
    <2>1. \A v \in unheard' : v \in LoopWatcher \ {w}
      BY <1>1, <1>3 DEF Told
    <2> QED
      BY <1>1, <1>2, <1>3, <2>1, PromisesKept
  <1>5. Listed(array', actives') /\ Counted(actives', activecnt', refs') /\ Told(unheard', actives')
    <2>1. CASE actives[w] = 0
      <3>1. UNCHANGED <<array, actives, activecnt>>
        BY <2>1 DEF LoopStop
      <3> QED
        BY <1>1, <1>3, <3>1 DEF LoopIInv, Told
    <2>2. CASE actives[w] # 0
      <3>1. ArrayRemove(w, ArrayOf(w)) /\ activecnt' = activecnt - 1
        BY <2>2 DEF LoopStop
      <3>2. Listed(array', actives') /\ ActiveOnes(actives') = ActiveOnes(actives) \ {w}
        BY <2>2, <3>1, StopLists DEF LoopIInv
      <3>3. Counted(actives', activecnt', refs')
        BY <1>1, <2>2, <3>1, <3>2, CountedAgain DEF LoopIInv
      <3>4. \A v \in LoopWatcher \ {w} : actives[v] # 0 => actives'[v] # 0
        BY <3>2 DEF ActiveOnes
      <3> QED
        BY <1>1, <1>3, <3>2, <3>3, <3>4 DEF Told
    <2> QED
      BY <2>1, <2>2
  <1> QED
    BY <1>1, <1>2, <1>4, <1>5 DEF LoopIInv, ForksHeard

LEMMA LoopFeedKeeps ==
  ASSUME LoopIInv, NEW w \in LoopWatcher, FeedEvent(w)
  PROVE  LoopIInv'
  <1>1. /\ pendings' = LP!FeedEvent(pendings, w, {"EV_CUSTOM"}, loop_priority)
        /\ UNCHANGED <<array, actives, activecnt, loop_done, postfork, frames, refs, unheard, ending>>
    BY DEF FeedEvent
  <1>2. {"EV_CUSTOM"} \in SUBSET Received
    BY DEF Received
  <1>3. LoopPending(pendings') /\ Kept(LoopWatcher, pendings, pendings')
    BY <1>1, <1>2, LoopFed DEF LoopIInv
  <1>4. Promised(unheard, pendings, frames) /\ unheard \subseteq LoopWatcher
    BY DEF LoopIInv, ForksHeard, Told
  <1>5. Promised(unheard', pendings', frames')
    BY <1>1, <1>3, <1>4, PromisesKept DEF Kept
  <1> QED
    BY <1>1, <1>3, <1>5 DEF LoopIInv, ForksHeard

LEMMA LoopRefsKeeps ==
  ASSUME LoopIInv, Refs
  PROVE  LoopIInv'
  <1>1. UNCHANGED <<array, actives, pendings, loop_done, postfork, frames, unheard, ending>>
    BY DEF Refs
  <1>2. Counted(actives', activecnt', refs')
    <2>1. IsFiniteSet(ActiveOnes(actives))
      BY LoopAssumption, FS_Subset DEF ActiveOnes
    <2>2. Cardinality(ActiveOnes(actives)) \in Nat
      BY <2>1, FS_CardinalityType
    <2> QED
      BY <1>1, <2>2 DEF LoopIInv, Refs, Ref, Unref, Counted
  <1> QED
    BY <1>1, <1>2 DEF LoopIInv, ForksHeard

LEMMA LoopForkKeeps ==
  ASSUME LoopIInv, LoopFork
  PROVE  LoopIInv'
  <1>1. /\ postfork' = TRUE
        /\ UNCHANGED <<array, actives, activecnt, pendings, loop_done, frames, refs, ending>>
    BY DEF LoopFork
  <1>2. Told(unheard', actives') /\ Promised(unheard', pendings', frames')
    <2>1. CASE \E i \in 1..Len(frames) : frames[i].at \in {"forks", "prepares"}
      <3>1. unheard' = {}
        BY <2>1 DEF LoopFork
      <3> QED
        BY <3>1 DEF Told, Promised
    <2>2. CASE ~\E i \in 1..Len(frames) : frames[i].at \in {"forks", "prepares"}
      <3>1. unheard' = {w \in LoopWatcher : kind[w] = "fork" /\ actives[w] # 0}
        BY <2>2 DEF LoopFork
      <3> QED
        BY <1>1, <2>2, <3>1 DEF Told, Promised
    <2> QED
      BY <2>1, <2>2
  <1> QED
    BY <1>1, <1>2 DEF LoopIInv, ForksHeard

(* ev_unloop, and calls and returns of ev_loop                             *)
LEMMA UnloopKeeps ==
  ASSUME LoopIInv, NEW how \in {"EVUNLOOP_ONE", "EVUNLOOP_ALL"}, Unloop(how)
  PROVE  LoopIInv'
  BY DEF LoopIInv, ForksHeard, Unloop

LEMMA LoopKeeps ==
  ASSUME LoopIInv, NEW once \in BOOLEAN, Loop(once)
  PROVE  LoopIInv'
  <1> DEFINE f == [at |-> "enter", pri |-> MaxPri, running |-> FALSE, once |-> once]
  <1>1. /\ frames' = Append(frames, f) /\ ending' = FALSE
        /\ UNCHANGED <<array, actives, activecnt, pendings, postfork, refs, unheard>>
    BY DEF Loop
  <1>2. f \in Frame /\ f.at = "enter" /\ frames \in Seq(Frame)
    BY LoopConstants DEF Frame, LoopIInv
  <1> HIDE DEF f
  <1>3. /\ frames' \in Seq(Frame) /\ Len(frames') = Len(frames) + 1 /\ Len(frames) \in Nat
        /\ frames'[Len(frames) + 1] = f /\ \A i \in 1..Len(frames) : frames'[i] = frames[i]
    BY <1>1, <1>2, AppendProperties
  <1>4. ASSUME NEW i \in 1..Len(frames'), frames'[i].at \in {"forks", "prepares"}
        PROVE  i \in 1..Len(frames) /\ frames'[i] = frames[i]
    BY <1>2, <1>3, <1>4
  <1>5. Promised(unheard', pendings', frames')
    BY <1>1, <1>4 DEF LoopIInv, ForksHeard, Promised
  <1> QED
    BY <1>1, <1>3, <1>5 DEF LoopIInv, ForksHeard

LEMMA ReturnKeeps ==
  ASSUME LoopIInv, Return
  PROVE  LoopIInv'
  <1>1. /\ frames # <<>> /\ frames' = SubSeq(frames, 1, Len(frames) - 1)
        /\ loop_done' = LeaveWith(loop_done) /\ (ending' => ending)
        /\ UNCHANGED <<array, actives, activecnt, pendings, postfork, refs, unheard>>
    BY DEF Return, At
  <1>2. frames \in Seq(Frame) /\ Len(frames) \in 1..Len(frames)
    BY <1>1, TopFrame DEF LoopIInv
  <1>3. \A i \in 1..Len(frames) : frames[i] \in Frame
    BY <1>2, ElementOfSeq
  <1>4. /\ frames' \in Seq(Frame) /\ Len(frames') = Len(frames) - 1
        /\ \A i \in 1..Len(frames) - 1 : frames'[i] = frames[i]
    <2> DEFINE n == Len(frames)
    <2>1. n \in 1..n /\ n - 1 \in 0..n /\ n \in Nat /\ n - 1 + 1 - 1 = n - 1
      BY <1>2
    <2>2. \A i \in 1..n - 1 : frames[i] \in Frame /\ 1 + i - 1 = i
      BY <1>3, <2>1
    <2>3. frames' = SubSeq(frames, 1, n - 1)
      BY <1>1
    <2> QED
      BY <1>2, <2>1, <2>2, <2>3, SubSeqProperties
  <1>5. \A i \in 1..Len(frames') : i \in 1..Len(frames) /\ frames'[i] = frames[i]
    BY <1>2, <1>4
  <1>6. Promised(unheard', pendings', frames')
    BY <1>1, <1>5 DEF LoopIInv, ForksHeard, Promised
  <1>7. ending' => loop_done' = "EVUNLOOP_ALL"
    BY <1>1 DEF LoopIInv, LeaveWith
  <1> QED
    BY <1>1, <1>4, <1>6, <1>7 DEF LoopIInv, ForksHeard

(* The innermost call of ev_loop goes on: f is its new frame               *)
LEMMA TopMoves ==
  ASSUME LoopIInv, frames # <<>>, NEW f \in Frame, frames' = [frames EXCEPT ![Len(frames)] = f],
         unheard' \subseteq unheard, \A w \in unheard' : pendings.at[w] # 0 => pendings'.at[w] # 0,
         f.at \in {"forks", "prepares"} =>
           \A w \in unheard' : pendings'.at[w] # 0 /\ loop_priority[w] <= f.pri
  PROVE  frames' \in Seq(Frame) /\ Promised(unheard', pendings', frames')
  <1>1. /\ frames' \in Seq(Frame) /\ Len(frames') = Len(frames) /\ frames'[Len(frames)] = f
        /\ \A i \in 1..Len(frames) : i # Len(frames) => frames'[i] = frames[i]
    BY TopChanged DEF LoopIInv
  <1>2. Promised(unheard, pendings, frames)
    BY DEF LoopIInv, ForksHeard
  <1>3. ASSUME NEW i \in 1..Len(frames'), frames'[i].at \in {"forks", "prepares"}, NEW w \in unheard'
        PROVE  pendings'.at[w] # 0 /\ loop_priority[w] <= frames'[i].pri
    <2>1. CASE i = Len(frames)
      BY <1>1, <1>3, <2>1
    <2>2. CASE i # Len(frames)
      <3>1. i \in 1..Len(frames) /\ frames'[i] = frames[i]
        BY <1>1, <2>2
      <3> QED
        BY <1>2, <1>3, <3>1 DEF Promised
    <2> QED
      BY <2>1, <2>2
  <1> QED
    BY <1>1, <1>3 DEF Promised

LEMMA FrameFor ==
  ASSUME LoopIInv, frames # <<>>,
         NEW at \in {"enter", "forks", "prepares", "checks", "turn"}, To(at)
  PROVE  \E f \in Frame : /\ frames' = [frames EXCEPT ![Len(frames)] = f]
                          /\ f.at = at /\ f.pri = MaxPri
  <1> DEFINE f == [Top EXCEPT !.at = at, !.pri = MaxPri]
  <1>1. Top \in Frame
    BY TopFrame
  <1>2. f \in Frame /\ f.at = at /\ f.pri = MaxPri
    BY <1>1, LoopConstants DEF Frame
  <1>3. frames' = [frames EXCEPT ![Len(frames)] = f]
    BY Zenon DEF To, Top
  <1> QED
    BY <1>2, <1>3

LEMMA FramePast ==
  ASSUME LoopIInv, frames # <<>>,
         NEW at \in {"enter", "forks", "prepares", "checks", "turn"}, Past(at)
  PROVE  \E f \in Frame : /\ frames' = [frames EXCEPT ![Len(frames)] = f]
                          /\ f.at = at /\ f.pri = Top.pri
  <1> DEFINE f == [Top EXCEPT !.at = at]
  <1>1. Top \in Frame
    BY TopFrame
  <1>2. f \in Frame /\ f.at = at /\ f.pri = Top.pri
    BY <1>1, LoopConstants DEF Frame
  <1>3. frames' = [frames EXCEPT ![Len(frames)] = f]
    BY Zenon DEF Past, Top
  <1> QED
    BY <1>2, <1>3

LEMMA CallbackDoneKeeps ==
  ASSUME LoopIInv, CallbackDone
  PROVE  LoopIInv'
  <1> DEFINE f == [Top EXCEPT !.running = FALSE]
  <1>1. /\ frames # <<>>
        /\ UNCHANGED <<array, actives, activecnt, pendings, loop_done, postfork, refs, unheard, ending>>
    BY DEF CallbackDone
  <1>2. frames' = [frames EXCEPT ![Len(frames)] = f]
    BY Zenon DEF CallbackDone, Top
  <1>3. Top \in Frame /\ Len(frames) \in 1..Len(frames)
    BY <1>1, TopFrame
  <1>4. f \in Frame /\ f.at = Top.at /\ f.pri = Top.pri
    BY <1>3 DEF Frame
  <1> HIDE DEF f
  <1>5. f.at \in {"forks", "prepares"} =>
          \A w \in unheard : pendings.at[w] # 0 /\ loop_priority[w] <= f.pri
    BY <1>3, <1>4 DEF LoopIInv, ForksHeard, Promised, Top
  <1>6. frames' \in Seq(Frame) /\ Promised(unheard', pendings', frames')
    BY <1>1, <1>2, <1>4, <1>5, TopMoves
  <1> QED
    BY <1>1, <1>6 DEF LoopIInv, ForksHeard

(* ev_invoke_pending: the highest priority that is not done with           *)
LEMMA InvokeKeeps ==
  ASSUME LoopIInv, InvokePending
  PROVE  LoopIInv'
  <1> DEFINE p == CHOOSE o \in Ripe : \A q \in Ripe : q <= o
             w == LP!Last(pendings, p).w
             f == [Top EXCEPT !.pri = p, !.running = (w # loop_pending_w)]
  <1>1. /\ frames # <<>> /\ Ripe # {}
        /\ pendings' = LP!PoppedFrom(pendings, p) /\ unheard' = unheard \ {w}
        /\ UNCHANGED <<array, actives, activecnt, loop_done, postfork, refs, ending>>
    BY Zenon DEF InvokePending
  <1>2. frames' = [frames EXCEPT ![Len(frames)] = f]
    BY Zenon DEF InvokePending, Top
  <1>3. Top \in Frame /\ Len(frames) \in 1..Len(frames)
    BY <1>1, TopFrame
  <1>4. LoopPri \in SUBSET Nat /\ Top.pri \in LoopPri
    BY <1>3, LoopConstants DEF Frame
  <1>5. p \in Ripe /\ \A q \in Ripe : q <= p
    <2>1. Ripe \in SUBSET Nat /\ \A q \in Ripe : q <= Top.pri
      BY <1>4 DEF Ripe
    <2>2. \E o \in Ripe : \A q \in Ripe : q <= o
      BY <1>1, <1>4, <2>1, Highest
    <2> QED
      BY <2>2
  <1>6. p \in LoopPri /\ pendings.q[p] # <<>>
    BY <1>5 DEF Ripe
  <1>7. (w # loop_pending_w) \in BOOLEAN
    OBVIOUS
  <1>8. f \in Frame /\ f.at = Top.at /\ f.pri = p
    BY <1>3, <1>6, <1>7 DEF Frame
  <1>9. /\ pendings' = G(LoopWatcher, LoopPri, loop_pending_w)!PoppedFrom(pendings, p)
        /\ w = G(LoopWatcher, LoopPri, loop_pending_w)!Last(pendings, p).w
    BY <1>1 DEF LP!PoppedFrom, LP!Last, G!PoppedFrom, G!Last
  <1> HIDE DEF p, w, f
  <1>10. /\ LoopPending(pendings')
         /\ w \in LoopWatcher => pendings'.at = [pendings.at EXCEPT ![w] = 0]
         /\ w \notin LoopWatcher => pendings'.at = pendings.at
         /\ pendings.at \in [LoopWatcher -> Nat]
    <2>1. Verified(LoopWatcher, LoopPri, loop_pending_w, loop_priority, pendings)
      BY DEF LoopIInv, LoopPending
    <2>2. pendings.at \in [LoopWatcher -> Nat]
      BY <2>1 DEF Verified, Queues
    <2> QED
      BY <1>6, <1>9, <2>1, <2>2, PendingPopped DEF LoopPending
  <1>11. Told(unheard, actives) /\ Promised(unheard, pendings, frames) /\ unheard \subseteq LoopWatcher
    BY DEF LoopIInv, ForksHeard, Told
  <1>12. \A v \in unheard' : v \in unheard /\ v \in LoopWatcher /\ pendings'.at[v] = pendings.at[v]
    BY <1>1, <1>10, <1>11
  <1>13. ASSUME f.at \in {"forks", "prepares"}, NEW v \in unheard'
         PROVE  pendings'.at[v] # 0 /\ loop_priority[v] <= f.pri
    <2>1. pendings.at[v] # 0 /\ loop_priority[v] <= Top.pri
      BY <1>3, <1>8, <1>11, <1>12, <1>13 DEF Promised, Top
    <2>2. loop_priority[v] \in LoopPri /\ pendings.q[loop_priority[v]] # <<>>
      <3>1. pendings.at[v] \in 1..Len(pendings.q[loop_priority[v]])
        BY <1>12, <2>1 DEF LoopIInv, LoopPending, Verified, Placed
      <3>2. pendings.q[loop_priority[v]] # <<>>
        BY <3>1
      <3> QED
        BY <1>12, <3>2, LoopConstants
    <2>3. loop_priority[v] \in Ripe
      BY <2>1, <2>2 DEF Ripe
    <2> QED
      BY <1>5, <1>8, <1>12, <2>1, <2>3
  <1>14. frames' \in Seq(Frame) /\ Promised(unheard', pendings', frames')
    BY <1>1, <1>2, <1>8, <1>12, <1>13, TopMoves
  <1>15. ForksHeard'
    BY <1>1, <1>11, <1>14 DEF LoopIInv, ForksHeard, Told
  <1> QED
    BY <1>1, <1>10, <1>14, <1>15 DEF LoopIInv

(* The parts of a turn.  Behind a fork its watchers are queued             *)
LEMMA QueueForksKeeps ==
  ASSUME LoopIInv, QueueForks
  PROVE  LoopIInv'
  <1> DEFINE forks == array[The("fork")]
  <1>1. /\ frames # <<>>
        /\ UNCHANGED <<array, actives, activecnt, loop_done, postfork, refs, unheard, ending>>
    BY DEF QueueForks, At
  <1>2. \/ /\ pendings' = LP!QueueEvents(pendings, forks, {"EV_FORK"}, loop_priority)
           /\ To("forks")
        \/ pendings' = pendings /\ Past("forks") /\ (~postfork \/ forks = <<>>)
    BY Zenon DEF QueueForks, Forked
  <1>3. forks \in Seq(LoopWatcher) /\ {"EV_FORK"} \in SUBSET Received /\ LoopPending(pendings)
    BY LoopConstants DEF LoopIInv, Listed, Received
  <1>4. /\ \A w \in unheard : w \in LoopWatcher /\ \E i \in 1..Len(forks) : forks[i] = w
        /\ unheard # {} => postfork
    <2>1. Told(unheard, actives) /\ Listed(array, actives) /\ (unheard # {} => postfork)
      BY DEF LoopIInv, ForksHeard
    <2>2. ASSUME NEW w \in unheard
          PROVE  w \in LoopWatcher /\ \E i \in 1..Len(forks) : forks[i] = w
      <3>1. w \in LoopWatcher /\ actives[w] # 0 /\ ArrayOf(w) = The("fork")
        BY <2>1, LoopConstants DEF Told
      <3>2. actives[w] \in 1..Len(forks) /\ forks[actives[w]] = w
        BY <2>1, <3>1 DEF Listed
      <3> QED
        BY <3>1, <3>2
    <2> QED
      BY <2>1, <2>2, Zenon
  <1> HIDE DEF forks
  <1>5. CASE To("forks") /\ pendings' = LP!QueueEvents(pendings, forks, {"EV_FORK"}, loop_priority)
    <2>1. /\ LoopPending(pendings') /\ Kept(LoopWatcher, pendings, pendings')
          /\ \A w \in unheard : pendings'.at[w] # 0
      BY <1>3, <1>4, <1>5, LoopQueued
    <2>2. PICK f \in Frame : /\ frames' = [frames EXCEPT ![Len(frames)] = f]
                             /\ f.at = "forks" /\ f.pri = MaxPri
      BY <1>1, <1>5, FrameFor
    <2>3. \A w \in unheard' : pendings'.at[w] # 0 /\ loop_priority[w] <= f.pri
      BY <1>1, <1>4, <2>1, <2>2, LoopConstants
    <2>4. frames' \in Seq(Frame) /\ Promised(unheard', pendings', frames')
      BY <1>1, <2>2, <2>3, TopMoves
    <2> QED
      BY <1>1, <2>1, <2>4 DEF LoopIInv, ForksHeard
  <1>6. CASE pendings' = pendings /\ Past("forks") /\ (~postfork \/ forks = <<>>)
    <2>1. unheard = {}
      BY <1>4, <1>6
    <2>2. PICK f \in Frame : /\ frames' = [frames EXCEPT ![Len(frames)] = f]
                             /\ f.at = "forks" /\ f.pri = Top.pri
      BY <1>1, <1>6, FramePast
    <2>3. frames' \in Seq(Frame) /\ Promised(unheard', pendings', frames')
      BY <1>1, <1>6, <2>1, <2>2, TopMoves
    <2> QED
      BY <1>1, <1>6, <2>3 DEF LoopIInv, ForksHeard
  <1> QED
    BY <1>2, <1>5, <1>6

LEMMA QueuePreparesKeeps ==
  ASSUME LoopIInv, QueuePrepares
  PROVE  LoopIInv'
  <1>1. /\ frames # <<>> /\ Top.at = "forks"
        /\ UNCHANGED <<array, actives, activecnt, loop_done, postfork, refs, unheard, ending>>
    BY DEF QueuePrepares, At
  <1>2. \/ /\ To("prepares")
           /\ pendings' = LP!QueueEvents(pendings, array[The("prepare")], {"EV_PREPARE"}, loop_priority)
        \/ pendings' = pendings /\ Past("prepares")
    BY Zenon DEF QueuePrepares
  <1>3. /\ array[The("prepare")] \in Seq(LoopWatcher) /\ {"EV_PREPARE"} \in SUBSET Received
        /\ LoopPending(pendings)
    BY LoopConstants DEF LoopIInv, Listed, Received
  <1>4. LoopPending(pendings') /\ Kept(LoopWatcher, pendings, pendings')
    <2>1. CASE pendings' = pendings
      BY <1>3, <2>1 DEF Kept
    <2> QED
      BY <1>2, <1>3, <2>1, LoopQueued
  <1>5. PICK f \in Frame : /\ frames' = [frames EXCEPT ![Len(frames)] = f]
                           /\ f.at = "prepares" /\ f.pri \in {MaxPri, Top.pri}
    BY <1>1, <1>2, FrameFor, FramePast
  <1>6. Top \in Frame /\ Len(frames) \in 1..Len(frames)
    BY <1>1, TopFrame
  <1>7. \A w \in unheard : w \in LoopWatcher /\ pendings.at[w] # 0 /\ loop_priority[w] <= Top.pri
    BY <1>1, <1>6 DEF LoopIInv, ForksHeard, Told, Promised, Top
  <1>8. \A w \in unheard' : pendings'.at[w] # 0 /\ loop_priority[w] <= f.pri
    <2>1. \A w \in unheard : pendings'.at[w] # 0
      BY <1>4, <1>7 DEF Kept
    <2> QED
      BY <1>1, <1>5, <1>7, <2>1, LoopConstants
  <1>9. frames' \in Seq(Frame) /\ Promised(unheard', pendings', frames')
    BY <1>1, <1>5, <1>8, TopMoves
  <1> QED
    BY <1>1, <1>4, <1>9 DEF LoopIInv, ForksHeard

(* idle_reify queues the idle watchers of one priority                     *)
LEMMA IdleQueued ==
  ASSUME LoopIInv, NEW Q, LoopPending(Q)
  PROVE  LoopPending(IdleReified(Q))
  <1> DEFINE Busy == {p \in LoopPri : Q.q[p] # <<>> \/ array[Idles(p)] # <<>>}
             top == CHOOSE p \in Busy : \A o \in Busy : o <= p
  <1>1. IdleReified(Q) = IF Busy = {} \/ Q.q[top] # <<>> THEN Q
                         ELSE LP!QueueEvents(Q, array[Idles(top)], {"EV_IDLE"}, loop_priority)
    BY Zenon DEF IdleReified
  <1>2. CASE Busy # {}
    <2>1. Busy \in SUBSET Nat /\ Busy \subseteq LoopPri /\ MaxPri \in Nat /\ \A p \in Busy : p <= MaxPri
      BY LoopConstants
    <2>2. \E p \in Busy : \A o \in Busy : o <= p
      BY <1>2, <2>1, Highest
    <2>3. top \in LoopPri
      BY <2>1, <2>2
    <2>4. array[Idles(top)] \in Seq(LoopWatcher) /\ {"EV_IDLE"} \in SUBSET Received
      BY <2>3, LoopConstants DEF LoopIInv, Listed, Received
    <2> HIDE DEF top, Busy
    <2>5. LoopPending(LP!QueueEvents(Q, array[Idles(top)], {"EV_IDLE"}, loop_priority))
      BY <2>4, LoopQueued
    <2> QED
      BY <1>1, <2>5
  <1>3. CASE Busy = {}
    BY <1>1, <1>3
  <1> QED
    BY <1>2, <1>3

(* When the loop polls nobody is left to hear of the fork                  *)
LEMMA HeardByNow ==
  ASSUME LoopIInv, At("prepares"), Ripe = {}
  PROVE  unheard = {}
  <1> SUFFICES ASSUME NEW w \in unheard PROVE FALSE
    OBVIOUS
  <1>1. Top \in Frame /\ Len(frames) \in 1..Len(frames) /\ Top.at = "prepares"
    BY TopFrame DEF At
  <1>2. w \in LoopWatcher /\ pendings.at[w] # 0 /\ loop_priority[w] <= Top.pri
    BY <1>1 DEF LoopIInv, ForksHeard, Told, Promised, Top
  <1>3. pendings.at[w] \in 1..Len(pendings.q[loop_priority[w]])
    BY <1>2 DEF LoopIInv, LoopPending, Verified, Placed
  <1>4. pendings.q[loop_priority[w]] # <<>> /\ loop_priority[w] \in LoopPri
    BY <1>2, <1>3, LoopConstants
  <1> QED
    BY <1>2, <1>4 DEF Ripe

LEMMA LoopPollKeeps ==
  ASSUME LoopIInv, LoopPoll
  PROVE  LoopIInv' /\ unheard = {} /\ ~ending
  <1>1. PICK came \in {<<>>} \cup {<<w>> : w \in {x \in LoopWatcher : kind[x] = "plain" /\ actives[x] # 0}} :
          pendings' = LP!QueueEvents(IdleReified(LP!QueueEvents(pendings, came, {"EV_READ"}, loop_priority)),
                                     array[The("check")], {"EV_CHECK"}, loop_priority)
    BY Zenon DEF LoopPoll
  <1>2. /\ frames # <<>> /\ To("checks") /\ loop_done = "EVUNLOOP_CANCEL"
        /\ UNCHANGED <<array, actives, activecnt, loop_done, refs, unheard, ending>>
    BY DEF LoopPoll, At
  <1>3. unheard = {}
    BY HeardByNow DEF LoopPoll
  <1>4. ~ending
    BY <1>2 DEF LoopIInv
  <1> DEFINE Q == LP!QueueEvents(pendings, came, {"EV_READ"}, loop_priority)
             R == IdleReified(Q)
  <1>5. LoopPending(Q)
    <2>1. {"EV_READ"} \in SUBSET Received
      BY DEF Received
    <2>2. came \in Seq(LoopWatcher)
      <3>1. CASE came = <<>>
        BY <3>1
      <3>2. ASSUME NEW w \in LoopWatcher, came = <<w>>
            PROVE  came \in Seq(LoopWatcher)
        BY <3>2
      <3> QED
        BY <3>1, <3>2
    <2> QED
      BY <2>1, <2>2, LoopQueued DEF LoopIInv
  <1> HIDE DEF Q
  <1>6. LoopPending(R)
    BY <1>5, IdleQueued
  <1>7. array[The("check")] \in Seq(LoopWatcher) /\ {"EV_CHECK"} \in SUBSET Received
    BY LoopConstants DEF LoopIInv, Listed, Received
  <1>8. pendings' = LP!QueueEvents(R, array[The("check")], {"EV_CHECK"}, loop_priority)
    BY <1>1 DEF Q
  <1> HIDE DEF R
  <1>9. LoopPending(pendings')
    BY <1>6, <1>7, <1>8, LoopQueued
  <1>10. PICK f \in Frame : /\ frames' = [frames EXCEPT ![Len(frames)] = f]
                            /\ f.at = "checks" /\ f.pri = MaxPri
    BY <1>2, FrameFor
  <1>11. frames' \in Seq(Frame) /\ Promised(unheard', pendings', frames')
    BY <1>2, <1>3, <1>10, TopMoves
  <1>12. ForksHeard'
    BY <1>2, <1>3, <1>11 DEF ForksHeard, Told
  <1> QED
    BY <1>2, <1>3, <1>4, <1>9, <1>11, <1>12 DEF LoopIInv

LEMMA AgainKeeps ==
  ASSUME LoopIInv, Again
  PROVE  LoopIInv'
  <1>1. /\ frames # <<>> /\ Past("turn")
        /\ UNCHANGED <<array, actives, activecnt, pendings, loop_done, postfork, refs, unheard, ending>>
    BY DEF Again, At
  <1>2. PICK f \in Frame : /\ frames' = [frames EXCEPT ![Len(frames)] = f]
                           /\ f.at = "turn" /\ f.pri = Top.pri
    BY <1>1, FramePast
  <1>3. frames' \in Seq(Frame) /\ Promised(unheard', pendings', frames')
    BY <1>1, <1>2, TopMoves
  <1> QED
    BY <1>1, <1>3 DEF LoopIInv, ForksHeard

LEMMA LoopInductive ==
  ASSUME LoopIInv, [LoopNext]_loop_vars
  PROVE  LoopIInv' /\ ForkStep /\ UnloopedStep
  <1>1. CASE UNCHANGED loop_vars
    BY <1>1 DEF loop_vars, LoopIInv, ForksHeard, ForkStep, UnloopedStep
  <1>2. CASE LoopPoll
    BY <1>2, LoopPollKeeps DEF ForkStep, UnloopedStep
  <1>3. ASSUME NEW w \in LoopWatcher, LoopStart(w) \/ LoopStop(w) \/ FeedEvent(w)
        PROVE  LoopIInv' /\ ForkStep /\ UnloopedStep
    <2>1. LoopIInv'
      BY <1>3, LoopStartKeeps, LoopStopKeeps, LoopFeedKeeps
    <2>2. postfork' = postfork /\ loop_count' = loop_count
      BY <1>3 DEF LoopStart, LoopStop, FeedEvent
    <2> QED
      BY <2>1, <2>2 DEF ForkStep, UnloopedStep
  <1>4. CASE \/ Refs \/ LoopFork \/ CallbackDone \/ InvokePending
             \/ QueueForks \/ QueuePrepares \/ Again \/ Return
    <2>1. LoopIInv'
      BY <1>4, LoopRefsKeeps, LoopForkKeeps, CallbackDoneKeeps, InvokeKeeps, QueueForksKeeps,
         QueuePreparesKeeps, AgainKeeps, ReturnKeeps
    <2>2. (postfork' = postfork \/ postfork') /\ loop_count' = loop_count
      BY <1>4 DEF Refs, LoopFork, CallbackDone, InvokePending, QueueForks, QueuePrepares, Again, Return
    <2> QED
      BY <2>1, <2>2 DEF ForkStep, UnloopedStep
  <1>5. ASSUME \/ \E how \in {"EVUNLOOP_ONE", "EVUNLOOP_ALL"} : Unloop(how)
               \/ \E once \in BOOLEAN : Loop(once)
        PROVE  LoopIInv' /\ ForkStep /\ UnloopedStep
    <2>1. LoopIInv'
      BY <1>5, UnloopKeeps, LoopKeeps
    <2>2. postfork' = postfork /\ loop_count' = loop_count
      BY <1>5 DEF Unloop, Loop
    <2> QED
      BY <2>1, <2>2 DEF ForkStep, UnloopedStep
  <1> QED
    BY <1>1, <1>2, <1>3, <1>4, <1>5 DEF LoopNext

LEMMA LoopStarts ==
  ASSUME LoopInit
  PROVE  LoopIInv
  <1>1. pendings = G(LoopWatcher, LoopPri, loop_pending_w)!NoneFed
    BY DEF LoopInit, LP!NoneFed, G!NoneFed
  <1>2. loop_priority \in [LoopWatcher -> LoopPri] /\ loop_pending_w \notin LoopWatcher
    BY LoopAssumption
  <1>3. LoopPending(pendings)
    BY <1>1, <1>2, NonePending DEF LoopPending
  <1>4. /\ array \in [Arrays -> Seq(LoopWatcher)] /\ \A a \in Arrays : Len(array[a]) = 0
        /\ actives \in [LoopWatcher -> Nat] /\ \A w \in LoopWatcher : actives[w] = 0
    BY DEF LoopInit
  <1>5. Listed(array, actives)
    BY <1>4 DEF Listed
  <1>6. ActiveOnes(actives) = {} /\ activecnt = 0 /\ refs = 0
    BY <1>4 DEF LoopInit, ActiveOnes
  <1>7. Counted(actives, activecnt, refs)
    BY <1>6, FS_EmptySet DEF Counted
  <1>8. frames = <<>> /\ unheard = {} /\ ~ending
    BY DEF LoopInit
  <1>9. frames \in Seq(Frame) /\ ForksHeard
    BY <1>8 DEF ForksHeard, Told, Promised
  <1> QED
    BY <1>3, <1>5, <1>7, <1>8, <1>9 DEF LoopIInv

(* For any watchers and any depth of calls, whatever callbacks do: the     *)
(* loop does not poll after a fork before every fork watcher that was      *)
(* active when it was told has been called or stopped; and after an        *)
(* EVUNLOOP_ALL no call of ev_loop polls again                             *)
THEOREM LoopObeysAlways == LoopSpec => LoopObeys
  <1>1. LoopInit => LoopIInv
    BY LoopStarts
  <1>2. LoopIInv /\ [LoopNext]_loop_vars => LoopIInv' /\ ForkStep /\ UnloopedStep
    BY LoopInductive
  <1> QED
    BY <1>1, <1>2, PTL DEF LoopSpec, LoopObeys

(* And what ev_loop_verify asserts holds of any run: a watcher is where    *)
(* its active and pending fields say, and activecnt counts the active ones *)
THEOREM LoopVerifiedAlways == LoopSpec => []LoopVerified
  <1>1. LoopInit => LoopIInv
    BY LoopStarts
  <1>2. LoopIInv /\ [LoopNext]_loop_vars => LoopIInv'
    BY LoopInductive
  <1>3. LoopIInv => LoopVerified
    <2> SUFFICES ASSUME LoopIInv PROVE LoopVerified
      OBVIOUS
    <2>1. /\ \A a \in Arrays : \A i \in 1..Len(array[a]) : actives[array[a][i]] = i
          /\ \A w \in LoopWatcher :
               actives[w] # 0 => \E i \in 1..Len(array[ArrayOf(w)]) :
                                   actives[w] = i /\ array[ArrayOf(w)][i] = w
      BY DEF LoopIInv, Listed
    <2>2. activecnt = Cardinality({w \in LoopWatcher : actives[w] # 0}) + refs
      BY DEF LoopIInv, Counted, ActiveOnes
    <2>3. LP!PendingVerified(pendings, loop_priority)
      <3> SUFFICES ASSUME NEW w \in LoopWatcher, NEW p \in LoopPri, NEW i \in 1..Len(pendings.q[p])
                   PROVE  pendings.q[p][i].w = w <=> p = loop_priority[w] /\ pendings.at[w] = i
        BY DEF LP!PendingVerified
      <3> QED
        BY DEF LoopIInv, LoopPending, Verified, Placed
    <2> QED
      BY <2>1, <2>2, <2>3 DEF LoopVerified
  <1> QED
    BY <1>1, <1>2, <1>3, PTL DEF LoopSpec

-----------------------------------------------------------------------------
(* A function that is defined by recursion along 0..N exists, if every     *)
(* step leads from the good values of one place to those of the next.      *)
Leads(N, V, Good, v, step) ==
  /\ N \in Nat /\ Good \in [0..N -> SUBSET V] /\ v \in Good[0]
  /\ \A n \in 1..N : \A x \in Good[n - 1] : step[<<x, n>>] \in Good[n]
Follows(N, f, Good, v, step) ==
  /\ f[0] = v
  /\ \A n \in 1..N : f[n - 1] \in Good[n - 1] => f[n] = step[<<f[n - 1], n>>]

LEMMA Iteration ==
  ASSUME NEW N, NEW V, NEW Good, NEW v, NEW step, Leads(N, V, Good, v, step)
  PROVE  \E f \in [0..N -> V] :
           /\ f[0] = v /\ \A n \in 1..N : f[n] = step[<<f[n - 1], n>>]
           /\ \A n \in 0..N : f[n] \in Good[n]
  <1> DEFINE Made(f, m) == /\ f[0] = v /\ \A n \in 1..m : f[n] = step[<<f[n - 1], n>>]
                           /\ \A n \in 0..m : f[n] \in Good[n]
             S == {m \in 0..N : \E f \in [0..N -> V] : Made(f, m)}
  <1> USE DEF Leads
  <1>0. \A n \in 0..N : Good[n] \subseteq V
    OBVIOUS
  <1>1. 0 \in S
    <2> DEFINE g == [n \in 0..N |-> v]
    <2>0. 0 \in 0..N
      OBVIOUS
    <2>1. g \in [0..N -> V] /\ g[0] = v
      BY <1>0, <2>0
    <2> HIDE DEF g
    <2>2. Made(g, 0)
      BY <2>1
    <2> QED
      BY <2>0, <2>1, <2>2
  <1>2. ASSUME NEW m \in 1..N, m - 1 \in S PROVE m \in S
    <2>1. PICK f \in [0..N -> V] : Made(f, m - 1)
      BY <1>2
    <2> DEFINE x == step[<<f[m - 1], m>>]
               g == [f EXCEPT ![m] = x]
    <2>2. m - 1 \in 0..(m - 1) /\ m \in 0..N /\ m - 1 \in 0..N
      OBVIOUS
    <2>3. x \in Good[m] /\ x \in V
      BY <1>0, <2>1, <2>2
    <2> HIDE DEF x
    <2>4. g \in [0..N -> V] /\ g[m] = x /\ \A n \in 0..(m - 1) : g[n] = f[n]
      BY <2>2, <2>3
    <2> HIDE DEF g
    <2>5. Made(g, m)
      <3>1. g[0] = v
        BY <2>1, <2>4
      <3>2. ASSUME NEW n \in 1..m PROVE g[n] = step[<<g[n - 1], n>>]
        <4>1. CASE n = m
          BY <2>2, <2>4, <4>1 DEF x
        <4>2. CASE n # m
          <5>1. n \in 1..(m - 1) /\ n \in 0..(m - 1) /\ n - 1 \in 0..(m - 1)
            BY <4>2
          <5> QED
            BY <2>1, <2>4, <5>1
        <4> QED
          BY <4>1, <4>2
      <3>3. ASSUME NEW n \in 0..m PROVE g[n] \in Good[n]
        <4>1. CASE n = m
          BY <2>3, <2>4, <4>1
        <4>2. CASE n # m
          <5>1. n \in 0..(m - 1)
            BY <4>2
          <5> QED
            BY <2>1, <2>4, <5>1
        <4> QED
          BY <4>1, <4>2
      <3> QED
        BY <3>1, <3>2, <3>3
    <2> QED
      BY <2>2, <2>4, <2>5
  <1> HIDE DEF S
  <1>3. 0..N \subseteq S
    BY <1>1, <1>2, UpTo
  <1>4. N \in S
    BY <1>3
  <1> QED
    BY <1>4 DEF S

LEMMA IterationStays ==
  ASSUME NEW N, NEW V, NEW Good, NEW v, NEW step, Leads(N, V, Good, v, step),
         NEW g, Follows(N, g, Good, v, step)
  PROVE  \A n \in 0..N : g[n] \in Good[n]
  <1> USE DEF Leads, Follows
  <1> DEFINE S == {n \in 0..N : g[n] \in Good[n]}
  <1>1. 0 \in S
    OBVIOUS
  <1>2. ASSUME NEW n \in 1..N, n - 1 \in S PROVE n \in S
    <2>1. g[n - 1] \in Good[n - 1]
      BY <1>2
    <2>2. g[n] \in Good[n]
      BY <2>1
    <2> QED
      BY <2>2
  <1> HIDE DEF S
  <1>3. 0..N \subseteq S
    BY <1>1, <1>2, UpTo
  <1> QED
    BY <1>3 DEF S

-----------------------------------------------------------------------------
(* Timers.  The heap as a tree: the parent of a place is a place nearer to *)
(* the root, and Children are those that have it as their parent.          *)
DegreeOK == DHEAP \in {2, 4}

LEMMA ParentAbove ==
  ASSUME DegreeOK
  PROVE  \A k \in Nat : k >= 2 => HPARENT(k) \in Nat /\ 1 <= HPARENT(k) /\ HPARENT(k) < k
  <1>1. CASE DHEAP = 2
    BY <1>1 DEF HPARENT
  <1>2. CASE DHEAP = 4
    BY <1>2 DEF HPARENT
  <1> QED
    BY <1>1, <1>2 DEF DegreeOK

ChildSet(h, k, n) == \A c : c \in Children(h, k) <=> c \in 2..n /\ HPARENT(c) = k
LEMMA ChildrenBelow ==
  ASSUME DegreeOK, NEW h, NEW n \in Nat, DOMAIN h.ent = 1..n, NEW k \in Nat, k >= 1
  PROVE  ChildSet(h, k, n)
  <1>1. CASE DHEAP = 2
    BY <1>1 DEF HPARENT, Children, ChildSet
  <1>2. CASE DHEAP = 4
    BY <1>2 DEF HPARENT, Children, ChildSet
  <1> QED
    BY <1>1, <1>2 DEF DegreeOK

(* The order of the times T of the entries of a heap: up to place m it     *)
(* holds; it holds but between k and its parent, or but between k and its  *)
(* children, and then also between them and the parent of k; or neither.   *)
InOrder(T, i) == T[HPARENT(i)] <= T[i]
OverPlace(T, k, m) == \A c \in 2..m : HPARENT(c) = k /\ k > 1 => T[HPARENT(k)] <= T[c]
OrderedTo(T, m) == \A i \in 2..m : InOrder(T, i)
OrderedUp(T, k, m) == (\A i \in 2..m : i # k => InOrder(T, i)) /\ OverPlace(T, k, m)
OrderedDown(T, k, m) == (\A i \in 2..m : HPARENT(i) # k => InOrder(T, i)) /\ OverPlace(T, k, m)
OrderedLoose(T, k, m) ==
  (\A i \in 2..m : i # k /\ HPARENT(i) # k => InOrder(T, i)) /\ OverPlace(T, k, m)
Swapped(T, S, k, p, n) == \A i \in 1..n : S[i] = IF i = k THEN T[p] ELSE IF i = p THEN T[k] ELSE T[i]

LEMMA OneUp ==
  ASSUME DegreeOK, NEW n \in Nat, NEW m \in 1..n, NEW T \in [1..n -> Int], NEW S \in [1..n -> Int],
         NEW k \in 2..m, NEW p, p = HPARENT(k), Swapped(T, S, k, p, n), T[k] < T[p],
         OrderedUp(T, k, m)
  PROVE  p \in 1..(k - 1) /\ OrderedUp(S, p, m)
  <1>0. m \in Nat /\ m <= n /\ k \in Nat /\ k >= 2 /\ k <= m
    OBVIOUS
  <1>1. p \in 1..(k - 1) /\ p \in 1..m /\ p # k
    <2>1. p \in Nat /\ 1 <= p /\ p < k
      BY <1>0, ParentAbove
    <2> QED
      BY <1>0, <2>1
  <1>2. \A i \in 2..m : i \in 1..n /\ HPARENT(i) \in 1..n /\ HPARENT(i) < i
    <2>1. ASSUME NEW i \in 2..m PROVE i \in 1..n /\ HPARENT(i) \in 1..n /\ HPARENT(i) < i
      <3>1. i \in Nat /\ i >= 2 /\ i <= n
        BY <1>0
      <3>2. HPARENT(i) \in Nat /\ 1 <= HPARENT(i) /\ HPARENT(i) < i
        BY <3>1, ParentAbove
      <3> QED
        BY <3>1, <3>2
    <2> QED
      BY <2>1
  <1>3. S[k] = T[p] /\ S[p] = T[k] /\ \A i \in 1..n : i # k /\ i # p => S[i] = T[i]
    BY <1>1 DEF Swapped
  <1>4. \A i \in 1..n : T[i] \in Int
    OBVIOUS
  <1>5. ASSUME NEW i \in 2..m, i # p PROVE InOrder(S, i)
    <2>1. CASE i = k
      BY <1>1, <1>2, <1>3, <1>4, <2>1 DEF InOrder
    <2>2. CASE i # k /\ HPARENT(i) = k
      <3>1. T[HPARENT(k)] <= T[i]
        BY <2>2 DEF OrderedUp, OverPlace
      <3> QED
        BY <1>2, <1>3, <1>5, <2>2, <3>1 DEF InOrder
    <2>3. CASE i # k /\ HPARENT(i) # k
      <3>1. T[HPARENT(i)] <= T[i]
        BY <2>3 DEF OrderedUp, InOrder
      <3>2. S[i] = T[i]
        BY <1>2, <1>3, <1>5, <2>3
      <3>4. S[HPARENT(i)] \in Int /\ T[HPARENT(i)] \in Int /\ T[i] \in Int
        BY <1>2
      <3>5. p \in 1..n /\ T[p] \in Int /\ HPARENT(i) \in 1..n
        BY <1>0, <1>1, <1>2
      <3>3. S[HPARENT(i)] <= T[HPARENT(i)]
        <4>1. CASE HPARENT(i) = p
          BY <1>3, <3>4, <3>5, <4>1
        <4>2. CASE HPARENT(i) # p
          <5>1. S[HPARENT(i)] = T[HPARENT(i)]
            BY <1>3, <2>3, <3>5, <4>2
          <5> QED
            BY <3>4, <5>1
        <4> QED
          BY <4>1, <4>2
      <3> QED
        BY <3>1, <3>2, <3>3, <3>4 DEF InOrder
    <2> QED
      BY <2>1, <2>2, <2>3
  <1>6. ASSUME NEW c \in 2..m, HPARENT(c) = p, p > 1 PROVE S[HPARENT(p)] <= S[c]
    <2>0. p \in 2..m /\ p < k
      BY <1>0, <1>1, <1>6
    <2>1. HPARENT(p) \in 1..n /\ HPARENT(p) < p /\ HPARENT(p) < k /\ p \in 2..m /\ p < k
      BY <1>0, <1>2, <2>0
    <2>2. T[HPARENT(p)] <= T[p]
      BY <1>1, <2>1 DEF OrderedUp, InOrder
    <2>3. S[HPARENT(p)] = T[HPARENT(p)]
      BY <1>3, <2>1
    <2>4. CASE c = k
      BY <1>3, <2>2, <2>3, <2>4
    <2>5. CASE c # k
      <3>1. T[p] <= T[c]
        BY <1>6, <2>5 DEF OrderedUp, InOrder
      <3>2. S[c] = T[c]
        BY <1>2, <1>3, <1>6, <2>5
      <3>3. T[HPARENT(p)] \in Int /\ T[p] \in Int /\ T[c] \in Int
        BY <1>1, <1>2, <2>1
      <3> QED
        BY <2>2, <2>3, <3>1, <3>2, <3>3
    <2> QED
      BY <2>4, <2>5
  <1> QED
    BY <1>1, <1>5, <1>6 DEF OrderedUp, OverPlace

LEMMA OneDown ==
  ASSUME DegreeOK, NEW n \in Nat, NEW T \in [1..n -> Int], NEW S \in [1..n -> Int],
         NEW k \in 1..n, NEW c \in 2..n, HPARENT(c) = k, Swapped(T, S, k, c, n), T[c] < T[k],
         \A d \in 2..n : HPARENT(d) = k => T[c] <= T[d],
         OrderedDown(T, k, n)
  PROVE  c > k /\ OrderedDown(S, c, n)
  <1>1. k < c
    BY ParentAbove
  <1>2. \A i \in 2..n : i \in 1..n /\ HPARENT(i) \in 1..n /\ HPARENT(i) < i
    BY ParentAbove
  <1>3. S[k] = T[c] /\ S[c] = T[k] /\ \A i \in 1..n : i # k /\ i # c => S[i] = T[i]
    BY <1>1 DEF Swapped
  <1>4. \A i \in 1..n : T[i] \in Int
    OBVIOUS
  <1>5. ASSUME NEW i \in 2..n, HPARENT(i) # c PROVE InOrder(S, i)
    <2>1. CASE i = k
      <3>1. T[HPARENT(k)] <= T[c]
        BY <2>1 DEF OrderedDown, OverPlace
      <3>2. S[HPARENT(k)] = T[HPARENT(k)]
        BY <1>1, <1>2, <1>3, <2>1
      <3> QED
        BY <1>3, <2>1, <3>1, <3>2 DEF InOrder
    <2>2. CASE i = c
      BY <1>3, <1>4, <2>2 DEF InOrder
    <2>3. CASE i # c /\ i # k /\ HPARENT(i) = k
      <3>1. T[c] <= T[i] /\ S[i] = T[i]
        BY <1>2, <1>3, <2>3
      <3> QED
        BY <1>3, <2>3, <3>1 DEF InOrder
    <2>4. CASE i # c /\ i # k /\ HPARENT(i) # k
      <3>1. T[HPARENT(i)] <= T[i]
        BY <2>4 DEF OrderedDown, InOrder
      <3> QED
        BY <1>2, <1>3, <1>5, <2>4, <3>1 DEF InOrder
    <2> QED
      BY <2>1, <2>2, <2>3, <2>4
  <1>6. ASSUME NEW d \in 2..n, HPARENT(d) = c, c > 1 PROVE S[HPARENT(c)] <= S[d]
    <2>1. T[c] <= T[d]
      BY <1>1, <1>6 DEF OrderedDown, InOrder
    <2>2. d # c /\ d # k
      BY <1>1, <1>2, <1>6
    <2> QED
      BY <1>2, <1>3, <2>1, <2>2
  <1> QED
    BY <1>1, <1>5, <1>6 DEF OrderedDown, OverPlace

(* The hole has come to where he fits in.                                  *)
LEMMA UpFits ==
  ASSUME NEW T, NEW m, NEW k, OrderedUp(T, k, m),
         k = 1 \/ T[HPARENT(k)] <= T[k]
  PROVE  OrderedTo(T, m)
  <1>1. ASSUME NEW i \in 2..m PROVE InOrder(T, i)
    <2>1. CASE i = k
      BY <2>1 DEF InOrder
    <2>2. CASE i # k
      BY <2>2 DEF OrderedUp
    <2> QED
      BY <2>1, <2>2
  <1> QED
    BY <1>1 DEF OrderedTo

LEMMA DownFits ==
  ASSUME NEW T, NEW m, NEW k, OrderedDown(T, k, m),
         \A d \in 2..m : HPARENT(d) = k => T[k] <= T[d]
  PROVE  OrderedTo(T, m)
  <1>1. ASSUME NEW i \in 2..m PROVE InOrder(T, i)
    <2>1. CASE HPARENT(i) = k
      BY <2>1 DEF InOrder
    <2>2. CASE HPARENT(i) # k
      BY <2>2 DEF OrderedDown
    <2> QED
      BY <2>1, <2>2
  <1> QED
    BY <1>1 DEF OrderedTo

(* A place that is out of order is so towards the root or away from it.    *)
LEMMA LooseUp ==
  ASSUME DegreeOK, NEW n \in Nat, NEW T \in [1..n -> Int], NEW k \in 2..n, OrderedLoose(T, k, n),
         T[HPARENT(k)] >= T[k]
  PROVE  OrderedUp(T, k, n)
  <1>1. HPARENT(k) \in 1..n
    BY ParentAbove
  <1>2. ASSUME NEW i \in 2..n, i # k PROVE InOrder(T, i)
    <2>1. CASE HPARENT(i) = k
      <3>1. T[HPARENT(k)] <= T[i]
        BY <2>1 DEF OrderedLoose, OverPlace
      <3>2. T[HPARENT(k)] \in Int /\ T[k] \in Int /\ T[i] \in Int
        BY <1>1
      <3> QED
        BY <2>1, <3>1, <3>2 DEF InOrder
    <2>2. CASE HPARENT(i) # k
      BY <1>2, <2>2 DEF OrderedLoose
    <2> QED
      BY <2>1, <2>2
  <1> QED
    BY <1>2 DEF OrderedUp, OrderedLoose

LEMMA LooseDown ==
  ASSUME DegreeOK, NEW n \in Nat, NEW T \in [1..n -> Int], NEW k \in 1..n, OrderedLoose(T, k, n),
         k = 1 \/ T[HPARENT(k)] <= T[k]
  PROVE  OrderedDown(T, k, n)
  <1>1. ASSUME NEW i \in 2..n, HPARENT(i) # k PROVE InOrder(T, i)
    <2>1. CASE i = k
      BY <2>1 DEF InOrder
    <2>2. CASE i # k
      BY <1>1, <2>2 DEF OrderedLoose
    <2> QED
      BY <2>1, <2>2
  <1> QED
    BY <1>1 DEF OrderedDown, OrderedLoose

(* Only place k is new.                                                    *)
LEMMA OneReplaced ==
  ASSUME DegreeOK, NEW n \in Nat, NEW T \in [1..n -> Int], NEW S \in [1..n -> Int], NEW k \in 1..n,
         OrderedTo(T, n), \A i \in 1..n : i # k => S[i] = T[i]
  PROVE  OrderedLoose(S, k, n)
  <1>1. \A i \in 2..n : i \in 1..n /\ HPARENT(i) \in 1..n /\ HPARENT(i) < i
    BY ParentAbove
  <1>2. ASSUME NEW i \in 2..n, i # k, HPARENT(i) # k PROVE InOrder(S, i)
    <2>1. T[HPARENT(i)] <= T[i]
      BY DEF OrderedTo, InOrder
    <2> QED
      BY <1>1, <1>2, <2>1 DEF InOrder
  <1>3. ASSUME NEW c \in 2..n, HPARENT(c) = k, k > 1 PROVE S[HPARENT(k)] <= S[c]
    <2>1. T[HPARENT(k)] <= T[k] /\ T[k] <= T[c]
      BY <1>3 DEF OrderedTo, InOrder
    <2>2. HPARENT(k) \in 1..n /\ HPARENT(k) < k /\ c # k
      BY <1>1, <1>3
    <2>3. T[HPARENT(k)] \in Int /\ T[k] \in Int /\ T[c] \in Int
      BY <1>3, <2>2
    <2> QED
      BY <1>3, <2>1, <2>2, <2>3
  <1> QED
    BY <1>2, <1>3 DEF OrderedLoose, OverPlace

(* The last place is new.                                                  *)
LEMMA LastNew ==
  ASSUME DegreeOK, NEW n \in Nat, NEW m \in 1..n, NEW T \in [1..n -> Int], OrderedTo(T, m - 1)
  PROVE  OrderedUp(T, m, m)
  <1>1. \A i \in 2..m : HPARENT(i) < i
    BY ParentAbove
  <1> QED
    BY <1>1 DEF OrderedTo, OrderedUp, OverPlace

(* No time is less than that at the root.                                  *)
LEMMA RootFirst ==
  ASSUME DegreeOK, NEW n \in Nat, NEW T \in [1..n -> Int], OrderedTo(T, n)
  PROVE  \A i \in 1..n : T[1] <= T[i]
  <1> DEFINE S == {m \in 0..n : \A i \in 1..m : T[1] <= T[i]}
  <1>1. 0 \in S
    OBVIOUS
  <1>2. ASSUME NEW m \in 1..n, m - 1 \in S PROVE m \in S
    <2>1. CASE m = 1
      BY <2>1
    <2>2. CASE m # 1
      <3>1. HPARENT(m) \in 1..(m - 1) /\ m \in 2..n /\ HPARENT(m) \in 1..n /\ 1 \in 1..n
        BY <2>2, ParentAbove
      <3>2. T[HPARENT(m)] <= T[m]
        BY <3>1 DEF OrderedTo, InOrder
      <3>3. T[1] <= T[HPARENT(m)]
        BY <1>2, <3>1
      <3>4. T[1] \in Int /\ T[m] \in Int /\ T[HPARENT(m)] \in Int
        BY <3>1
      <3>5. T[1] <= T[m]
        BY <3>2, <3>3, <3>4
      <3>6. \A i \in 1..m : i = m \/ i \in 1..(m - 1)
        OBVIOUS
      <3> QED
        BY <1>2, <3>5, <3>6
    <2> QED
      BY <2>1, <2>2
  <1> HIDE DEF S
  <1>3. 0..n \subseteq S
    BY <1>1, <1>2, UpTo
  <1>4. n \in S
    BY <1>3
  <1> QED
    BY <1>4 DEF S

(* Of several places one has the least time, the first of several.         *)
FirstLeast(T, S, c) == \A d \in S : T[c] < T[d] \/ (T[c] = T[d] /\ c <= d)
LEMMA SomeLeast ==
  ASSUME NEW n \in Nat, NEW T \in [1..n -> Int], NEW S \in SUBSET (1..n), S # {}
  PROVE  \E c \in S : FirstLeast(T, S, c)
  <1> DEFINE M == {m \in 0..n : \A R \in SUBSET (1..m) : R # {} => \E c \in R : FirstLeast(T, R, c)}
  <1>1. 0 \in M
    <2>1. \A R \in SUBSET (1..0) : R = {}
      OBVIOUS
    <2>2. 0 \in 0..n
      OBVIOUS
    <2> QED
      BY <2>1, <2>2
  <1>2. ASSUME NEW m \in 1..n, m - 1 \in M PROVE m \in M
    <2>1. ASSUME NEW R \in SUBSET (1..m), R # {} PROVE \E c \in R : FirstLeast(T, R, c)
      <3> DEFINE Q == R \ {m}
      <3>1. Q \in SUBSET (1..(m - 1)) /\ \A x \in R : x \in 1..n
        OBVIOUS
      <3>2. CASE m \notin R
        <4>1. R \in SUBSET (1..(m - 1))
          BY <3>2
        <4> QED
          BY <1>2, <2>1, <4>1
      <3>3. CASE Q = {}
        <4>1. R = {m}
          BY <2>1, <3>3
        <4>2. m \in R /\ \A d \in R : d = m
          BY <4>1
        <4>3. FirstLeast(T, R, m)
          BY <4>2 DEF FirstLeast
        <4> QED
          BY <4>2, <4>3
      <3>4. CASE m \in R /\ Q # {}
        <4>1. PICK c \in Q : FirstLeast(T, Q, c)
          BY <1>2, <3>1, <3>4
        <4>2. c \in R /\ c < m /\ T[c] \in Int /\ T[m] \in Int
          BY <3>1, <4>1
        <4>3. \A d \in R : d = m \/ d \in Q
          OBVIOUS
        <4>4. CASE T[c] <= T[m]
          <5>1. FirstLeast(T, R, c)
            BY <3>1, <4>1, <4>2, <4>3, <4>4 DEF FirstLeast
          <5> QED
            BY <4>2, <5>1
        <4>5. CASE ~(T[c] <= T[m])
          <5>1. ASSUME NEW d \in R PROVE T[m] < T[d] \/ (T[m] = T[d] /\ m <= d)
            <6>1. CASE d = m
              BY <3>1, <6>1
            <6>2. CASE d # m
              <7>1. T[c] <= T[d] /\ T[d] \in Int
                BY <3>1, <4>1, <6>2 DEF FirstLeast
              <7> QED
                BY <4>2, <4>5, <7>1
            <6> QED
              BY <6>1, <6>2
          <5> QED
            BY <3>4, <5>1 DEF FirstLeast
        <4> QED
          BY <4>4, <4>5
      <3> QED
        BY <3>2, <3>3, <3>4
    <2> QED
      BY <1>2, <2>1
  <1> HIDE DEF M
  <1>3. 0..n \subseteq M
    BY <1>1, <1>2, UpTo
  <1>4. n \in M
    BY <1>3
  <1> QED
    BY <1>4 DEF M

(* An entry is put into a place.                                           *)
Ent(W) == [w : W, at : Int]
Heaps(W) == [ent : Seq(Ent(W)), active : [W -> Nat]]
Ats(h) == [i \in 1..Len(h.ent) |-> h.ent[i].at]
IsPut(W, h, k, he, V) ==
  /\ V \in Heaps(W) /\ Len(V.ent) = Len(h.ent)
  /\ \A i \in 1..Len(h.ent) : V.ent[i] = IF i = k THEN he ELSE h.ent[i]
  /\ \A u \in W : V.active[u] = IF u = he.w THEN k ELSE h.active[u]

LEMMA PutEffect ==
  ASSUME NEW W, NEW h \in Heaps(W), NEW k \in 1..Len(h.ent), NEW he \in Ent(W), NEW V,
         V = Put(h, k, he)
  PROVE  IsPut(W, h, k, he, V)
  <1> DEFINE e == [h.ent EXCEPT ![k] = he]
             a == [h.active EXCEPT ![he.w] = k]
  <1>1. h.ent \in Seq(Ent(W)) /\ h.active \in [W -> Nat] /\ he.w \in W /\ k \in Nat
    BY DEF Heaps, Ent
  <1>2. /\ e \in Seq(Ent(W)) /\ Len(e) = Len(h.ent)
        /\ \A i \in 1..Len(h.ent) : e[i] = IF i = k THEN he ELSE h.ent[i]
    BY <1>1, ExceptSeq
  <1>3. a \in [W -> Nat] /\ \A u \in W : a[u] = IF u = he.w THEN k ELSE h.active[u]
    BY <1>1
  <1>4. V = [ent |-> e, active |-> a]
    BY DEF Put
  <1> HIDE DEF e, a
  <1>5. V \in Heaps(W) /\ V.ent = e /\ V.active = a
    BY <1>2, <1>3, <1>4 DEF Heaps
  <1> QED
    BY <1>2, <1>3, <1>5 DEF IsPut

(* The heap h holds the watchers A, each in its place, with their times a; *)
(* those of Z have no place.                                               *)
EntryHoused(h, A, a, i) ==
  /\ h.ent[i].w \in A /\ h.active[h.ent[i].w] = i /\ h.ent[i].at = a[h.ent[i].w]
PlaceKnown(h, u) == h.active[u] \in 1..Len(h.ent) /\ h.ent[h.active[u]].w = u
Housed(W, h, A, Z, a) ==
  /\ h \in Heaps(W) /\ A \subseteq W /\ Z \subseteq W
  /\ \A i \in 1..Len(h.ent) : EntryHoused(h, A, a, i)
  /\ \A u \in A : PlaceKnown(h, u)
  /\ \A u \in Z : h.active[u] = 0

(* A hole at x.k of x.h, to be filled by he, moves to place p.             *)
AtHole(W, n, A, Z, a, he, x) ==
  /\ x \in [h : Heaps(W), k : 1..n] /\ Len(x.h.ent) = n
  /\ Housed(W, Put(x.h, x.k, he), A, Z, a)
HoleMoved(n, he, x, y) ==
  Swapped(Ats(Put(x.h, x.k, he)), Ats(Put(y.h, y.k, he)), x.k, y.k, n)

LEMMA AtsType ==
  ASSUME NEW W, NEW h \in Heaps(W), NEW n, n = Len(h.ent)
  PROVE  n \in Nat /\ Ats(h) \in [1..n -> Int] /\ \A i \in 1..n : Ats(h)[i] = h.ent[i].at
  <1>1. h.ent \in Seq(Ent(W))
    BY DEF Heaps
  <1>2. \A i \in 1..n : h.ent[i] \in Ent(W)
    BY <1>1, ElementOfSeq
  <1>3. n \in Nat /\ \A i \in 1..n : h.ent[i].at \in Int
    BY <1>1, <1>2 DEF Ent
  <1> QED
    BY <1>3 DEF Ats

LEMMA HoleMoves ==
  ASSUME NEW W, NEW n, NEW A, NEW Z, NEW a, NEW he \in Ent(W), NEW x, AtHole(W, n, A, Z, a, he, x),
         NEW p \in 1..n, p # x.k, NEW y, y = [h |-> Put(x.h, x.k, x.h.ent[p]), k |-> p]
  PROVE  AtHole(W, n, A, Z, a, he, y) /\ HoleMoved(n, he, x, y)
  <1> DEFINE h == x.h
             k == x.k
             e == h.ent[p]
             V == Put(h, k, he)
             g == Put(h, k, e)
             U == Put(g, p, he)
  <1>1. h \in Heaps(W) /\ k \in 1..n /\ Len(h.ent) = n /\ Housed(W, V, A, Z, a) /\ p # k
    BY DEF AtHole
  <1>2. y.h = g /\ y.k = p /\ y = [h |-> g, k |-> p]
    OBVIOUS
  <1>3. h.ent \in Seq(Ent(W)) /\ e \in Ent(W) /\ n \in Nat
    <2>1. h.ent \in Seq(Ent(W))
      BY <1>1 DEF Heaps
    <2> QED
      BY <1>1, <2>1, ElementOfSeq
  <1> HIDE DEF e, V, g, U
  <1>4. IsPut(W, h, k, he, V) /\ IsPut(W, h, k, e, g)
    BY <1>1, <1>3, PutEffect DEF V, g
  <1>5. g \in Heaps(W) /\ Len(g.ent) = n
    BY <1>1, <1>4 DEF IsPut
  <1>6. IsPut(W, g, p, he, U)
    BY <1>5, PutEffect DEF U
  <1> HIDE DEF h, k
  <1>7. V \in Heaps(W) /\ U \in Heaps(W) /\ Len(V.ent) = n /\ Len(U.ent) = n
    BY <1>1, <1>4, <1>5, <1>6 DEF IsPut
  <1>8. \A i \in 1..n : V.ent[i] = IF i = k THEN he ELSE h.ent[i]
    BY <1>1, <1>4 DEF IsPut
  <1>9. \A i \in 1..n : U.ent[i] = IF i = p THEN he ELSE IF i = k THEN e ELSE h.ent[i]
    BY <1>1, <1>4, <1>5, <1>6 DEF IsPut
  <1>10. \A u \in W : V.active[u] = IF u = he.w THEN k ELSE h.active[u]
    BY <1>4 DEF IsPut
  <1>11. \A u \in W : U.active[u] = IF u = he.w THEN p ELSE IF u = e.w THEN k ELSE h.active[u]
    BY <1>4, <1>6 DEF IsPut
  <1>12. /\ A \subseteq W /\ Z \subseteq W
         /\ \A i \in 1..n : EntryHoused(V, A, a, i)
         /\ \A u \in A : PlaceKnown(V, u)
         /\ \A u \in Z : V.active[u] = 0
    BY <1>1, <1>7 DEF Housed
  <1>13. V.ent[k] = he /\ V.ent[p] = e /\ U.ent[p] = he /\ U.ent[k] = e
    BY <1>1, <1>8, <1>9 DEF e
  <1>14. /\ he.w \in A /\ V.active[he.w] = k /\ he.at = a[he.w]
         /\ e.w \in A /\ V.active[e.w] = p /\ e.at = a[e.w]
    BY <1>1, <1>12, <1>13 DEF EntryHoused
  <1>15. e.w # he.w /\ he.w \in W /\ e.w \in W
    BY <1>1, <1>12, <1>14
  <1>16. U.active[he.w] = p /\ U.active[e.w] = k
    BY <1>11, <1>15
  <1>17. \A u \in W : u # he.w /\ u # e.w => U.active[u] = V.active[u]
    BY <1>10, <1>11
  <1>18. \A i \in 1..n : i # k /\ i # p => U.ent[i] = V.ent[i]
    BY <1>8, <1>9
  <1>19. ASSUME NEW i \in 1..n PROVE EntryHoused(U, A, a, i)
    <2>1. CASE i = p
      BY <1>13, <1>14, <1>16, <2>1 DEF EntryHoused
    <2>2. CASE i = k
      BY <1>13, <1>14, <1>16, <2>2 DEF EntryHoused
    <2>3. CASE i # p /\ i # k
      <3>1. EntryHoused(V, A, a, i) /\ U.ent[i] = V.ent[i]
        BY <1>12, <1>18, <2>3
      <3>2. V.active[V.ent[i].w] = i /\ V.ent[i].w \in A
        BY <3>1 DEF EntryHoused
      <3>3. U.active[V.ent[i].w] = i
        BY <1>12, <1>14, <1>17, <2>3, <3>2
      <3> QED
        BY <3>1, <3>3 DEF EntryHoused
    <2> QED
      BY <2>1, <2>2, <2>3
  <1>20. ASSUME NEW u \in A PROVE PlaceKnown(U, u)
    <2>1. CASE u = he.w
      BY <1>7, <1>13, <1>16, <2>1 DEF PlaceKnown
    <2>2. CASE u = e.w
      BY <1>1, <1>7, <1>13, <1>16, <2>2 DEF PlaceKnown
    <2>3. CASE u # he.w /\ u # e.w
      <3>1. V.active[u] \in 1..n /\ V.ent[V.active[u]].w = u
        BY <1>7, <1>12 DEF PlaceKnown
      <3>2. V.active[u] # k /\ V.active[u] # p
        BY <1>13, <2>3, <3>1
      <3>3. U.active[u] = V.active[u] /\ U.ent[V.active[u]] = V.ent[V.active[u]]
        BY <1>12, <1>17, <1>18, <2>3, <3>1, <3>2
      <3> QED
        BY <1>7, <3>1, <3>3 DEF PlaceKnown
    <2> QED
      BY <2>1, <2>2, <2>3
  <1>21. ASSUME NEW u \in Z PROVE U.active[u] = 0
    <2>1. V.active[u] = 0 /\ u \in W /\ k # 0 /\ p # 0
      BY <1>1, <1>12
    <2> QED
      BY <1>14, <1>17, <2>1
  <1>22. Housed(W, U, A, Z, a)
    BY <1>7, <1>12, <1>19, <1>20, <1>21 DEF Housed
  <1>23. AtHole(W, n, A, Z, a, he, y)
    BY <1>2, <1>5, <1>22 DEF AtHole, U
  <1>24. Swapped(Ats(V), Ats(U), k, p, n)
    <2>1. \A i \in 1..n : Ats(V)[i] = V.ent[i].at /\ Ats(U)[i] = U.ent[i].at
      BY <1>7, AtsType
    <2> QED
      BY <1>1, <1>13, <1>18, <2>1 DEF Swapped
  <1> QED
    BY <1>2, <1>23, <1>24 DEF HoleMoved, h, k, V, U

(* upheap: the hole moves towards the root.                                *)
HeapTo(W, n, A, Z, a, m, R) ==
  Housed(W, R, A, Z, a) /\ Len(R.ent) = n /\ OrderedTo(Ats(R), m)
UpFit(he, x) == x.k = 1 \/ x.h.ent[HPARENT(x.k)].at <= he.at
UpOne(he, x) ==
  IF UpFit(he, x) THEN x
  ELSE [h |-> Put(x.h, x.k, x.h.ent[HPARENT(x.k)]), k |-> HPARENT(x.k)]
UpTowards(W, n, A, Z, a, he, m, x) ==
  AtHole(W, n, A, Z, a, he, x) /\ x.k <= m /\ OrderedUp(Ats(Put(x.h, x.k, he)), x.k, m)

(* The heap at the hole, with he in its place                              *)
LEMMA AtHoleTimes ==
  ASSUME NEW W, NEW n, NEW A, NEW Z, NEW a, NEW he \in Ent(W), NEW x, AtHole(W, n, A, Z, a, he, x)
  PROVE  /\ n \in Nat /\ x.k \in 1..n
         /\ Ats(Put(x.h, x.k, he)) \in [1..n -> Int] /\ Len(Put(x.h, x.k, he).ent) = n
         /\ Ats(Put(x.h, x.k, he))[x.k] = he.at
         /\ \A i \in 1..n : i # x.k => Ats(Put(x.h, x.k, he))[i] = x.h.ent[i].at
  <1> DEFINE V == Put(x.h, x.k, he)
  <1>1. x.h \in Heaps(W) /\ x.k \in 1..n /\ Len(x.h.ent) = n
    BY DEF AtHole
  <1>2. IsPut(W, x.h, x.k, he, V)
    BY <1>1, PutEffect
  <1> HIDE DEF V
  <1>3. V \in Heaps(W) /\ Len(V.ent) = n
    BY <1>1, <1>2 DEF IsPut
  <1>4. n \in Nat /\ Ats(V) \in [1..n -> Int] /\ \A i \in 1..n : Ats(V)[i] = V.ent[i].at
    BY <1>3, AtsType
  <1>5. \A i \in 1..n : V.ent[i] = IF i = x.k THEN he ELSE x.h.ent[i]
    BY <1>1, <1>2 DEF IsPut
  <1> QED
    BY <1>1, <1>3, <1>4, <1>5 DEF V

LEMMA UpStep ==
  ASSUME DegreeOK, NEW W, NEW n, NEW A, NEW Z, NEW a, NEW he \in Ent(W), NEW m \in 1..n, NEW x,
         UpTowards(W, n, A, Z, a, he, m, x), ~UpFit(he, x), NEW y, y = UpOne(he, x)
  PROVE  UpTowards(W, n, A, Z, a, he, m, y) /\ y.k < x.k
  <1> DEFINE k == x.k
             p == HPARENT(k)
             T == Ats(Put(x.h, x.k, he))
             S == Ats(Put(y.h, y.k, he))
  <1>1. AtHole(W, n, A, Z, a, he, x) /\ k <= m /\ OrderedUp(T, k, m)
    BY DEF UpTowards
  <1>2. /\ n \in Nat /\ k \in 1..n /\ T \in [1..n -> Int] /\ T[k] = he.at
        /\ \A i \in 1..n : i # k => T[i] = x.h.ent[i].at
    BY <1>1, AtHoleTimes
  <1>3. k # 1 /\ ~(x.h.ent[p].at <= he.at)
    BY DEF UpFit
  <1>4. y = [h |-> Put(x.h, x.k, x.h.ent[p]), k |-> p]
    BY DEF UpOne
  <1>5. p \in 1..n /\ p < k /\ p # k
    BY <1>2, <1>3, ParentAbove
  <1> HIDE DEF p, T, S
  <1>6. AtHole(W, n, A, Z, a, he, y) /\ HoleMoved(n, he, x, y)
    BY <1>1, <1>4, <1>5, HoleMoves
  <1>12. S \in [1..n -> Int]
    BY ONLY <1>6, AtHoleTimes, he \in Ent(W) DEF S
  <1>7. S \in [1..n -> Int] /\ y.k = p
    BY <1>4, <1>12
  <1>8. Swapped(T, S, k, p, n)
    BY <1>6, <1>7 DEF HoleMoved, T, S
  <1>9. T[k] < T[p]
    BY <1>2, <1>3, <1>5
  <1>10. k \in 2..m
    BY <1>1, <1>2, <1>3
  <1> HIDE DEF k
  <1>11. OrderedUp(S, p, m)
    BY <1>1, <1>2, <1>7, <1>8, <1>9, <1>10, OneUp DEF p
  <1> QED
    BY <1>1, <1>2, <1>5, <1>6, <1>7, <1>11 DEF UpTowards, S, k

LEMMA UpEnds ==
  ASSUME DegreeOK, NEW W, NEW n, NEW A, NEW Z, NEW a, NEW he \in Ent(W), NEW m \in 1..n, NEW x,
         UpTowards(W, n, A, Z, a, he, m, x), UpFit(he, x), NEW R, R = Put(x.h, x.k, he)
  PROVE  HeapTo(W, n, A, Z, a, m, R)
  <1>1. AtHole(W, n, A, Z, a, he, x) /\ x.k <= m /\ OrderedUp(Ats(R), x.k, m)
    BY DEF UpTowards
  <1>2. /\ n \in Nat /\ x.k \in 1..n /\ Ats(R) \in [1..n -> Int] /\ Ats(R)[x.k] = he.at
        /\ \A i \in 1..n : i # x.k => Ats(R)[i] = x.h.ent[i].at
        /\ Len(R.ent) = n
    BY <1>1, AtHoleTimes
  <1>3. x.k = 1 \/ Ats(R)[HPARENT(x.k)] <= Ats(R)[x.k]
    <2>1. CASE x.k = 1
      BY <2>1
    <2>2. CASE x.k # 1
      <3>1. HPARENT(x.k) \in 1..n /\ HPARENT(x.k) # x.k
        BY <1>2, <2>2, ParentAbove
      <3> QED
        BY <1>2, <2>2, <3>1 DEF UpFit
    <2> QED
      BY <2>1, <2>2
  <1>4. OrderedTo(Ats(R), m)
    BY <1>1, <1>3, UpFits
  <1> QED
    BY <1>1, <1>2, <1>4 DEF HeapTo, AtHole

LEMMA UpHoleEffect ==
  ASSUME DegreeOK, NEW W, NEW n, NEW A, NEW Z, NEW a, NEW he \in Ent(W), NEW m \in 1..n,
         NEW h0, NEW k0 \in 1..m, NEW x0, x0 = [h |-> h0, k |-> k0],
         UpTowards(W, n, A, Z, a, he, m, x0), NEW R, R = UpHole(h0, k0, he)
  PROVE  HeapTo(W, n, A, Z, a, m, R)
  <1> DEFINE V == [h : Heaps(W), k : 1..n]
             One(x) == IF x.k = 1 \/ x.h.ent[HPARENT(x.k)].at <= he.at THEN x
                       ELSE [h |-> Put(x.h, x.k, x.h.ent[HPARENT(x.k)]), k |-> HPARENT(x.k)]
             Made(f) == f = [j \in 0..k0 |->
               IF j = 0 THEN [h |-> h0, k |-> k0]
               ELSE IF f[j - 1].k = 1 \/ f[j - 1].h.ent[HPARENT(f[j - 1].k)].at <= he.at THEN f[j - 1]
               ELSE [h |-> Put(f[j - 1].h, f[j - 1].k, f[j - 1].h.ent[HPARENT(f[j - 1].k)]),
                     k |-> HPARENT(f[j - 1].k)]]
             hole == CHOOSE f : Made(f)
             Set(j) == {x \in V : /\ UpTowards(W, n, A, Z, a, he, m, x)
                                  /\ UpFit(he, x) \/ x.k <= k0 - j}
             step == [q \in V \X (1..k0) |-> One(q[1])]
             Good == [j \in 0..k0 |-> Set(j)]
  <1>0. k0 \in Nat /\ n \in Nat /\ k0 \in 1..n
    BY AtHoleTimes DEF UpTowards
  <1>1. R = Put(hole[k0].h, hole[k0].k, he)
    BY Zenon DEF UpHole
  <1>2. ASSUME NEW j \in 1..k0, NEW i, i = j - 1, NEW x \in Set(i) PROVE One(x) \in Set(j)
    <2>1. One(x) = UpOne(he, x)
      BY DEF UpOne, UpFit
    <2>2. CASE UpFit(he, x)
      BY <2>1, <2>2 DEF UpOne
    <2>3. CASE ~UpFit(he, x)
      <3> DEFINE y == UpOne(he, x)
      <3>1. UpTowards(W, n, A, Z, a, he, m, x) /\ x.k <= k0 - i
        BY <2>3
      <3> HIDE DEF y
      <3>2. UpTowards(W, n, A, Z, a, he, m, y) /\ y.k < x.k
        BY <2>3, <3>1, UpStep DEF y
      <3>3. y \in V /\ x.k \in Int /\ y.k \in Int
        BY <3>2 DEF UpTowards, AtHole
      <3>4. y.k <= k0 - j
        BY <1>0, <1>2, <3>1, <3>2, <3>3
      <3> QED
        BY <2>1, <3>2, <3>3, <3>4 DEF y
    <2> QED
      BY <2>2, <2>3
  <1>23. ASSUME NEW f, f = [j \in 0..k0 |-> IF j = 0 THEN x0 ELSE One(f[j - 1])]
         PROVE  Made(f)
    BY <1>23, Zenon
  <1>24. ASSUME NEW f, Made(f)
         PROVE  f = [j \in 0..k0 |-> IF j = 0 THEN x0 ELSE One(f[j - 1])]
    BY <1>24, Zenon
  <1> HIDE DEF One, Made
  <1>3. x0 \in Set(0)
    <2>1. x0 \in V /\ x0.k <= k0 - 0
      BY <1>0 DEF UpTowards, AtHole
    <2> QED
      BY <2>1
  <1>31. \A j : Set(j) \subseteq V
    OBVIOUS
  <1> HIDE DEF V, Set
  <1>4. Good \in [0..k0 -> SUBSET V] /\ x0 \in Good[0] /\ \A j \in 0..k0 : Good[j] = Set(j)
    BY <1>0, <1>3, <1>31
  <1>5. \A j \in 1..k0 : \A x \in V : step[<<x, j>>] = One(x)
    OBVIOUS
  <1> HIDE DEF Good, step
  <1>6. \A j \in 1..k0 : j - 1 \in 0..k0 /\ j \in 0..k0
    BY <1>0
  <1>7. \A j \in 1..k0 : \A x \in Good[j - 1] : step[<<x, j>>] \in Good[j]
    <2> TAKE j \in 1..k0
    <2> DEFINE i == j - 1
    <2>1. i \in 0..k0 /\ j \in 0..k0 /\ Good[i] = Set(i) /\ Good[j] = Set(j) /\ i = j - 1
      BY <1>4, <1>6
    <2> HIDE DEF i
    <2>2. \A x \in Set(i) : step[<<x, j>>] \in Set(j)
      BY <1>2, <1>5, <1>31, <2>1
    <2> QED
      BY <2>1, <2>2
  <1>14. Leads(k0, V, Good, x0, step)
    BY <1>0, <1>4, <1>7 DEF Leads
  <1>8. PICK f \in [0..k0 -> V] : f[0] = x0 /\ \A j \in 1..k0 : f[j] = step[<<f[j - 1], j>>]
    BY <1>14, Iteration
  <1>9. Made(f)
    <2>1. ASSUME NEW j \in 0..k0 PROVE f[j] = IF j = 0 THEN x0 ELSE One(f[j - 1])
      <3>1. CASE j = 0
        BY <1>8, <3>1
      <3>2. CASE j # 0
        <4>1. j \in 1..k0
          BY <1>0, <3>2
        <4>2. f[j - 1] \in V
          BY <1>6, <1>8, <4>1
        <4> QED
          BY <1>5, <1>8, <3>2, <4>1, <4>2
      <3> QED
        BY <3>1, <3>2
    <2>2. f = [j \in 0..k0 |-> IF j = 0 THEN x0 ELSE One(f[j - 1])]
      BY <1>8, <2>1
    <2> QED
      BY <1>23, <2>2
  <1>10. Made(hole)
    BY <1>9, Zenon
  <1> HIDE DEF hole
  <1>11. hole = [j \in 0..k0 |-> IF j = 0 THEN x0 ELSE One(hole[j - 1])]
    BY <1>10, <1>24
  <1>12. Follows(k0, hole, Good, x0, step)
    <2>1. hole[0] = x0 /\ \A j \in 1..k0 : hole[j] = One(hole[j - 1])
      BY <1>0, <1>11
    <2>2. \A j \in 1..k0 : hole[j - 1] \in Good[j - 1] => hole[j - 1] \in V
      BY <1>4, <1>6, <1>31
    <2> QED
      BY <1>5, <2>1, <2>2 DEF Follows
  <1>13. hole[k0] \in Set(k0)
    <2>1. \A j \in 0..k0 : hole[j] \in Good[j]
      BY <1>12, <1>14, IterationStays
    <2> QED
      BY <1>0, <1>4, <2>1
  <1> DEFINE x == hole[k0]
  <1>15. UpTowards(W, n, A, Z, a, he, m, x) /\ (UpFit(he, x) \/ x.k <= k0 - k0)
    BY <1>13 DEF Set
  <1>16. x.k \in 1..n
    BY <1>15 DEF UpTowards, AtHole
  <1>17. UpFit(he, x)
    BY <1>0, <1>15, <1>16
  <1>18. R = Put(x.h, x.k, he)
    BY <1>1
  <1> HIDE DEF x
  <1> QED
    BY <1>15, <1>17, <1>18, UpEnds

(* downheap: the hole moves away from the root.                            *)
DownFit(he, x) == Children(x.h, x.k) = {} \/ he.at <= x.h.ent[MinChild(x.h, x.k)].at
DownOne(he, x) ==
  IF DownFit(he, x) THEN x
  ELSE [h |-> Put(x.h, x.k, x.h.ent[MinChild(x.h, x.k)]), k |-> MinChild(x.h, x.k)]
DownTowards(W, n, A, Z, a, he, x) ==
  AtHole(W, n, A, Z, a, he, x) /\ OrderedDown(Ats(Put(x.h, x.k, he)), x.k, n)

ChildLeast(h, k) ==
  Children(h, k) # {} =>
    /\ MinChild(h, k) \in Children(h, k)
    /\ \A d \in Children(h, k) : h.ent[MinChild(h, k)].at <= h.ent[d].at

LEMMA LeastChild ==
  ASSUME DegreeOK, NEW W, NEW h \in Heaps(W), NEW n, n = Len(h.ent), NEW k \in 1..n
  PROVE  ChildSet(h, k, n) /\ ChildLeast(h, k)
  <1> DEFINE C == Children(h, k)
             T == Ats(h)
  <1>1. n \in Nat /\ T \in [1..n -> Int] /\ \A i \in 1..n : T[i] = h.ent[i].at
    BY AtsType
  <1>2. DOMAIN h.ent = 1..n /\ k \in Nat /\ k >= 1
    BY <1>1 DEF Heaps
  <1>3. ChildSet(h, k, n)
    BY <1>1, <1>2, ChildrenBelow
  <1>4. C \in SUBSET (1..n)
    BY <1>1, <1>3 DEF ChildSet
  <1>5. ASSUME C # {}
        PROVE  /\ MinChild(h, k) \in C
               /\ \A d \in C : h.ent[MinChild(h, k)].at <= h.ent[d].at
    <2> HIDE DEF C, T
    <2>1. PICK c \in C : FirstLeast(T, C, c)
      BY <1>1, <1>4, <1>5, SomeLeast
    <2>2. \A d \in C : h.ent[c].at < h.ent[d].at \/ (h.ent[c].at = h.ent[d].at /\ c <= d)
      BY <1>1, <1>4, <2>1 DEF FirstLeast
    <2> DEFINE Lst(b) ==
          \A d \in C : h.ent[b].at < h.ent[d].at \/ (h.ent[b].at = h.ent[d].at /\ b <= d)
    <2>3. MinChild(h, k) = CHOOSE b \in C : Lst(b)
      BY Zenon DEF MinChild, C
    <2>4. Lst(c)
      BY <2>2
    <2> HIDE DEF Lst
    <2>5. MinChild(h, k) \in C /\ Lst(MinChild(h, k))
      BY <2>3, <2>4, Zenon
    <2> DEFINE b == MinChild(h, k)
    <2>6. \A d \in C : h.ent[b].at < h.ent[d].at \/ h.ent[b].at = h.ent[d].at
      BY <2>5 DEF Lst
    <2>7. \A d \in C : h.ent[b].at \in Int /\ h.ent[d].at \in Int
      BY <1>1, <1>4, <2>5
    <2> HIDE DEF b
    <2>8. \A d \in C : h.ent[b].at <= h.ent[d].at
      BY <2>6, <2>7
    <2> QED
      BY <2>5, <2>8 DEF b
  <1> QED
    BY <1>3, <1>5 DEF ChildLeast

LEMMA DownStep ==
  ASSUME DegreeOK, NEW W, NEW n, NEW A, NEW Z, NEW a, NEW he \in Ent(W), NEW x,
         DownTowards(W, n, A, Z, a, he, x), ~DownFit(he, x), NEW y, y = DownOne(he, x)
  PROVE  DownTowards(W, n, A, Z, a, he, y) /\ y.k > x.k
  <1> DEFINE k == x.k
             c == MinChild(x.h, k)
             C == Children(x.h, k)
             T == Ats(Put(x.h, x.k, he))
             S == Ats(Put(y.h, y.k, he))
  <1>1. AtHole(W, n, A, Z, a, he, x) /\ OrderedDown(T, k, n)
    BY DEF DownTowards
  <1>2. /\ n \in Nat /\ k \in 1..n /\ T \in [1..n -> Int] /\ T[k] = he.at
        /\ \A i \in 1..n : i # k => T[i] = x.h.ent[i].at
    BY <1>1, AtHoleTimes
  <1>3. C # {} /\ ~(he.at <= x.h.ent[c].at)
    BY DEF DownFit
  <1>4. y = [h |-> Put(x.h, x.k, x.h.ent[c]), k |-> c]
    BY DEF DownOne
  <1>5. x.h \in Heaps(W) /\ Len(x.h.ent) = n
    BY <1>1 DEF AtHole
  <1>16. ChildSet(x.h, k, n) /\ ChildLeast(x.h, k)
    BY <1>2, <1>5, LeastChild
  <1>6. /\ \A d : d \in C <=> d \in 2..n /\ HPARENT(d) = k
        /\ c \in C /\ \A d \in C : x.h.ent[c].at <= x.h.ent[d].at
    BY <1>3, <1>16 DEF ChildSet, ChildLeast
  <1> HIDE DEF c, C, T, S
  <1>7. c \in 2..n /\ c \in 1..n /\ HPARENT(c) = k
    BY <1>2, <1>6
  <1>8. \A d \in 2..n : HPARENT(d) = k => d # k /\ d \in 1..n
    BY ParentAbove
  <1>9. AtHole(W, n, A, Z, a, he, y) /\ HoleMoved(n, he, x, y)
    BY <1>1, <1>4, <1>7, <1>8, HoleMoves
  <1>17. S \in [1..n -> Int]
    BY ONLY <1>9, AtHoleTimes, he \in Ent(W) DEF S
  <1>10. S \in [1..n -> Int] /\ y.k = c
    BY <1>4, <1>17
  <1>11. Swapped(T, S, k, c, n)
    BY <1>9, <1>10 DEF HoleMoved, T, S
  <1>12. T[c] = x.h.ent[c].at /\ T[c] \in Int /\ T[k] \in Int
    BY <1>2, <1>7, <1>8
  <1>13. T[c] < T[k]
    BY <1>2, <1>3, <1>12
  <1>14. \A d \in 2..n : HPARENT(d) = k => T[c] <= T[d]
    BY <1>2, <1>6, <1>8, <1>12
  <1> HIDE DEF k
  <1>15. c > k /\ OrderedDown(S, c, n)
    BY <1>1, <1>2, <1>7, <1>10, <1>11, <1>13, <1>14, OneDown
  <1> QED
    BY <1>9, <1>10, <1>15 DEF DownTowards, S, k

LEMMA DownEnds ==
  ASSUME DegreeOK, NEW W, NEW n, NEW A, NEW Z, NEW a, NEW he \in Ent(W), NEW x,
         DownTowards(W, n, A, Z, a, he, x), DownFit(he, x), NEW R, R = Put(x.h, x.k, he)
  PROVE  HeapTo(W, n, A, Z, a, n, R)
  <1>1. AtHole(W, n, A, Z, a, he, x) /\ OrderedDown(Ats(R), x.k, n)
    BY DEF DownTowards
  <1>2. /\ n \in Nat /\ x.k \in 1..n /\ Ats(R) \in [1..n -> Int] /\ Ats(R)[x.k] = he.at
        /\ \A i \in 1..n : i # x.k => Ats(R)[i] = x.h.ent[i].at
        /\ Len(R.ent) = n
    BY <1>1, AtHoleTimes
  <1>3. x.h \in Heaps(W) /\ Len(x.h.ent) = n
    BY <1>1 DEF AtHole
  <1>4. ASSUME NEW d \in 2..n, HPARENT(d) = x.k PROVE Ats(R)[x.k] <= Ats(R)[d]
    <2> DEFINE c == MinChild(x.h, x.k)
    <2>6. ChildSet(x.h, x.k, n) /\ ChildLeast(x.h, x.k)
      BY <1>2, <1>3, LeastChild
    <2>1. d \in Children(x.h, x.k)
      BY <1>4, <2>6 DEF ChildSet
    <2>2. c \in Children(x.h, x.k) /\ x.h.ent[c].at <= x.h.ent[d].at
      BY <2>1, <2>6 DEF ChildLeast
    <2>3. c \in 2..n /\ HPARENT(c) = x.k
      BY <2>2, <2>6 DEF ChildSet
    <2>4. he.at <= x.h.ent[c].at
      BY <2>1 DEF DownFit
    <2> HIDE DEF c
    <2>5. d # x.k /\ c # x.k /\ d \in 1..n /\ c \in 1..n
      BY <1>4, <2>3, ParentAbove
    <2> QED
      BY <1>2, <2>2, <2>4, <2>5
  <1>5. OrderedTo(Ats(R), n)
    BY <1>1, <1>4, DownFits
  <1> QED
    BY <1>1, <1>2, <1>5 DEF HeapTo, AtHole

LEMMA DownHoleEffect ==
  ASSUME DegreeOK, NEW W, NEW n, NEW A, NEW Z, NEW a, NEW he \in Ent(W),
         NEW h0, NEW k0 \in 1..n, NEW x0, x0 = [h |-> h0, k |-> k0],
         DownTowards(W, n, A, Z, a, he, x0), NEW R, R = DownHole(h0, k0, he)
  PROVE  HeapTo(W, n, A, Z, a, n, R)
  <1> DEFINE N == Len(h0.ent)
             V == [h : Heaps(W), k : 1..n]
             One(x) == IF Children(x.h, x.k) = {} \/ he.at <= x.h.ent[MinChild(x.h, x.k)].at THEN x
                       ELSE [h |-> Put(x.h, x.k, x.h.ent[MinChild(x.h, x.k)]),
                             k |-> MinChild(x.h, x.k)]
             Made(f) == f = [j \in 0..N |->
               IF j = 0 THEN [h |-> h0, k |-> k0]
               ELSE IF \/ Children(f[j - 1].h, f[j - 1].k) = {}
                       \/ he.at <= f[j - 1].h.ent[MinChild(f[j - 1].h, f[j - 1].k)].at
                 THEN f[j - 1]
               ELSE [h |-> Put(f[j - 1].h, f[j - 1].k,
                               f[j - 1].h.ent[MinChild(f[j - 1].h, f[j - 1].k)]),
                     k |-> MinChild(f[j - 1].h, f[j - 1].k)]]
             hole == CHOOSE f : Made(f)
             Set(j) == {x \in V : /\ DownTowards(W, n, A, Z, a, he, x)
                                  /\ DownFit(he, x) \/ x.k >= k0 + j}
             step == [q \in V \X (1..N) |-> One(q[1])]
             Good == [j \in 0..N |-> Set(j)]
  <1>0. k0 \in Nat /\ n \in Nat /\ k0 \in 1..n /\ N = n
    BY AtHoleTimes DEF DownTowards, AtHole
  <1>1. R = Put(hole[N].h, hole[N].k, he)
    BY Zenon DEF DownHole
  <1>2. ASSUME NEW j \in 1..N, NEW i, i = j - 1, NEW x \in Set(i) PROVE One(x) \in Set(j)
    <2>1. One(x) = DownOne(he, x)
      BY DEF DownOne, DownFit
    <2>2. CASE DownFit(he, x)
      BY <2>1, <2>2 DEF DownOne
    <2>3. CASE ~DownFit(he, x)
      <3> DEFINE y == DownOne(he, x)
      <3>1. DownTowards(W, n, A, Z, a, he, x) /\ x.k >= k0 + i
        BY <2>3
      <3> HIDE DEF y
      <3>2. DownTowards(W, n, A, Z, a, he, y) /\ y.k > x.k
        BY <2>3, <3>1, DownStep DEF y
      <3>3. y \in V /\ x.k \in Int /\ y.k \in Int
        BY <3>2 DEF DownTowards, AtHole
      <3>4. y.k >= k0 + j
        BY <1>0, <1>2, <3>1, <3>2, <3>3
      <3> QED
        BY <2>1, <3>2, <3>3, <3>4 DEF y
    <2> QED
      BY <2>2, <2>3
  <1>23. ASSUME NEW f, f = [j \in 0..N |-> IF j = 0 THEN x0 ELSE One(f[j - 1])]
         PROVE  Made(f)
    BY <1>23, Zenon
  <1>24. ASSUME NEW f, Made(f)
         PROVE  f = [j \in 0..N |-> IF j = 0 THEN x0 ELSE One(f[j - 1])]
    BY <1>24, Zenon
  <1> HIDE DEF One, Made
  <1>3. x0 \in Set(0)
    <2>1. x0 \in V /\ x0.k >= k0 + 0
      BY <1>0 DEF DownTowards, AtHole
    <2> QED
      BY <2>1
  <1>31. \A j : Set(j) \subseteq V
    OBVIOUS
  <1> HIDE DEF V, Set
  <1>4. Good \in [0..N -> SUBSET V] /\ x0 \in Good[0] /\ \A j \in 0..N : Good[j] = Set(j)
    BY <1>0, <1>3, <1>31
  <1>5. \A j \in 1..N : \A x \in V : step[<<x, j>>] = One(x)
    OBVIOUS
  <1> HIDE DEF Good, step, N
  <1>6. \A j \in 1..N : j - 1 \in 0..N /\ j \in 0..N
    BY <1>0
  <1>7. \A j \in 1..N : \A x \in Good[j - 1] : step[<<x, j>>] \in Good[j]
    <2> TAKE j \in 1..N
    <2> DEFINE i == j - 1
    <2>1. i \in 0..N /\ j \in 0..N /\ Good[i] = Set(i) /\ Good[j] = Set(j) /\ i = j - 1
      BY <1>4, <1>6
    <2> HIDE DEF i
    <2>2. \A x \in Set(i) : step[<<x, j>>] \in Set(j)
      BY <1>2, <1>5, <1>31, <2>1
    <2> QED
      BY <2>1, <2>2
  <1>14. Leads(N, V, Good, x0, step)
    BY <1>0, <1>4, <1>7 DEF Leads
  <1>8. PICK f \in [0..N -> V] : f[0] = x0 /\ \A j \in 1..N : f[j] = step[<<f[j - 1], j>>]
    BY <1>14, Iteration
  <1>9. Made(f)
    <2>1. ASSUME NEW j \in 0..N PROVE f[j] = IF j = 0 THEN x0 ELSE One(f[j - 1])
      <3>1. CASE j = 0
        BY <1>8, <3>1
      <3>2. CASE j # 0
        <4>1. j \in 1..N
          BY <1>0, <3>2
        <4>2. f[j - 1] \in V
          BY <1>6, <1>8, <4>1
        <4> QED
          BY <1>5, <1>8, <3>2, <4>1, <4>2
      <3> QED
        BY <3>1, <3>2
    <2>2. f = [j \in 0..N |-> IF j = 0 THEN x0 ELSE One(f[j - 1])]
      BY <1>8, <2>1
    <2> QED
      BY <1>23, <2>2
  <1>10. Made(hole)
    BY <1>9, Zenon
  <1> HIDE DEF hole
  <1>11. hole = [j \in 0..N |-> IF j = 0 THEN x0 ELSE One(hole[j - 1])]
    BY <1>10, <1>24
  <1>12. Follows(N, hole, Good, x0, step)
    <2>1. hole[0] = x0 /\ \A j \in 1..N : hole[j] = One(hole[j - 1])
      BY <1>0, <1>11
    <2>2. \A j \in 1..N : hole[j - 1] \in Good[j - 1] => hole[j - 1] \in V
      BY <1>4, <1>6, <1>31
    <2> QED
      BY <1>5, <2>1, <2>2 DEF Follows
  <1>13. hole[N] \in Set(N)
    <2>1. \A j \in 0..N : hole[j] \in Good[j]
      BY <1>12, <1>14, IterationStays
    <2> QED
      BY <1>0, <1>4, <2>1
  <1> DEFINE x == hole[N]
  <1>15. DownTowards(W, n, A, Z, a, he, x) /\ (DownFit(he, x) \/ x.k >= k0 + N)
    BY <1>13 DEF Set
  <1>16. x.k \in 1..n
    BY <1>15 DEF DownTowards, AtHole
  <1>17. DownFit(he, x)
    BY <1>0, <1>15, <1>16
  <1>18. R = Put(x.h, x.k, he)
    BY <1>1
  <1> HIDE DEF x
  <1> QED
    BY <1>15, <1>17, <1>18, DownEnds

(* A heap whose entries are right but perhaps for the place of the watcher *)
(* of entry k, which upheap and downheap tell it                           *)
EntryReady(h, A, a, k, i) ==
  /\ h.ent[i].w \in A /\ h.ent[i].at = a[h.ent[i].w]
  /\ i # k => h.active[h.ent[i].w] = i /\ h.ent[i].w # h.ent[k].w
ReadyAt(W, n, A, Z, a, h, k) ==
  /\ h \in Heaps(W) /\ Len(h.ent) = n /\ k \in 1..n /\ A \subseteq W /\ Z \subseteq W \ A
  /\ \A i \in 1..n : EntryReady(h, A, a, k, i)
  /\ \A u \in A : u = h.ent[k].w \/ PlaceKnown(h, u)
  /\ \A u \in Z : h.active[u] = 0

LEMMA ReadyHoused ==
  ASSUME NEW W, NEW n, NEW A, NEW Z, NEW a, NEW h, NEW k, ReadyAt(W, n, A, Z, a, h, k),
         NEW he, he = h.ent[k], NEW x, x = [h |-> h, k |-> k]
  PROVE  /\ he \in Ent(W) /\ n \in Nat /\ k \in 1..n /\ AtHole(W, n, A, Z, a, he, x)
         /\ Ats(Put(x.h, x.k, he)) = Ats(h) /\ Ats(h) \in [1..n -> Int]
         /\ \A i \in 1..n : Ats(h)[i] = h.ent[i].at
  <1> DEFINE V == Put(h, k, he)
  <1>1. h \in Heaps(W) /\ Len(h.ent) = n /\ k \in 1..n /\ A \subseteq W /\ Z \subseteq W \ A
    BY DEF ReadyAt
  <1>2. n \in Nat /\ Ats(h) \in [1..n -> Int] /\ \A i \in 1..n : Ats(h)[i] = h.ent[i].at
    BY <1>1, AtsType
  <1>3. he \in Ent(W)
    <2>1. h.ent \in Seq(Ent(W))
      BY <1>1 DEF Heaps
    <2> QED
      BY <1>1, <2>1, ElementOfSeq
  <1>4. IsPut(W, h, k, he, V)
    BY <1>1, <1>3, PutEffect
  <1> HIDE DEF V
  <1>5. /\ V \in Heaps(W) /\ Len(V.ent) = n /\ \A i \in 1..n : V.ent[i] = h.ent[i]
        /\ \A u \in W : V.active[u] = IF u = he.w THEN k ELSE h.active[u]
    BY <1>1, <1>4 DEF IsPut
  <1>6. ASSUME NEW i \in 1..n PROVE EntryHoused(V, A, a, i)
    <2>1. EntryReady(h, A, a, k, i)
      BY DEF ReadyAt
    <2>2. h.ent[i].w \in A /\ h.ent[i].w \in W
      BY <1>1, <2>1 DEF EntryReady
    <2>3. CASE i = k
      BY <1>5, <2>1, <2>2, <2>3 DEF EntryHoused, EntryReady
    <2>4. CASE i # k
      BY <1>5, <2>1, <2>2, <2>4 DEF EntryHoused, EntryReady
    <2> QED
      BY <2>3, <2>4
  <1>7. he.w \in A
    BY <1>1, <1>5, <1>6 DEF EntryHoused
  <1>8. ASSUME NEW u \in A PROVE PlaceKnown(V, u)
    <2>1. CASE u = he.w
      BY <1>1, <1>5, <2>1 DEF PlaceKnown
    <2>2. CASE u # he.w
      <3>1. PlaceKnown(h, u)
        BY <2>2 DEF ReadyAt
      <3>2. V.active[u] = h.active[u]
        BY <1>1, <1>5, <2>2
      <3> QED
        BY <1>1, <1>5, <3>1, <3>2 DEF PlaceKnown
    <2> QED
      BY <2>1, <2>2
  <1>9. ASSUME NEW u \in Z PROVE V.active[u] = 0
    <2>1. u \in W /\ u # he.w /\ h.active[u] = 0
      BY <1>1, <1>7 DEF ReadyAt
    <2> QED
      BY <1>5, <2>1
  <1>10. Housed(W, V, A, Z, a)
    BY <1>1, <1>5, <1>6, <1>8, <1>9 DEF Housed
  <1>11. AtHole(W, n, A, Z, a, he, x)
    BY <1>1, <1>10 DEF AtHole, V
  <1>12. Ats(V) = Ats(h)
    BY <1>1, <1>5 DEF Ats
  <1>13. Ats(Put(x.h, x.k, he)) = Ats(h)
    BY <1>12 DEF V
  <1> QED
    BY <1>1, <1>2, <1>3, <1>11, <1>13

LEMMA UpheapKeeps ==
  ASSUME DegreeOK, NEW W, NEW n, NEW A, NEW Z, NEW a, NEW h, NEW k, ReadyAt(W, n, A, Z, a, h, k),
         NEW m \in 1..n, k <= m, OrderedUp(Ats(h), k, m), NEW R, R = upheap(h, k)
  PROVE  HeapTo(W, n, A, Z, a, m, R)
  <1> DEFINE he == h.ent[k]
             x == [h |-> h, k |-> k]
  <1>1. R = UpHole(h, k, he)
    BY DEF upheap
  <1>2. x = [h |-> h, k |-> k] /\ he = h.ent[k] /\ x.k = k
    OBVIOUS
  <1> HIDE DEF he, x
  <1>3. /\ he \in Ent(W) /\ n \in Nat /\ k \in 1..n /\ AtHole(W, n, A, Z, a, he, x)
        /\ Ats(Put(x.h, x.k, he)) = Ats(h)
    BY <1>2, ReadyHoused
  <1>4. UpTowards(W, n, A, Z, a, he, m, x)
    BY <1>2, <1>3 DEF UpTowards
  <1>5. k \in 1..m
    BY <1>3
  <1> QED
    BY <1>1, <1>2, <1>3, <1>4, <1>5, UpHoleEffect

LEMMA DownheapKeeps ==
  ASSUME DegreeOK, NEW W, NEW n, NEW A, NEW Z, NEW a, NEW h, NEW k, ReadyAt(W, n, A, Z, a, h, k),
         OrderedDown(Ats(h), k, n), NEW R, R = downheap(h, k)
  PROVE  HeapTo(W, n, A, Z, a, n, R)
  <1> DEFINE he == h.ent[k]
             x == [h |-> h, k |-> k]
  <1>1. R = DownHole(h, k, he)
    BY DEF downheap
  <1>2. x = [h |-> h, k |-> k] /\ he = h.ent[k] /\ x.k = k
    OBVIOUS
  <1> HIDE DEF he, x
  <1>3. /\ he \in Ent(W) /\ n \in Nat /\ k \in 1..n /\ AtHole(W, n, A, Z, a, he, x)
        /\ Ats(Put(x.h, x.k, he)) = Ats(h)
    BY <1>2, ReadyHoused
  <1>4. DownTowards(W, n, A, Z, a, he, x)
    BY <1>2, <1>3 DEF DownTowards
  <1> QED
    BY <1>1, <1>2, <1>3, <1>4, DownHoleEffect

LEMMA AdjustKeeps ==
  ASSUME DegreeOK, NEW W, NEW n, NEW A, NEW Z, NEW a, NEW h, NEW k, ReadyAt(W, n, A, Z, a, h, k),
         OrderedLoose(Ats(h), k, n), NEW R, R = adjustheap(h, k)
  PROVE  HeapTo(W, n, A, Z, a, n, R)
  <1> DEFINE he == h.ent[k]
             x == [h |-> h, k |-> k]
             T == Ats(h)
  <1>1. /\ n \in Nat /\ k \in 1..n /\ T \in [1..n -> Int] /\ \A i \in 1..n : T[i] = h.ent[i].at
    <2>1. he = h.ent[k] /\ x = [h |-> h, k |-> k]
      OBVIOUS
    <2> HIDE DEF he, x
    <2> QED
      BY <2>1, ReadyHoused
  <1>2. CASE k > 1 /\ h.ent[HPARENT(k)].at >= h.ent[k].at
    <2>1. R = upheap(h, k)
      BY <1>2 DEF adjustheap
    <2>2. HPARENT(k) \in 1..n /\ k \in 2..n
      BY <1>1, <1>2, ParentAbove
    <2>3. T[HPARENT(k)] >= T[k]
      BY <1>1, <1>2, <2>2
    <2> HIDE DEF T
    <2>4. OrderedUp(T, k, n)
      BY <1>1, <2>2, <2>3, LooseUp DEF T
    <2>5. n \in 1..n /\ k <= n
      BY <1>1
    <2> QED
      BY <2>1, <2>4, <2>5, UpheapKeeps DEF T
  <1>3. CASE ~(k > 1 /\ h.ent[HPARENT(k)].at >= h.ent[k].at)
    <2>1. R = downheap(h, k)
      BY <1>3 DEF adjustheap
    <2>2. k = 1 \/ T[HPARENT(k)] <= T[k]
      <3>1. CASE k = 1
        BY <3>1
      <3>2. CASE k # 1
        <4>1. HPARENT(k) \in 1..n
          BY <1>1, <3>2, ParentAbove
        <4> QED
          BY <1>1, <1>3, <3>2, <4>1
      <3> QED
        BY <3>1, <3>2
    <2> HIDE DEF T
    <2>4. OrderedDown(T, k, n)
      BY <1>1, <2>2, LooseDown DEF T
    <2> QED
      BY <2>1, <2>4, DownheapKeeps DEF T
  <1> QED
    BY <1>2, <1>3

(* A heap that holds exactly the watchers A                                *)
Heaped(W, h, A, a) == Housed(W, h, A, W \ A, a) /\ OrderedTo(Ats(h), Len(h.ent))

LEMMA HeapSet ==
  ASSUME NEW W, NEW h \in Heaps(W), NEW e \in Seq(Ent(W)), NEW g, g = [h EXCEPT !.ent = e]
  PROVE  g \in Heaps(W) /\ g.ent = e /\ g.active = h.active
  <1>1. g = [ent |-> e, active |-> h.active]
    BY DEF Heaps
  <1> QED
    BY <1>1 DEF Heaps

LEMMA HousedParts ==
  ASSUME NEW W, NEW h, NEW A, NEW Z, NEW a, Housed(W, h, A, Z, a), NEW n, n = Len(h.ent)
  PROVE  /\ h \in Heaps(W) /\ h.ent \in Seq(Ent(W)) /\ h.active \in [W -> Nat] /\ n \in Nat
         /\ A \subseteq W /\ Z \subseteq W
         /\ \A i \in 1..n : h.ent[i] \in Ent(W)
         /\ \A i \in 1..n : EntryHoused(h, A, a, i)
         /\ \A u \in A : PlaceKnown(h, u)
         /\ \A u \in Z : h.active[u] = 0
  <1>1. h.ent \in Seq(Ent(W)) /\ h.active \in [W -> Nat]
    BY DEF Housed, Heaps
  <1>2. \A i \in 1..n : h.ent[i] \in Ent(W)
    BY <1>1, ElementOfSeq
  <1> QED
    BY <1>1, <1>2 DEF Housed

LEMMA InsertKeeps ==
  ASSUME DegreeOK, NEW W, NEW h, NEW A, NEW a, Heaped(W, h, A, a), NEW w \in W \ A, NEW t \in Int,
         NEW b, b[w] = t, \A u \in A : b[u] = a[u], NEW R, R = HeapInsert(h, w, t)
  PROVE  Heaped(W, R, A \cup {w}, b)
  <1> DEFINE n == Len(h.ent)
             he == [w |-> w, at |-> t]
             e == Append(h.ent, he)
             g == [h EXCEPT !.ent = e]
             k == n + 1
             B == A \cup {w}
  <1>1. /\ h \in Heaps(W) /\ h.ent \in Seq(Ent(W)) /\ h.active \in [W -> Nat] /\ n \in Nat
        /\ A \subseteq W
        /\ \A i \in 1..n : EntryHoused(h, A, a, i)
        /\ \A u \in A : PlaceKnown(h, u)
        /\ \A u \in W \ A : h.active[u] = 0
    <2>1. Housed(W, h, A, W \ A, a)
      BY DEF Heaped
    <2> QED
      BY <2>1, HousedParts
  <1>2. R = upheap(g, k)
    BY Zenon DEF HeapInsert
  <1>3. he \in Ent(W) /\ he.w = w /\ he.at = t
    BY DEF Ent
  <1> HIDE DEF he
  <1>4. /\ e \in Seq(Ent(W)) /\ Len(e) = k /\ e[k] = he
        /\ \A i \in 1..n : e[i] = h.ent[i]
    BY <1>1, <1>3, AppendProperties
  <1> HIDE DEF e
  <1>5. g \in Heaps(W) /\ g.ent = e /\ g.active = h.active
    BY <1>1, <1>4, HeapSet
  <1> HIDE DEF g
  <1>6. ASSUME NEW i \in 1..k PROVE EntryReady(g, B, b, k, i)
    <2>1. CASE i = k
      BY <1>3, <1>4, <1>5, <2>1 DEF EntryReady
    <2>2. CASE i # k
      <3>1. i \in 1..n
        BY <1>1, <2>2
      <3>2. EntryHoused(h, A, a, i) /\ g.ent[i] = h.ent[i]
        BY <1>1, <1>4, <1>5, <3>1
      <3>3. g.ent[k].w = w
        BY <1>3, <1>4, <1>5
      <3> QED
        BY <1>5, <3>2, <3>3 DEF EntryHoused, EntryReady
    <2> QED
      BY <2>1, <2>2
  <1>7. ASSUME NEW u \in B PROVE u = g.ent[k].w \/ PlaceKnown(g, u)
    <2>1. CASE u \in A
      <3>1. h.active[u] \in 1..n /\ h.ent[h.active[u]].w = u
        BY <1>1, <2>1 DEF PlaceKnown
      <3>2. g.active[u] \in 1..Len(g.ent)
        BY <1>1, <1>4, <1>5, <3>1
      <3> QED
        BY <1>4, <1>5, <3>1, <3>2 DEF PlaceKnown
    <2>2. CASE u = w
      BY <1>3, <1>4, <1>5, <2>2
    <2> QED
      BY <2>1, <2>2
  <1>8. k \in 1..k /\ k \in Nat
    BY <1>1
  <1>9. ReadyAt(W, k, B, W \ B, b, g, k)
    BY <1>1, <1>4, <1>5, <1>6, <1>7, <1>8 DEF ReadyAt
  <1>10. Ats(g) \in [1..k -> Int] /\ Ats(h) \in [1..n -> Int] /\ \A i \in 1..n : Ats(g)[i] = Ats(h)[i]
    <2>1. Len(g.ent) = k
      BY <1>4, <1>5
    <2>2. Ats(g) \in [1..k -> Int] /\ \A i \in 1..k : Ats(g)[i] = g.ent[i].at
      BY <1>5, <2>1, AtsType
    <2>3. Ats(h) \in [1..n -> Int] /\ \A i \in 1..n : Ats(h)[i] = h.ent[i].at
      BY <1>1, AtsType
    <2>4. \A i \in 1..n : i \in 1..k /\ g.ent[i] = h.ent[i]
      BY <1>1, <1>4, <1>5
    <2> QED
      BY <2>2, <2>3, <2>4
  <1>11. OrderedTo(Ats(g), n)
    <2>1. \A i \in 2..n : i \in 1..n /\ HPARENT(i) \in 1..n
      BY <1>1, ParentAbove
    <2> QED
      BY <1>10, <2>1 DEF Heaped, OrderedTo, InOrder
  <1>12. OrderedUp(Ats(g), k, k)
    <2>1. k - 1 = n
      BY <1>1
    <2> HIDE DEF k
    <2> QED
      BY <1>8, <1>10, <1>11, <2>1, LastNew
  <1> HIDE DEF B
  <1>13. HeapTo(W, k, B, W \ B, b, k, R)
    <2> HIDE DEF k
    <2>1. k <= k
      BY <1>8
    <2> QED
      BY <1>2, <1>8, <1>9, <1>12, <2>1, UpheapKeeps
  <1> QED
    BY <1>13 DEF HeapTo, Heaped, B

(* ev_stop forgets the place of a watcher that the entries do not hold.    *)
LEMMA PlaceForgotten ==
  ASSUME NEW W, NEW n, NEW A, NEW Z, NEW a, NEW h, HeapTo(W, n, A, Z, a, n, h), NEW w \in W \ A,
         W \ A \subseteq Z \cup {w}, NEW R, R = [h EXCEPT !.active[w] = 0]
  PROVE  Heaped(W, R, A, a)
  <1> DEFINE f == [h.active EXCEPT ![w] = 0]
  <1>1. Housed(W, h, A, Z, a) /\ Len(h.ent) = n /\ OrderedTo(Ats(h), n)
    BY DEF HeapTo
  <1>2. /\ h \in Heaps(W) /\ h.ent \in Seq(Ent(W)) /\ h.active \in [W -> Nat]
        /\ A \subseteq W /\ n \in Nat
        /\ \A i \in 1..n : EntryHoused(h, A, a, i)
        /\ \A u \in A : PlaceKnown(h, u)
        /\ \A u \in Z : h.active[u] = 0
    BY <1>1, HousedParts
  <1>3. R = [ent |-> h.ent, active |-> f]
    BY <1>2 DEF Heaps
  <1>4. f \in [W -> Nat] /\ f[w] = 0 /\ \A u \in W : u # w => f[u] = h.active[u]
    BY <1>2
  <1> HIDE DEF f
  <1>5. R \in Heaps(W) /\ R.ent = h.ent /\ R.active = f
    <2>1. R \in Heaps(W)
      BY ONLY <1>2, <1>3, <1>4 DEF Heaps
    <2> QED
      BY ONLY <1>3, <2>1
  <1>6. \A i \in 1..n : EntryHoused(R, A, a, i)
    BY <1>2, <1>4, <1>5 DEF EntryHoused
  <1>7. \A u \in A : PlaceKnown(R, u)
    BY <1>2, <1>4, <1>5 DEF PlaceKnown
  <1>8. \A u \in W \ A : R.active[u] = 0
    BY <1>2, <1>4, <1>5
  <1>9. Ats(R) = Ats(h)
    BY <1>5 DEF Ats
  <1> QED
    BY <1>1, <1>2, <1>5, <1>6, <1>7, <1>8, <1>9 DEF Heaped, Housed

LEMMA DeleteKeeps ==
  ASSUME DegreeOK, NEW W, NEW h, NEW A, NEW a, Heaped(W, h, A, a), NEW w \in A,
         NEW b, \A u \in A : u # w => b[u] = a[u], NEW R, R = HeapDelete(h, w)
  PROVE  Heaped(W, R, A \ {w}, b)
  <1> DEFINE n == Len(h.ent)
             k == h.active[w]
             e == SubSeq(h.ent, 1, n - 1)
             short == [h EXCEPT !.ent = e]
             full == [short EXCEPT !.ent[k] = h.ent[n]]
             rest == IF k < n THEN adjustheap(full, k) ELSE short
             B == A \ {w}
             m == n - 1
  <1>1. /\ h \in Heaps(W) /\ h.ent \in Seq(Ent(W)) /\ h.active \in [W -> Nat] /\ n \in Nat
        /\ A \subseteq W
        /\ \A i \in 1..n : h.ent[i] \in Ent(W)
        /\ \A i \in 1..n : EntryHoused(h, A, a, i)
        /\ \A u \in A : PlaceKnown(h, u)
        /\ \A u \in W \ A : h.active[u] = 0
        /\ OrderedTo(Ats(h), n)
    <2>1. Housed(W, h, A, W \ A, a) /\ OrderedTo(Ats(h), n)
      BY DEF Heaped
    <2> QED
      BY <2>1, HousedParts
  <1>2. R = [rest EXCEPT !.active[w] = 0]
    BY Zenon DEF HeapDelete
  <1>3. k \in 1..n /\ h.ent[k].w = w /\ m \in Nat /\ m < n
    BY <1>1 DEF PlaceKnown
  <1>4. e \in Seq(Ent(W)) /\ Len(e) = m /\ \A i \in 1..m : e[i] = h.ent[i]
    BY <1>1, <1>3
  <1>5. rest = IF k < n THEN adjustheap(full, k) ELSE short
    OBVIOUS
  <1> HIDE DEF e, k, rest
  <1>6. short \in Heaps(W) /\ short.ent = e /\ short.active = h.active
    BY <1>1, <1>4, HeapSet
  <1>7. full = [short EXCEPT !.ent = [e EXCEPT ![k] = h.ent[n]]]
    BY <1>6
  <1> HIDE DEF short, full
  <1>8. \A i \in 1..n : /\ h.ent[i].w \in A /\ h.active[h.ent[i].w] = i
                        /\ h.ent[i].at = a[h.ent[i].w]
    BY <1>1 DEF EntryHoused
  <1>9. \A u \in A : h.active[u] \in 1..n /\ h.ent[h.active[u]].w = u
    BY <1>1 DEF PlaceKnown
  <1>10. Ats(short) \in [1..m -> Int] /\ OrderedTo(Ats(short), m) /\ Len(short.ent) = m
         /\ \A i \in 1..m : Ats(short)[i] = short.ent[i].at
    <2>1. Len(short.ent) = m
      BY <1>4, <1>6
    <2>2. Ats(short) \in [1..m -> Int] /\ \A i \in 1..m : Ats(short)[i] = short.ent[i].at
      BY <1>6, <2>1, AtsType
    <2>3. \A i \in 1..n : Ats(h)[i] = h.ent[i].at
      BY <1>1, AtsType
    <2>4. \A i \in 1..m : i \in 1..n /\ Ats(short)[i] = Ats(h)[i]
      BY <1>3, <1>4, <1>6, <2>2, <2>3
    <2>5. \A i \in 2..m : i \in 1..m /\ HPARENT(i) \in 1..m /\ i \in 2..n
      BY <1>1, <1>3, ParentAbove
    <2>6. OrderedTo(Ats(short), m)
      BY <1>1, <2>4, <2>5 DEF OrderedTo, InOrder
    <2> QED
      BY <2>1, <2>2, <2>6
  <1>11. \A i \in 1..m : i \in 1..n /\ short.ent[i] = h.ent[i]
    BY <1>3, <1>4, <1>6
  <1> HIDE DEF m
  <1>12. ASSUME k < n PROVE HeapTo(W, m, B, W \ A, b, m, rest)
    <2> DEFINE d == [e EXCEPT ![k] = h.ent[n]]
    <2>1. k \in 1..m /\ n \in 1..n /\ h.ent[n] \in Ent(W)
      BY <1>1, <1>3, <1>12 DEF m
    <2>2. /\ d \in Seq(Ent(W)) /\ Len(d) = m
          /\ \A i \in 1..m : d[i] = IF i = k THEN h.ent[n] ELSE e[i]
      BY <1>4, <2>1, ExceptSeq
    <2> HIDE DEF d
    <2>13. full = [short EXCEPT !.ent = d]
      BY <1>7 DEF d
    <2>14. short \in Heaps(W) /\ d \in Seq(Ent(W))
      BY <1>6, <2>2
    <2>15. full \in Heaps(W) /\ full.ent = d /\ full.active = short.active
      BY ONLY <2>13, <2>14, HeapSet
    <2>3. full \in Heaps(W) /\ full.ent = d /\ full.active = h.active
      BY <1>6, <2>15
    <2>4. /\ \A i \in 1..m : i # k => full.ent[i] = h.ent[i]
          /\ full.ent[k] = h.ent[n]
      BY <1>4, <2>1, <2>2, <2>3
    <2>5. ASSUME NEW i \in 1..m PROVE EntryReady(full, B, b, k, i)
      <3>1. CASE i = k
        <4>1. h.ent[n].w \in B
          BY <1>3, <1>8, <1>12, <2>1
        <4>2. h.ent[n].at = b[h.ent[n].w]
          BY <1>8, <2>1, <4>1
        <4> QED
          BY <2>4, <3>1, <4>1, <4>2 DEF EntryReady
      <3>2. CASE i # k
        <4>1. full.ent[i] = h.ent[i] /\ i \in 1..n /\ i # n
          BY <1>3, <1>11, <2>4, <3>2
        <4>2. h.ent[i].w \in B
          BY <1>3, <1>8, <3>2, <4>1
        <4>3. h.ent[i].at = b[h.ent[i].w]
          BY <1>8, <4>1, <4>2
        <4>4. h.ent[i].w # h.ent[n].w
          BY <1>8, <2>1, <4>1
        <4> QED
          BY <1>8, <2>3, <2>4, <4>1, <4>2, <4>3, <4>4 DEF EntryReady
      <3> QED
        BY <3>1, <3>2
    <2>6. ASSUME NEW u \in B PROVE u = full.ent[k].w \/ PlaceKnown(full, u)
      <3>1. h.active[u] \in 1..n /\ h.ent[h.active[u]].w = u /\ h.active[u] # k
        BY <1>3, <1>9
      <3>2. CASE h.active[u] = n
        BY <2>4, <3>1, <3>2
      <3>3. CASE h.active[u] # n
        <4>1. h.active[u] \in 1..m
          BY <1>1, <3>1, <3>3 DEF m
        <4>2. full.active[u] \in 1..Len(full.ent)
          BY <2>2, <2>3, <4>1
        <4>3. full.ent[full.active[u]].w = u
          BY <2>3, <2>4, <3>1, <4>1
        <4> QED
          BY <4>2, <4>3 DEF PlaceKnown
      <3> QED
        BY <3>2, <3>3
    <2>7. Len(full.ent) = m /\ W \ A \subseteq W \ B /\ B \subseteq W
      BY <1>1, <2>2, <2>3
    <2>8. ReadyAt(W, m, B, W \ A, b, full, k)
      BY <1>1, <2>1, <2>3, <2>5, <2>6, <2>7 DEF ReadyAt
    <2>9. Ats(full) \in [1..m -> Int] /\ \A i \in 1..m : Ats(full)[i] = full.ent[i].at
      BY <2>3, <2>7, AtsType
    <2>10. \A i \in 1..m : i # k => Ats(full)[i] = Ats(short)[i]
      BY <1>10, <1>11, <2>4, <2>9
    <2>11. OrderedLoose(Ats(full), k, m)
      BY <1>3, <1>10, <2>1, <2>9, <2>10, OneReplaced
    <2>12. rest = adjustheap(full, k)
      BY <1>5, <1>12
    <2> HIDE DEF B
    <2> QED
      BY <2>8, <2>11, <2>12, AdjustKeeps
  <1>13. ASSUME ~(k < n) PROVE HeapTo(W, m, B, W \ A, b, m, rest)
    <2>1. rest = short /\ k = n
      BY <1>1, <1>3, <1>5, <1>13
    <2>2. ASSUME NEW i \in 1..m PROVE EntryHoused(short, B, b, i)
      <3>1. short.ent[i] = h.ent[i] /\ i \in 1..n /\ i # k
        BY <1>3, <1>11, <2>1
      <3>2. h.ent[i].w \in B
        BY <1>3, <1>8, <3>1
      <3>3. h.ent[i].at = b[h.ent[i].w]
        BY <1>8, <3>1, <3>2
      <3> QED
        BY <1>6, <1>8, <3>1, <3>2, <3>3 DEF EntryHoused
    <2>3. ASSUME NEW u \in B PROVE PlaceKnown(short, u)
      <3>1. h.active[u] \in 1..n /\ h.ent[h.active[u]].w = u /\ h.active[u] # n
        BY <1>3, <1>9, <2>1
      <3>2. h.active[u] \in 1..m
        BY <1>1, <3>1 DEF m
      <3> QED
        BY <1>6, <1>10, <1>11, <3>1, <3>2 DEF PlaceKnown
    <2>4. Housed(W, short, B, W \ A, b)
      BY <1>1, <1>6, <1>10, <2>2, <2>3 DEF Housed
    <2> QED
      BY <1>10, <2>1, <2>4 DEF HeapTo
  <1>14. HeapTo(W, m, B, W \ A, b, m, rest)
    BY <1>12, <1>13
  <1>15. w \in W \ B /\ W \ B \subseteq (W \ A) \cup {w}
    BY <1>1
  <1> HIDE DEF B
  <1>16. Heaped(W, R, B, b)
    BY <1>2, <1>14, <1>15, PlaceForgotten
  <1> QED
    BY <1>16 DEF B

(* The time of an active watcher is set anew, in its entry too.            *)
TimeSet(h, k, t, g) == g = [h EXCEPT !.ent[k].at = t]
SameBut(A, w, t, b, a) == b[w] = t /\ \A u \in A : u # w => b[u] = a[u]
LEMMA SetReady ==
  ASSUME DegreeOK, NEW W, NEW h, NEW A, NEW a, Heaped(W, h, A, a), NEW w \in A, NEW t \in Int,
         NEW b, SameBut(A, w, t, b, a), NEW n, n = Len(h.ent),
         NEW k, k = h.active[w], NEW g, TimeSet(h, k, t, g)
  PROVE  /\ ReadyAt(W, n, A, W \ A, b, g, k) /\ OrderedLoose(Ats(g), k, n)
         /\ k \in 1..n /\ n \in Nat /\ Ats(g) \in [1..n -> Int]
  <1> DEFINE he == [h.ent[k] EXCEPT !.at = t]
             d == [h.ent EXCEPT ![k] = he]
  <1>1. /\ h \in Heaps(W) /\ h.ent \in Seq(Ent(W)) /\ h.active \in [W -> Nat] /\ n \in Nat
        /\ A \subseteq W
        /\ \A i \in 1..n : h.ent[i] \in Ent(W)
        /\ \A i \in 1..n : EntryHoused(h, A, a, i)
        /\ \A u \in A : PlaceKnown(h, u)
        /\ \A u \in W \ A : h.active[u] = 0
        /\ OrderedTo(Ats(h), n)
    <2>1. Housed(W, h, A, W \ A, a) /\ OrderedTo(Ats(h), n)
      BY DEF Heaped
    <2> QED
      BY <2>1, HousedParts
  <1>2. k \in 1..n /\ h.ent[k].w = w
    BY <1>1 DEF PlaceKnown
  <1>3. he \in Ent(W) /\ he.w = w /\ he.at = t
    BY <1>1, <1>2 DEF Ent
  <1>4. g = [h EXCEPT !.ent = d]
    BY Zenon DEF TimeSet
  <1> HIDE DEF he
  <1>5. /\ d \in Seq(Ent(W)) /\ Len(d) = n
        /\ \A i \in 1..n : d[i] = IF i = k THEN he ELSE h.ent[i]
    BY <1>1, <1>2, <1>3, ExceptSeq
  <1> HIDE DEF d
  <1>15. h \in Heaps(W) /\ d \in Seq(Ent(W))
    BY <1>1, <1>5
  <1>6. g \in Heaps(W) /\ g.ent = d /\ g.active = h.active
    BY ONLY <1>4, <1>15, HeapSet
  <1>7. \A i \in 1..n : /\ h.ent[i].w \in A /\ h.active[h.ent[i].w] = i
                        /\ h.ent[i].at = a[h.ent[i].w]
    BY <1>1 DEF EntryHoused
  <1>8. ASSUME NEW i \in 1..n PROVE EntryReady(g, A, b, k, i)
    <2>1. CASE i = k
      BY <1>3, <1>5, <1>6, <2>1 DEF EntryReady, SameBut
    <2>2. CASE i # k
      <3>1. g.ent[i] = h.ent[i] /\ g.ent[k].w = w /\ h.ent[i].w # w
        BY <1>2, <1>3, <1>5, <1>6, <1>7, <2>2
      <3> QED
        BY <1>6, <1>7, <3>1 DEF EntryReady, SameBut
    <2> QED
      BY <2>1, <2>2
  <1>9. ASSUME NEW u \in A PROVE u = g.ent[k].w \/ PlaceKnown(g, u)
    <2>1. h.active[u] \in 1..n /\ h.ent[h.active[u]].w = u
      BY <1>1 DEF PlaceKnown
    <2> QED
      BY <1>2, <1>3, <1>5, <1>6, <2>1 DEF PlaceKnown
  <1>10. ReadyAt(W, n, A, W \ A, b, g, k)
    BY <1>1, <1>2, <1>5, <1>6, <1>8, <1>9 DEF ReadyAt
  <1>11. Ats(g) \in [1..n -> Int] /\ \A i \in 1..n : Ats(g)[i] = g.ent[i].at
    <2>1. n = Len(g.ent)
      BY <1>5, <1>6
    <2> QED
      BY ONLY <1>6, <2>1, AtsType
  <1>12. Ats(h) \in [1..n -> Int] /\ \A i \in 1..n : Ats(h)[i] = h.ent[i].at
    BY <1>1, AtsType
  <1>13. \A i \in 1..n : i # k => Ats(g)[i] = Ats(h)[i]
    <2>1. \A i \in 1..n : i # k => g.ent[i] = h.ent[i]
      BY ONLY <1>5, <1>6
    <2> QED
      BY ONLY <1>11, <1>12, <2>1
  <1>14. OrderedLoose(Ats(g), k, n)
    BY <1>1, <1>2, <1>11, <1>12, <1>13, OneReplaced
  <1> QED
    BY <1>1, <1>2, <1>10, <1>11, <1>14

LEMMA AgainKeepsHeap ==
  ASSUME DegreeOK, NEW W, NEW h, NEW A, NEW a, Heaped(W, h, A, a), NEW w \in A, NEW t \in Int,
         NEW b, SameBut(A, w, t, b, a),
         NEW k, k = h.active[w], NEW g, TimeSet(h, k, t, g),
         NEW R, R = adjustheap(g, k)
  PROVE  Heaped(W, R, A, b)
  <1> DEFINE n == Len(h.ent)
             Z == W \ A
  <1>1. n = Len(h.ent)
    OBVIOUS
  <1> HIDE DEF n
  <1>4. ReadyAt(W, n, A, W \ A, b, g, k) /\ OrderedLoose(Ats(g), k, n)
    BY <1>1, SetReady
  <1>2. ReadyAt(W, n, A, Z, b, g, k) /\ OrderedLoose(Ats(g), k, n)
    BY <1>4
  <1> HIDE DEF Z
  <1>3. HeapTo(W, n, A, Z, b, n, R)
    BY <1>2, AdjustKeeps
  <1> QED
    BY <1>3 DEF HeapTo, Heaped, Z

(* The watcher at the root is put off.                                     *)
LEMMA RootKeeps ==
  ASSUME DegreeOK, NEW W, NEW h, NEW A, NEW a, Heaped(W, h, A, a), NEW w, h.ent # <<>>,
         w = h.ent[1].w, NEW t \in Int,
         NEW b, SameBut(A, w, t, b, a),
         NEW g, TimeSet(h, 1, t, g), NEW R, R = downheap(g, 1)
  PROVE  w \in A /\ Heaped(W, R, A, b)
  <1> DEFINE n == Len(h.ent)
             Z == W \ A
             k == 1
  <1>1. n \in Nat /\ h.ent \in Seq(Ent(W)) /\ \A i \in 1..n : EntryHoused(h, A, a, i)
    <2>1. Housed(W, h, A, W \ A, a) /\ n = Len(h.ent)
      BY DEF Heaped
    <2> HIDE DEF n
    <2> QED
      BY ONLY <2>1, HousedParts
  <1>2. 1 \in 1..n
    BY <1>1
  <1>3. w \in A /\ h.active[w] = 1
    BY <1>1, <1>2 DEF EntryHoused
  <1>4. n = Len(h.ent) /\ k = h.active[w] /\ k = 1 /\ TimeSet(h, k, t, g)
    BY <1>3
  <1> HIDE DEF n, k
  <1>8. /\ ReadyAt(W, n, A, W \ A, b, g, k) /\ OrderedLoose(Ats(g), k, n)
        /\ k \in 1..n /\ n \in Nat /\ Ats(g) \in [1..n -> Int]
    <2>1. DegreeOK /\ Heaped(W, h, A, a) /\ w \in A /\ t \in Int /\ SameBut(A, w, t, b, a)
      BY <1>3
    <2>2. n = Len(h.ent) /\ k = h.active[w] /\ TimeSet(h, k, t, g)
      BY <1>4
    <2> QED
      BY ONLY <2>1, <2>2, SetReady
  <1>5. /\ ReadyAt(W, n, A, Z, b, g, k) /\ OrderedLoose(Ats(g), k, n)
        /\ k \in 1..n /\ n \in Nat /\ Ats(g) \in [1..n -> Int]
    BY <1>8
  <1> HIDE DEF Z
  <1>6. OrderedDown(Ats(g), k, n)
    <2> DEFINE T == Ats(g)
    <2>1. T \in [1..n -> Int] /\ OrderedLoose(T, k, n)
      BY <1>5
    <2> HIDE DEF T
    <2>2. OrderedDown(T, k, n)
      BY <1>4, <1>5, <2>1, LooseDown
    <2> QED
      BY <2>2 DEF T
  <1>7. HeapTo(W, n, A, Z, b, n, R)
    <2>1. R = downheap(g, k)
      BY <1>4
    <2> QED
      BY <1>5, <1>6, <2>1, DownheapKeeps
  <1> QED
    BY <1>3, <1>7 DEF HeapTo, Heaped, Z

(* ANHE_at_cache for every entry                                           *)
LEMMA CopiesHoused ==
  ASSUME NEW W, NEW h, NEW A, NEW Z, NEW a, Housed(W, h, A, Z, a), NEW b, \A u \in W : b[u] \in Int,
         NEW R, R = Copies(h, b)
  PROVE  /\ Housed(W, R, A, Z, b) /\ Len(R.ent) = Len(h.ent)
         /\ \A i \in 1..Len(h.ent) : R.ent[i].w = h.ent[i].w
  <1> DEFINE n == Len(h.ent)
             e == [i \in DOMAIN h.ent |-> [h.ent[i] EXCEPT !.at = b[h.ent[i].w]]]
  <1>1. /\ h \in Heaps(W) /\ h.ent \in Seq(Ent(W)) /\ h.active \in [W -> Nat] /\ n \in Nat
        /\ A \subseteq W /\ Z \subseteq W
        /\ \A i \in 1..n : h.ent[i] \in Ent(W)
        /\ \A i \in 1..n : EntryHoused(h, A, a, i)
        /\ \A u \in A : PlaceKnown(h, u)
        /\ \A u \in Z : h.active[u] = 0
    BY HousedParts
  <1>2. R = [h EXCEPT !.ent = e]
    BY Zenon DEF Copies
  <1>3. ASSUME NEW i \in 1..n
        PROVE  /\ e[i] \in Ent(W) /\ e[i].w = h.ent[i].w /\ e[i].at = b[h.ent[i].w]
    <2>1. h.ent[i] \in Ent(W) /\ i \in DOMAIN h.ent
      BY <1>1
    <2>2. e[i] = [h.ent[i] EXCEPT !.at = b[h.ent[i].w]]
      BY <2>1
    <2>3. h.ent[i].w \in W /\ b[h.ent[i].w] \in Int
      BY <2>1 DEF Ent
    <2> HIDE DEF e
    <2> QED
      BY <2>1, <2>2, <2>3 DEF Ent
  <1>4. e \in Seq(Ent(W)) /\ Len(e) = n
    <2>1. DOMAIN h.ent = 1..n /\ DOMAIN e = DOMAIN h.ent
      BY <1>1
    <2>2. e = [i \in 1..n |-> e[i]]
      BY <2>1
    <2> HIDE DEF e
    <2>3. e \in [1..n -> Ent(W)]
      BY <1>3, <2>2
    <2> QED
      BY <1>1, <2>3
  <1> HIDE DEF e
  <1>5. R \in Heaps(W) /\ R.ent = e /\ R.active = h.active
    BY ONLY <1>1, <1>2, <1>4, HeapSet
  <1>6. \A i \in 1..n : EntryHoused(R, A, b, i)
    BY <1>1, <1>3, <1>5 DEF EntryHoused
  <1>7. \A u \in A : PlaceKnown(R, u)
    <2>1. ASSUME NEW u \in A PROVE PlaceKnown(R, u)
      <3>1. h.active[u] \in 1..n /\ h.ent[h.active[u]].w = u
        BY <1>1 DEF PlaceKnown
      <3> QED
        BY <1>3, <1>4, <1>5, <3>1 DEF PlaceKnown
    <2> QED
      BY <2>1
  <1>8. Housed(W, R, A, Z, b)
    BY <1>1, <1>4, <1>5, <1>6, <1>7 DEF Housed
  <1>9. Len(R.ent) = Len(h.ent) /\ \A i \in 1..Len(h.ent) : R.ent[i].w = h.ent[i].w
    BY <1>3, <1>4, <1>5
  <1> QED
    BY <1>8, <1>9

LEMMA HousedReady ==
  ASSUME NEW W, NEW h, NEW A, NEW Z, NEW a, Housed(W, h, A, Z, a), Z = W \ A, NEW n, n = Len(h.ent),
         NEW k \in 1..n
  PROVE  ReadyAt(W, n, A, Z, a, h, k)
  <1>1. /\ h \in Heaps(W) /\ n \in Nat /\ A \subseteq W /\ Z \subseteq W
        /\ \A i \in 1..n : EntryHoused(h, A, a, i)
        /\ \A u \in A : PlaceKnown(h, u)
        /\ \A u \in Z : h.active[u] = 0
    BY HousedParts
  <1>2. ASSUME NEW i \in 1..n PROVE EntryReady(h, A, a, k, i)
    BY <1>1 DEF EntryHoused, EntryReady
  <1> QED
    BY <1>1, <1>2 DEF ReadyAt

(* reheap: place after place, from the root on                             *)
LEMMA ReheapKeeps ==
  ASSUME DegreeOK, NEW W, NEW h, NEW A, NEW Z, NEW a, Housed(W, h, A, Z, a), Z = W \ A,
         NEW R, R = reheap(h)
  PROVE  Heaped(W, R, A, a)
  <1> DEFINE N == Len(h.ent)
             V == Heaps(W)
             Made(f) == f = [j \in 0..N |-> IF j = 0 THEN h ELSE upheap(f[j - 1], j)]
             heaped == CHOOSE f : Made(f)
             Set(j) == {x \in V : HeapTo(W, N, A, Z, a, j, x)}
             step == [q \in V \X (1..N) |-> upheap(q[1], q[2])]
             Good == [j \in 0..N |-> Set(j)]
  <1>0. N \in Nat /\ h \in V
    BY HousedParts
  <1>1. R = heaped[N]
    BY Zenon DEF reheap
  <1>15. N = Len(h.ent)
    OBVIOUS
  <1> HIDE DEF N
  <1>2. ASSUME NEW j \in 1..N, NEW i, i = j - 1, NEW x \in Set(i) PROVE upheap(x, j) \in Set(j)
    <2>1. Housed(W, x, A, Z, a) /\ Len(x.ent) = N /\ OrderedTo(Ats(x), i)
      BY DEF HeapTo
    <2>2. ReadyAt(W, N, A, Z, a, x, j)
      BY <2>1, HousedReady
    <2>3. Ats(x) \in [1..N -> Int]
      BY <2>1, AtsType
    <2>4. OrderedUp(Ats(x), j, j)
      BY <1>0, <1>2, <2>1, <2>3, LastNew
    <2>5. j <= j
      BY <1>0
    <2> DEFINE y == upheap(x, j)
    <2>6. y = upheap(x, j)
      OBVIOUS
    <2> HIDE DEF y
    <2>7. HeapTo(W, N, A, Z, a, j, y)
      BY <2>2, <2>4, <2>5, <2>6, UpheapKeeps
    <2>8. y \in V
      BY <2>7 DEF HeapTo, Housed
    <2> QED
      BY <2>6, <2>7, <2>8
  <1>23. ASSUME NEW f, f = [j \in 0..N |-> IF j = 0 THEN h ELSE upheap(f[j - 1], j)]
         PROVE  Made(f)
    BY <1>23, Zenon
  <1>24. ASSUME NEW f, Made(f)
         PROVE  f = [j \in 0..N |-> IF j = 0 THEN h ELSE upheap(f[j - 1], j)]
    BY <1>24, Zenon
  <1> HIDE DEF Made
  <1>3. h \in Set(0)
    <2>1. OrderedTo(Ats(h), 0)
      BY DEF OrderedTo
    <2> QED
      BY <1>0, <1>15, <2>1 DEF HeapTo
  <1>31. \A j : Set(j) \subseteq V
    OBVIOUS
  <1> HIDE DEF V, Set
  <1>4. Good \in [0..N -> SUBSET V] /\ h \in Good[0] /\ \A j \in 0..N : Good[j] = Set(j)
    BY <1>0, <1>3, <1>31
  <1>5. \A j \in 1..N : \A x \in V : step[<<x, j>>] = upheap(x, j)
    OBVIOUS
  <1> HIDE DEF Good, step
  <1>6. \A j \in 1..N : j - 1 \in 0..N /\ j \in 0..N
    BY <1>0
  <1>7. \A j \in 1..N : \A x \in Good[j - 1] : step[<<x, j>>] \in Good[j]
    <2> TAKE j \in 1..N
    <2> DEFINE i == j - 1
    <2>1. i \in 0..N /\ j \in 0..N /\ Good[i] = Set(i) /\ Good[j] = Set(j) /\ i = j - 1
      BY <1>4, <1>6
    <2> HIDE DEF i
    <2>2. \A x \in Set(i) : step[<<x, j>>] \in Set(j)
      BY <1>2, <1>5, <1>31, <2>1
    <2> QED
      BY <2>1, <2>2
  <1>14. Leads(N, V, Good, h, step)
    BY <1>0, <1>4, <1>7 DEF Leads
  <1>8. PICK f \in [0..N -> V] : f[0] = h /\ \A j \in 1..N : f[j] = step[<<f[j - 1], j>>]
    BY <1>14, Iteration
  <1>9. Made(f)
    <2>1. ASSUME NEW j \in 0..N PROVE f[j] = IF j = 0 THEN h ELSE upheap(f[j - 1], j)
      <3>1. CASE j = 0
        BY <1>8, <3>1
      <3>2. CASE j # 0
        <4>1. j \in 1..N
          BY <1>0, <3>2
        <4>2. f[j - 1] \in V
          BY <1>6, <1>8, <4>1
        <4> QED
          BY <1>5, <1>8, <3>2, <4>1, <4>2
      <3> QED
        BY <3>1, <3>2
    <2>2. f = [j \in 0..N |-> IF j = 0 THEN h ELSE upheap(f[j - 1], j)]
      BY <1>8, <2>1
    <2> QED
      BY <1>23, <2>2
  <1>10. Made(heaped)
    BY <1>9, Zenon
  <1> HIDE DEF heaped
  <1>11. heaped = [j \in 0..N |-> IF j = 0 THEN h ELSE upheap(heaped[j - 1], j)]
    BY <1>10, <1>24
  <1>12. Follows(N, heaped, Good, h, step)
    <2>1. heaped[0] = h /\ \A j \in 1..N : heaped[j] = upheap(heaped[j - 1], j)
      BY <1>0, <1>11
    <2>2. \A j \in 1..N : heaped[j - 1] \in Good[j - 1] => heaped[j - 1] \in V
      BY <1>4, <1>6, <1>31
    <2> QED
      BY <1>5, <2>1, <2>2 DEF Follows
  <1>13. R \in Set(N)
    <2>1. \A j \in 0..N : heaped[j] \in Good[j]
      BY <1>12, <1>14, IterationStays
    <2> QED
      BY <1>0, <1>1, <1>4, <2>1
  <1> QED
    BY <1>13 DEF Set, HeapTo, Heaped

(* When all times are put off alike, the order stays.                      *)
LEMMA ShiftKeeps ==
  ASSUME DegreeOK, NEW W, NEW h, NEW A, NEW a, Heaped(W, h, A, a), NEW b, \A u \in W : b[u] \in Int,
         NEW d \in Int, \A u \in A : b[u] = a[u] + d, NEW R, R = Copies(h, b)
  PROVE  Heaped(W, R, A, b)
  <1> DEFINE n == Len(h.ent)
             Z == W \ A
  <1>1. Housed(W, h, A, Z, a) /\ OrderedTo(Ats(h), n)
    BY DEF Heaped
  <1> HIDE DEF Z
  <1>2. /\ h \in Heaps(W) /\ n \in Nat /\ \A i \in 1..n : EntryHoused(h, A, a, i)
    BY <1>1, HousedParts
  <1>3. /\ Housed(W, R, A, Z, b) /\ Len(R.ent) = n
        /\ \A i \in 1..n : R.ent[i].w = h.ent[i].w
    BY <1>1, CopiesHoused
  <1>4. R \in Heaps(W) /\ \A i \in 1..n : EntryHoused(R, A, b, i)
    BY <1>3 DEF Housed
  <1>5. Ats(h) \in [1..n -> Int] /\ \A i \in 1..n : Ats(h)[i] = h.ent[i].at
    BY <1>2, AtsType
  <1>6. Ats(R) \in [1..n -> Int] /\ \A i \in 1..n : Ats(R)[i] = R.ent[i].at
    BY <1>3, <1>4, AtsType
  <1>7. \A i \in 1..n : Ats(R)[i] = Ats(h)[i] + d
    BY <1>2, <1>3, <1>4, <1>5, <1>6 DEF EntryHoused
  <1>8. \A i \in 2..n : i \in 1..n /\ HPARENT(i) \in 1..n
    BY <1>2, ParentAbove
  <1>9. ASSUME NEW i \in 2..n PROVE InOrder(Ats(R), i)
    <2>1. Ats(h)[HPARENT(i)] <= Ats(h)[i]
      BY <1>1 DEF OrderedTo, InOrder
    <2> QED
      BY <1>5, <1>7, <1>8, <2>1 DEF InOrder
  <1> QED
    BY <1>3, <1>9 DEF Heaped, OrderedTo, Z

LEMMA SameTimes ==
  ASSUME NEW W, NEW h, NEW A, NEW a, Heaped(W, h, A, a), NEW b, \A u \in A : b[u] = a[u]
  PROVE  Heaped(W, h, A, b)
  BY DEF Heaped, Housed, EntryHoused

(* Who is active, and that the root is due first                           *)
LEMMA HeapFirst ==
  ASSUME DegreeOK, NEW W, NEW h, NEW A, NEW a, Heaped(W, h, A, a)
  PROVE  /\ \A u \in W : u \in A <=> h.active[u] # 0
         /\ \A u \in A : 1 \in DOMAIN h.ent /\ h.ent[1].at <= a[u]
  <1> DEFINE n == Len(h.ent)
  <1>1. /\ h \in Heaps(W) /\ h.ent \in Seq(Ent(W)) /\ n \in Nat
        /\ \A i \in 1..n : EntryHoused(h, A, a, i)
        /\ \A u \in A : PlaceKnown(h, u)
        /\ \A u \in W \ A : h.active[u] = 0
    <2>1. Housed(W, h, A, W \ A, a) /\ n = Len(h.ent)
      BY DEF Heaped
    <2> HIDE DEF n
    <2> QED
      BY ONLY <2>1, HousedParts
  <1>2. Ats(h) \in [1..n -> Int] /\ \A i \in 1..n : Ats(h)[i] = h.ent[i].at
    BY <1>1, AtsType
  <1>3. \A i \in 1..n : Ats(h)[1] <= Ats(h)[i]
    BY <1>1, <1>2, RootFirst DEF Heaped
  <1>4. \A u \in A : h.active[u] \in 1..n /\ h.ent[h.active[u]].w = u
    BY <1>1 DEF PlaceKnown
  <1>5. ASSUME NEW u \in A PROVE 1 \in DOMAIN h.ent /\ h.ent[1].at <= a[u]
    <2>1. h.active[u] \in 1..n /\ 1 \in 1..n
      BY <1>1, <1>4
    <2>2. h.ent[h.active[u]].at = a[u]
      BY <1>1, <1>4, <2>1 DEF EntryHoused
    <2> QED
      BY <1>1, <1>2, <1>3, <2>1, <2>2
  <1> QED
    BY <1>1, <1>4, <1>5

(* A finite set of numbers has a bound                                     *)
LEMMA Bounded ==
  ASSUME NEW S \in SUBSET Nat, IsFiniteSet(S)
  PROVE  \E m \in Nat : \A s \in S : s <= m
  <1> DEFINE n == Cardinality(S)
  <1>1. n \in Nat
    BY FS_CardinalityType
  <1>2. PICK b : b \in Bijection(1..n, S)
    BY FS_CardinalityType DEF ExistsBijection
  <1>3. b \in [1..n -> S] /\ \A s \in S : \E i \in 1..n : b[i] = s
    BY <1>2 DEF Bijection, Surjection
  <1> HIDE DEF n
  <1> DEFINE B == {k \in 0..n : \E m \in Nat : \A i \in 1..k : b[i] <= m}
  <1>4. 0 \in B
    <2>1. 0 \in 0..n /\ \A i \in 1..0 : b[i] <= 0
      BY <1>1
    <2> QED
      BY <2>1
  <1>5. ASSUME NEW k \in 1..n, k - 1 \in B PROVE k \in B
    <2>1. PICK m \in Nat : \A i \in 1..(k - 1) : b[i] <= m
      BY <1>5
    <2>2. b[k] \in Nat /\ k \in Nat
      <3>1. b[k] \in S
        BY <1>3
      <3>2. b[k] \in Nat
        BY ONLY <3>1, S \in SUBSET Nat
      <3>3. k \in Nat
        BY <1>1
      <3> QED
        BY <3>2, <3>3
    <2> DEFINE o == m + b[k]
    <2>3. o \in Nat /\ m <= o /\ b[k] <= o
      BY <2>2
    <2> HIDE DEF o
    <2>4. ASSUME NEW i \in 1..k PROVE b[i] <= o
      <3>1. CASE i = k
        BY <2>3, <3>1
      <3>2. CASE i # k
        <4>1. i \in 1..(k - 1) /\ i \in 1..n
          BY <1>1, <2>2, <3>2
        <4>2. b[i] <= m /\ b[i] \in Nat
          BY <1>3, <2>1, <4>1
        <4> QED
          BY <2>3, <4>2
      <3> QED
        BY <3>1, <3>2
    <2>5. k \in 0..n
      BY <1>1
    <2> QED
      BY <2>3, <2>4, <2>5
  <1> HIDE DEF B
  <1>6. 0..n \subseteq B
    BY <1>1, <1>4, <1>5, UpTo
  <1>7. n \in B
    BY <1>1, <1>6
  <1>8. PICK m \in Nat : \A i \in 1..n : b[i] <= m
    BY <1>7 DEF B
  <1> QED
    BY <1>3, <1>8

(* A heap that holds the active watchers of W, with their times a          *)
HeapKept(W, h, a) == \E A \in SUBSET W : Heaped(W, h, A, a)
Elsewhere(W, w, b, a) == \A u \in W : u # w => b[u] = a[u]

LEMMA HeapKeptIn ==
  ASSUME NEW W, NEW h, NEW A, NEW a, Heaped(W, h, A, a)
  PROVE  HeapKept(W, h, a)
  <1>1. A \in SUBSET W
    BY DEF Heaped, Housed
  <1> QED
    BY <1>1 DEF HeapKept

LEMMA KeptSame ==
  ASSUME NEW W, NEW h, NEW a, HeapKept(W, h, a), NEW b, \A u \in W : b[u] = a[u]
  PROVE  HeapKept(W, h, b)
  <1>1. PICK A \in SUBSET W : Heaped(W, h, A, a)
    BY DEF HeapKept
  <1>2. \A u \in A : b[u] = a[u]
    OBVIOUS
  <1>3. Heaped(W, h, A, b)
    BY <1>1, <1>2, SameTimes
  <1> QED
    BY <1>3, HeapKeptIn

LEMMA KeptInsert ==
  ASSUME DegreeOK, NEW W, NEW h, NEW a, HeapKept(W, h, a), NEW w \in W, h.active[w] = 0,
         NEW t \in Int, NEW b, SameBut(W, w, t, b, a), NEW R, R = HeapInsert(h, w, t)
  PROVE  HeapKept(W, R, b)
  <1>1. PICK A \in SUBSET W : Heaped(W, h, A, a)
    BY DEF HeapKept
  <1>2. w \in W \ A /\ b[w] = t /\ \A u \in A : b[u] = a[u]
    <2>1. w \notin A
      BY <1>1, HeapFirst
    <2> QED
      BY <2>1 DEF SameBut
  <1> DEFINE B == A \cup {w}
  <1>3. Heaped(W, R, B, b)
    BY <1>1, <1>2, InsertKeeps
  <1> HIDE DEF B
  <1> QED
    BY <1>3, HeapKeptIn

LEMMA KeptDelete ==
  ASSUME DegreeOK, NEW W, NEW h, NEW a, HeapKept(W, h, a), NEW w \in W, h.active[w] # 0,
         NEW b, Elsewhere(W, w, b, a), NEW R, R = HeapDelete(h, w)
  PROVE  HeapKept(W, R, b) /\ R.active[w] = 0
  <1>1. PICK A \in SUBSET W : Heaped(W, h, A, a)
    BY DEF HeapKept
  <1>2. w \in A /\ \A u \in A : u # w => b[u] = a[u]
    <2>1. w \in A
      BY <1>1, HeapFirst
    <2> QED
      BY <2>1 DEF Elsewhere
  <1> DEFINE B == A \ {w}
  <1>3. Heaped(W, R, B, b)
    BY <1>1, <1>2, DeleteKeeps
  <1>4. w \notin B
    OBVIOUS
  <1> HIDE DEF B
  <1>5. R.active[w] = 0
    BY <1>3, <1>4, HeapFirst
  <1> QED
    BY <1>3, <1>5, HeapKeptIn

LEMMA KeptOther ==
  ASSUME DegreeOK, NEW W, NEW h, NEW a, HeapKept(W, h, a), NEW w \in W, h.active[w] = 0,
         NEW b, Elsewhere(W, w, b, a)
  PROVE  HeapKept(W, h, b)
  <1>1. PICK A \in SUBSET W : Heaped(W, h, A, a)
    BY DEF HeapKept
  <1>2. w \notin A
    BY <1>1, HeapFirst
  <1>3. \A u \in A : b[u] = a[u]
    BY <1>2 DEF Elsewhere
  <1>4. Heaped(W, h, A, b)
    BY <1>1, <1>3, SameTimes
  <1> QED
    BY <1>4, HeapKeptIn

LEMMA KeptAgain ==
  ASSUME DegreeOK, NEW W, NEW h, NEW a, HeapKept(W, h, a), NEW w \in W, h.active[w] # 0,
         NEW t \in Int, NEW b, SameBut(W, w, t, b, a), NEW g, TimeSet(h, h.active[w], t, g),
         NEW R, R = adjustheap(g, h.active[w])
  PROVE  HeapKept(W, R, b)
  <1> DEFINE k == h.active[w]
  <1>1. PICK A \in SUBSET W : Heaped(W, h, A, a)
    BY DEF HeapKept
  <1>2. w \in A /\ SameBut(A, w, t, b, a)
    <2>1. w \in A
      BY <1>1, HeapFirst
    <2> QED
      BY <2>1 DEF SameBut
  <1>4. k = h.active[w] /\ TimeSet(h, k, t, g) /\ R = adjustheap(g, k)
    OBVIOUS
  <1> HIDE DEF k
  <1>3. Heaped(W, R, A, b)
    BY ONLY <1>1, <1>2, <1>4, DegreeOK, t \in Int, AgainKeepsHeap
  <1> QED
    BY <1>3, HeapKeptIn

LEMMA KeptRoot ==
  ASSUME DegreeOK, NEW W, NEW h, NEW a, HeapKept(W, h, a), h.ent # <<>>, NEW w, w = h.ent[1].w,
         NEW t \in Int, NEW b, SameBut(W, w, t, b, a), NEW g, TimeSet(h, 1, t, g),
         NEW R, R = downheap(g, 1)
  PROVE  HeapKept(W, R, b)
  <1>1. PICK A \in SUBSET W : Heaped(W, h, A, a)
    BY DEF HeapKept
  <1>2. SameBut(A, w, t, b, a)
    BY DEF SameBut
  <1>3. Heaped(W, R, A, b)
    BY <1>1, <1>2, RootKeeps
  <1> QED
    BY <1>3, HeapKeptIn

LEMMA KeptRooted ==
  ASSUME NEW W, NEW h, NEW a, HeapKept(W, h, a), h.ent # <<>>, NEW w, w = h.ent[1].w
  PROVE  w \in W /\ h.active[w] # 0
  <1> DEFINE n == Len(h.ent)
  <1>1. PICK A \in SUBSET W : Heaped(W, h, A, a)
    BY DEF HeapKept
  <1>2. Housed(W, h, A, W \ A, a) /\ n = Len(h.ent)
    BY <1>1 DEF Heaped
  <1> HIDE DEF n
  <1>3. h.ent \in Seq(Ent(W)) /\ n \in Nat /\ \A i \in 1..n : EntryHoused(h, A, a, i)
    BY ONLY <1>2, HousedParts
  <1>4. 1 \in 1..n
    BY <1>2, <1>3
  <1> QED
    BY <1>3, <1>4 DEF EntryHoused

LEMMA KeptEmpty ==
  ASSUME NEW W, NEW a, NEW h, h = EmptyHeap(W)
  PROVE  HeapKept(W, h, a)
  <1> DEFINE f == [w \in W |-> 0]
             N == {}
  <1>1. h = [ent |-> <<>>, active |-> f]
    BY DEF EmptyHeap
  <1>2. f \in [W -> Nat] /\ \A w \in W : f[w] = 0
    OBVIOUS
  <1> HIDE DEF f
  <1>3. h \in Heaps(W) /\ Len(h.ent) = 0 /\ h.active = f
    BY <1>1, <1>2 DEF Heaps
  <1>4. Housed(W, h, N, W \ N, a)
    BY <1>2, <1>3 DEF Housed
  <1>5. OrderedTo(Ats(h), Len(h.ent))
    BY <1>3 DEF OrderedTo
  <1>6. Heaped(W, h, N, a)
    BY <1>4, <1>5 DEF Heaped
  <1> HIDE DEF N
  <1> QED
    BY <1>6, HeapKeptIn

(* The pending events of the timers                                        *)
TimePending(Q) == Verified(TimeWatcher, TimerPri, timer_pending_w, timer_priority, Q)

LEMMA TimeCleared ==
  ASSUME NEW Q, TimePending(Q), NEW w \in TimeWatcher, NEW R,
         R = TP!ClearPending(Q, w, timer_priority)
  PROVE  TimePending(R)
  <1>1. R = G(TimeWatcher, TimerPri, timer_pending_w)!ClearPending(Q, w, timer_priority)
    BY DEF TP!ClearPending, G!ClearPending
  <1>2. TimePending(R) /\ R.at = [Q.at EXCEPT ![w] = 0]
    BY <1>1, PendingCleared DEF TimePending
  <1> QED
    BY <1>2

LEMMA TimeQueued ==
  ASSUME NEW Q, TimePending(Q), NEW ws \in Seq(TimeWatcher), NEW revents \in SUBSET Received,
         NEW R, R = TP!QueueEvents(Q, ws, revents, timer_priority)
  PROVE  TimePending(R)
  <1>1. R = G(TimeWatcher, TimerPri, timer_pending_w)!QueueChosen(Q, ws, TimeWatcher, revents,
                                                                  timer_priority)
    BY Zenon DEF TP!QueueEvents, TP!QueueChosen, TP!FeedEvent, G!QueueChosen, G!FeedEvent
  <1> QED
    BY <1>1, PendingQueued DEF TimePending

LEMMA TimePoppedFrom ==
  ASSUME NEW Q, TimePending(Q), NEW p \in TimerPri, Q.q[p] # <<>>, NEW R,
         R = G(TimeWatcher, TimerPri, timer_pending_w)!PoppedFrom(Q, p)
  PROVE  TimePending(R)
  BY PoppedVerified DEF TimePending

LEMMA TimePopped ==
  ASSUME TimersAssumption, NEW Q, TimePending(Q), TP!AnyPending(Q), NEW R, R = TP!Popped(Q)
  PROVE  TimePending(R)
  <1> DEFINE p == TP!TopPri(Q)
  <1>1. R = G(TimeWatcher, TimerPri, timer_pending_w)!PoppedFrom(Q, p)
    BY DEF TP!Popped, TP!PoppedFrom, TP!Last, G!PoppedFrom, G!Last
  <1>2. TimerPri \in SUBSET Nat /\ IsFiniteSet(TimerPri)
    BY DEF TimersAssumption
  <1>3. p \in TimerPri /\ Q.q[p] # <<>>
    <2> DEFINE S == {o \in TimerPri : Q.q[o] # <<>>}
    <2>1. PICK m \in Nat : \A o \in TimerPri : o <= m
      BY <1>2, Bounded
    <2>2. S \in SUBSET Nat /\ S # {} /\ \A s \in S : s <= m
      BY <1>2, <2>1 DEF TP!AnyPending
    <2>3. PICK s \in S : \A o \in S : o <= s
      BY <2>2, Highest
    <2>4. ASSUME NEW o \in TimerPri, o > s PROVE Q.q[o] = <<>>
      <3>1. o \in Nat /\ s \in Nat /\ ~(o <= s)
        BY <1>2, <2>4
      <3> QED
        BY <2>3, <3>1
    <2>5. s \in TimerPri /\ Q.q[s] # <<>>
      BY <2>3
    <2> QED
      BY <2>4, <2>5 DEF TP!TopPri
  <1> HIDE DEF p
  <1> QED
    BY <1>1, <1>3, TimePoppedFrom

(* A state of the loop while it looks at its timers                        *)
TimeState == [timers : Heaps(Timer), periodics : Heaps(Periodic), at : [TimeWatcher -> Int],
              pending : Queues(TimeWatcher, TimerPri, timer_pending_w), rfeeds : Seq(TimeWatcher)]
InTime(s) ==
  /\ s \in TimeState
  /\ HeapKept(Timer, s.timers, s.at) /\ HeapKept(Periodic, s.periodics, s.at)
  /\ TimePending(s.pending)
Arguments ==
  timer_repeat \in [TimeWatcher -> Nat] /\ offset \in [Periodic -> Int]

LEMMA NextIsTime ==
  ASSUME NEW off \in Int, NEW ival \in Nat, ival # 0, NEW t \in Int
  PROVE  NextAt(off, ival, t) \in Int
  BY DEF NextAt, Ceil

LEMMA KeptIsHeap ==
  ASSUME NEW W, NEW h, NEW a, HeapKept(W, h, a)
  PROVE  h \in Heaps(W)
  BY DEF HeapKept, Heaped, Housed

LEMMA InTimeIn ==
  ASSUME NEW s, s = [timers |-> s.timers, periodics |-> s.periodics, at |-> s.at,
                     pending |-> s.pending, rfeeds |-> s.rfeeds],
         HeapKept(Timer, s.timers, s.at), HeapKept(Periodic, s.periodics, s.at),
         s.at \in [TimeWatcher -> Int], TimePending(s.pending), s.rfeeds \in Seq(TimeWatcher)
  PROVE  InTime(s)
  <1>1. s.timers \in Heaps(Timer) /\ s.periodics \in Heaps(Periodic)
    BY KeptIsHeap
  <1>2. s.pending \in Queues(TimeWatcher, TimerPri, timer_pending_w)
    BY DEF TimePending, Verified
  <1>3. s \in TimeState
    BY ONLY <1>1, <1>2, s.at \in [TimeWatcher -> Int], s.rfeeds \in Seq(TimeWatcher),
       s = [timers |-> s.timers, periodics |-> s.periodics, at |-> s.at,
            pending |-> s.pending, rfeeds |-> s.rfeeds] DEF TimeState
  <1> QED
    BY <1>3 DEF InTime

(* A jump of the wall clock: all active periodics are calculated anew.     *)
StillActive(W, g, h) == \A u \in W : g.active[u] # 0 <=> h.active[u] # 0

LEMMA RescheduledKeeps ==
  ASSUME TimersAssumption, Arguments, ev_rt_now' \in Int, NEW s, InTime(s),
         NEW R, R = Rescheduled(s)
  PROVE  /\ InTime(R) /\ R.timers = s.timers /\ R.pending = s.pending /\ R.rfeeds = s.rfeeds
         /\ StillActive(Periodic, R.periodics, s.periodics)
  <1> DEFINE b == [w \in TimeWatcher |->
               IF w \in Periodic /\ s.periodics.active[w] # 0 /\ timer_repeat[w] # 0
                 THEN NextAt(offset[w], timer_repeat[w], ev_rt_now') ELSE s.at[w]]
             h == reheap(Copies(s.periodics, b))
  <1>1. R = [s EXCEPT !.at = b, !.periodics = h]
    BY Zenon DEF Rescheduled
  <1>2. /\ s \in TimeState /\ s.at \in [TimeWatcher -> Int] /\ s.rfeeds \in Seq(TimeWatcher)
        /\ HeapKept(Timer, s.timers, s.at) /\ HeapKept(Periodic, s.periodics, s.at)
        /\ TimePending(s.pending)
    BY DEF InTime, TimeState
  <1>3. DegreeOK /\ Timer \cap Periodic = {}
    BY DEF TimersAssumption, DegreeOK
  <1>4. b \in [TimeWatcher -> Int]
    <2>1. ASSUME NEW w \in TimeWatcher PROVE b[w] \in Int
      <3>1. CASE w \in Periodic /\ s.periodics.active[w] # 0 /\ timer_repeat[w] # 0
        <4>1. offset[w] \in Int /\ timer_repeat[w] \in Nat
          BY <3>1 DEF Arguments
        <4>2. NextAt(offset[w], timer_repeat[w], ev_rt_now') \in Int
          BY <3>1, <4>1, NextIsTime
        <4> QED
          BY <3>1, <4>2
      <3>2. CASE ~(w \in Periodic /\ s.periodics.active[w] # 0 /\ timer_repeat[w] # 0)
        BY <1>2, <3>2
      <3> QED
        BY <3>1, <3>2
    <2>2. b = [w \in TimeWatcher |-> b[w]]
      OBVIOUS
    <2> HIDE DEF b
    <2> QED
      BY <2>1, <2>2
  <1>5. \A w \in Timer : b[w] = s.at[w]
    BY <1>3 DEF TimeWatcher
  <1>6. \A w \in Periodic : b[w] \in Int
    BY <1>4 DEF TimeWatcher
  <1> DEFINE c == Copies(s.periodics, b)
  <1>7. h = reheap(c) /\ c = Copies(s.periodics, b)
    OBVIOUS
  <1> HIDE DEF b, c, h
  <1>8. HeapKept(Periodic, h, b) /\ StillActive(Periodic, h, s.periodics)
    <2>1. PICK A \in SUBSET Periodic : Heaped(Periodic, s.periodics, A, s.at)
      BY <1>2 DEF HeapKept
    <2> DEFINE Z == Periodic \ A
    <2>2. Housed(Periodic, s.periodics, A, Z, s.at) /\ Z = Periodic \ A
      BY <2>1 DEF Heaped
    <2> HIDE DEF Z
    <2>3. Housed(Periodic, c, A, Z, b)
      BY <1>6, <1>7, <2>2, CopiesHoused
    <2>4. Heaped(Periodic, h, A, b)
      BY <1>3, <1>7, <2>2, <2>3, ReheapKeeps
    <2>5. \A u \in Periodic : u \in A <=> h.active[u] # 0
      BY <1>3, <2>4, HeapFirst
    <2>6. \A u \in Periodic : u \in A <=> s.periodics.active[u] # 0
      BY <1>3, <2>1, HeapFirst
    <2> QED
      BY <2>4, <2>5, <2>6, HeapKeptIn DEF StillActive
  <1>9. HeapKept(Timer, s.timers, b)
    BY <1>2, <1>5, KeptSame
  <1>10. R = [timers |-> s.timers, periodics |-> h, at |-> b,
              pending |-> s.pending, rfeeds |-> s.rfeeds]
    BY ONLY <1>1, <1>2 DEF TimeState
  <1>11. /\ R.timers = s.timers /\ R.periodics = h /\ R.at = b
         /\ R.pending = s.pending /\ R.rfeeds = s.rfeeds
    BY ONLY <1>10
  <1>12. InTime(R)
    BY <1>2, <1>4, <1>8, <1>9, <1>10, <1>11, InTimeIn
  <1> QED
    BY <1>8, <1>11, <1>12

(* A timer that is due                                                     *)
LEMMA TimerDueKeeps ==
  ASSUME TimersAssumption, Arguments, mn_now' \in Int, NEW s, InTime(s), NEW R, R = TimerDue(s)
  PROVE  InTime(R)
  <1> DEFINE w == s.timers.ent[1].w
             next == s.at[w] + timer_repeat[w]
             t == IF next < mn_now' THEN mn_now' ELSE next
             g == [s.timers EXCEPT !.ent[1].at = t]
             d == downheap(g, 1)
             x == HeapDelete(s.timers, w)
             p == TP!ClearPending(s.pending, w, timer_priority)
             q == Append(s.rfeeds, w)
             b == [s.at EXCEPT ![w] = t]
             b0 == [s.at EXCEPT ![w] = 0]
  <1>1. R = IF s.timers.ent = <<>> \/ s.timers.ent[1].at >= mn_now' THEN s
            ELSE IF timer_repeat[w] # 0
              THEN [s EXCEPT !.at[w] = t, !.rfeeds = Append(@, w), !.timers = d]
            ELSE [s EXCEPT !.at[w] = 0, !.rfeeds = Append(@, w), !.timers = x,
                           !.pending = TP!ClearPending(@, w, timer_priority)]
    BY Zenon DEF TimerDue
  <1>2. /\ s \in TimeState /\ s.at \in [TimeWatcher -> Int] /\ s.rfeeds \in Seq(TimeWatcher)
        /\ HeapKept(Timer, s.timers, s.at) /\ HeapKept(Periodic, s.periodics, s.at)
        /\ TimePending(s.pending)
    BY DEF InTime, TimeState
  <1>3. DegreeOK /\ Timer \cap Periodic = {}
    BY DEF TimersAssumption, DegreeOK
  <1>4. w = s.timers.ent[1].w /\ g = [s.timers EXCEPT !.ent[1].at = t]
    OBVIOUS
  <1>5. CASE s.timers.ent = <<>> \/ s.timers.ent[1].at >= mn_now'
    BY <1>1, <1>5
  <1>6. ASSUME s.timers.ent # <<>>
        PROVE  /\ w \in Timer /\ s.timers.active[w] # 0 /\ w \in TimeWatcher /\ w \notin Periodic
               /\ q \in Seq(TimeWatcher)
    <2> HIDE DEF w
    <2>1. w \in Timer /\ s.timers.active[w] # 0
      BY <1>2, <1>4, <1>6, KeptRooted
    <2>2. w \in TimeWatcher /\ w \notin Periodic
      BY <1>3, <2>1 DEF TimeWatcher
    <2> QED
      BY <1>2, <2>1, <2>2, AppendProperties
  <1>7. CASE ~(s.timers.ent = <<>> \/ s.timers.ent[1].at >= mn_now') /\ timer_repeat[w] # 0
    <2>1. R = [s EXCEPT !.at = b, !.rfeeds = q, !.timers = d]
      BY <1>1, <1>7
    <2>2. t \in Int
      <3>1. s.at[w] \in Int /\ timer_repeat[w] \in Nat
        BY <1>2, <1>6, <1>7 DEF Arguments
      <3> QED
        BY <3>1
    <2>3. b \in [TimeWatcher -> Int] /\ b[w] = t /\ \A u \in TimeWatcher : u # w => b[u] = s.at[u]
      BY <1>2, <1>6, <1>7, <2>2
    <2>4. TimeSet(s.timers, 1, t, g) /\ d = downheap(g, 1)
      BY DEF TimeSet
    <2> HIDE DEF w, t, g, d, q, b
    <2>5. SameBut(Timer, w, t, b, s.at) /\ \A u \in Periodic : b[u] = s.at[u]
      BY <1>6, <1>7, <2>3 DEF SameBut, TimeWatcher
    <2>6. HeapKept(Timer, d, b)
      BY <1>2, <1>3, <1>4, <1>7, <2>2, <2>4, <2>5, KeptRoot
    <2>7. HeapKept(Periodic, s.periodics, b)
      BY <1>2, <2>5, KeptSame
    <2>8. R = [timers |-> d, periodics |-> s.periodics, at |-> b,
               pending |-> s.pending, rfeeds |-> q]
      BY ONLY <1>2, <2>1 DEF TimeState
    <2>9. /\ R.timers = d /\ R.periodics = s.periodics /\ R.at = b
          /\ R.pending = s.pending /\ R.rfeeds = q
      BY ONLY <2>8
    <2> QED
      BY <1>2, <1>6, <1>7, <2>3, <2>6, <2>7, <2>8, <2>9, InTimeIn
  <1>8. CASE ~(s.timers.ent = <<>> \/ s.timers.ent[1].at >= mn_now') /\ timer_repeat[w] = 0
    <2>1. R = [s EXCEPT !.at = b0, !.rfeeds = q, !.timers = x, !.pending = p]
      BY <1>1, <1>8
    <2>3. /\ b0 \in [TimeWatcher -> Int] /\ \A u \in TimeWatcher : u # w => b0[u] = s.at[u]
      BY <1>2, <1>6, <1>8
    <2>4. x = HeapDelete(s.timers, w) /\ p = TP!ClearPending(s.pending, w, timer_priority)
      OBVIOUS
    <2> HIDE DEF w, x, p, q, b0
    <2>5. Elsewhere(Timer, w, b0, s.at) /\ \A u \in Periodic : b0[u] = s.at[u]
      BY <1>6, <1>8, <2>3 DEF Elsewhere, TimeWatcher
    <2>6. HeapKept(Timer, x, b0)
      BY <1>2, <1>3, <1>6, <1>8, <2>4, <2>5, KeptDelete
    <2>7. HeapKept(Periodic, s.periodics, b0)
      BY <1>2, <2>5, KeptSame
    <2>10. TimePending(p)
      BY <1>2, <1>6, <1>8, <2>4, TimeCleared
    <2>8. R = [timers |-> x, periodics |-> s.periodics, at |-> b0, pending |-> p, rfeeds |-> q]
      BY ONLY <1>2, <2>1 DEF TimeState
    <2>9. /\ R.timers = x /\ R.periodics = s.periodics /\ R.at = b0
          /\ R.pending = p /\ R.rfeeds = q
      BY ONLY <2>8
    <2> QED
      BY <1>6, <1>8, <2>3, <2>6, <2>7, <2>8, <2>9, <2>10, InTimeIn
  <1> QED
    BY <1>5, <1>7, <1>8

(* A periodic that is due                                                  *)
LEMMA PeriodicDueKeeps ==
  ASSUME TimersAssumption, Arguments, ev_rt_now' \in Int, NEW s, InTime(s), NEW R, R = PeriodicDue(s)
  PROVE  InTime(R)
  <1> DEFINE w == s.periodics.ent[1].w
             up == NextAt(offset[w], timer_repeat[w], ev_rt_now')
             t == IF up = ev_rt_now' THEN up + timer_repeat[w] ELSE up
             g == [s.periodics EXCEPT !.ent[1].at = t]
             d == downheap(g, 1)
             x == HeapDelete(s.periodics, w)
             p == TP!ClearPending(s.pending, w, timer_priority)
             q == Append(s.rfeeds, w)
             b == [s.at EXCEPT ![w] = t]
             b0 == [s.at EXCEPT ![w] = 0]
  <1>1. R = IF s.periodics.ent = <<>> \/ s.periodics.ent[1].at >= ev_rt_now' THEN s
            ELSE IF timer_repeat[w] # 0
              THEN [s EXCEPT !.at[w] = t, !.rfeeds = Append(@, w), !.periodics = d]
            ELSE [s EXCEPT !.at[w] = 0, !.rfeeds = Append(@, w), !.periodics = x,
                           !.pending = TP!ClearPending(@, w, timer_priority)]
    BY Zenon DEF PeriodicDue
  <1>2. /\ s \in TimeState /\ s.at \in [TimeWatcher -> Int] /\ s.rfeeds \in Seq(TimeWatcher)
        /\ HeapKept(Periodic, s.periodics, s.at) /\ HeapKept(Timer, s.timers, s.at)
        /\ TimePending(s.pending)
    BY DEF InTime, TimeState
  <1>3. DegreeOK /\ Timer \cap Periodic = {}
    BY DEF TimersAssumption, DegreeOK
  <1>4. w = s.periodics.ent[1].w /\ g = [s.periodics EXCEPT !.ent[1].at = t]
    OBVIOUS
  <1>5. CASE s.periodics.ent = <<>> \/ s.periodics.ent[1].at >= ev_rt_now'
    BY <1>1, <1>5
  <1>6. ASSUME s.periodics.ent # <<>>
        PROVE  /\ w \in Periodic /\ s.periodics.active[w] # 0 /\ w \in TimeWatcher /\ w \notin Timer
               /\ q \in Seq(TimeWatcher)
    <2> HIDE DEF w
    <2>1. w \in Periodic /\ s.periodics.active[w] # 0
      BY <1>2, <1>4, <1>6, KeptRooted
    <2>2. w \in TimeWatcher /\ w \notin Timer
      BY <1>3, <2>1 DEF TimeWatcher
    <2> QED
      BY <1>2, <2>1, <2>2, AppendProperties
  <1>7. CASE ~(s.periodics.ent = <<>> \/ s.periodics.ent[1].at >= ev_rt_now') /\ timer_repeat[w] # 0
    <2>1. R = [s EXCEPT !.at = b, !.rfeeds = q, !.periodics = d]
      BY <1>1, <1>7
    <2>2. t \in Int
      <3>1. offset[w] \in Int /\ timer_repeat[w] \in Nat
        BY <1>6, <1>7 DEF Arguments
      <3>2. up \in Int
        BY <1>7, <3>1, NextIsTime
      <3> HIDE DEF up
      <3> QED
        BY <3>1, <3>2
    <2>3. b \in [TimeWatcher -> Int] /\ b[w] = t /\ \A u \in TimeWatcher : u # w => b[u] = s.at[u]
      BY <1>2, <1>6, <1>7, <2>2
    <2>4. TimeSet(s.periodics, 1, t, g) /\ d = downheap(g, 1)
      BY DEF TimeSet
    <2> HIDE DEF w, t, g, d, q, b
    <2>5. SameBut(Periodic, w, t, b, s.at) /\ \A u \in Timer : b[u] = s.at[u]
      BY <1>6, <1>7, <2>3 DEF SameBut, TimeWatcher
    <2>6. HeapKept(Periodic, d, b)
      BY <1>2, <1>3, <1>4, <1>7, <2>2, <2>4, <2>5, KeptRoot
    <2>7. HeapKept(Timer, s.timers, b)
      BY <1>2, <2>5, KeptSame
    <2>8. R = [timers |-> s.timers, periodics |-> d, at |-> b,
               pending |-> s.pending, rfeeds |-> q]
      BY ONLY <1>2, <2>1 DEF TimeState
    <2>9. /\ R.periodics = d /\ R.timers = s.timers /\ R.at = b
          /\ R.pending = s.pending /\ R.rfeeds = q
      BY ONLY <2>8
    <2> QED
      BY <1>2, <1>6, <1>7, <2>3, <2>6, <2>7, <2>8, <2>9, InTimeIn
  <1>8. CASE ~(s.periodics.ent = <<>> \/ s.periodics.ent[1].at >= ev_rt_now') /\ timer_repeat[w] = 0
    <2>1. R = [s EXCEPT !.at = b0, !.rfeeds = q, !.periodics = x, !.pending = p]
      BY <1>1, <1>8
    <2>3. /\ b0 \in [TimeWatcher -> Int] /\ \A u \in TimeWatcher : u # w => b0[u] = s.at[u]
      BY <1>2, <1>6, <1>8
    <2>4. x = HeapDelete(s.periodics, w) /\ p = TP!ClearPending(s.pending, w, timer_priority)
      OBVIOUS
    <2> HIDE DEF w, x, p, q, b0
    <2>5. Elsewhere(Periodic, w, b0, s.at) /\ \A u \in Timer : b0[u] = s.at[u]
      BY <1>6, <1>8, <2>3 DEF Elsewhere, TimeWatcher
    <2>6. HeapKept(Periodic, x, b0)
      BY <1>2, <1>3, <1>6, <1>8, <2>4, <2>5, KeptDelete
    <2>7. HeapKept(Timer, s.timers, b0)
      BY <1>2, <2>5, KeptSame
    <2>10. TimePending(p)
      BY <1>2, <1>6, <1>8, <2>4, TimeCleared
    <2>8. R = [timers |-> s.timers, periodics |-> x, at |-> b0, pending |-> p, rfeeds |-> q]
      BY ONLY <1>2, <2>1 DEF TimeState
    <2>9. /\ R.periodics = x /\ R.timers = s.timers /\ R.at = b0
          /\ R.pending = p /\ R.rfeeds = q
      BY ONLY <2>8
    <2> QED
      BY <1>6, <1>8, <2>3, <2>6, <2>7, <2>8, <2>9, <2>10, InTimeIn
  <1> QED
    BY <1>5, <1>7, <1>8

(* timers_reify and periodics_reify: one after the other                    *)
LEMMA TimersDueReach ==
  ASSUME NEW s, NEW N \in Nat, N = Len(s.timers.ent), NEW V, NEW Good \in [0..N -> SUBSET V],
         s \in Good[0], \A j \in 1..N : \A x \in Good[j - 1] : TimerDue(x) \in Good[j],
         NEW R, R = TimersDue(s)
  PROVE  R \in Good[N]
  <1> DEFINE M == Len(s.timers.ent)
             Made(f) == f = [j \in 0..M |-> IF j = 0 THEN s ELSE TimerDue(f[j - 1])]
             due == CHOOSE f : Made(f)
             step == [q \in V \X (1..N) |-> TimerDue(q[1])]
  <1>1. R = due[N]
    BY Zenon DEF TimersDue
  <1>23. ASSUME NEW f, f = [j \in 0..N |-> IF j = 0 THEN s ELSE TimerDue(f[j - 1])]
         PROVE  Made(f)
    BY <1>23, Zenon
  <1>24. ASSUME NEW f, Made(f)
         PROVE  f = [j \in 0..N |-> IF j = 0 THEN s ELSE TimerDue(f[j - 1])]
    BY <1>24, Zenon
  <1> HIDE DEF Made, M
  <1>31. \A j \in 0..N : Good[j] \subseteq V
    OBVIOUS
  <1>5. \A j \in 1..N : \A x \in V : step[<<x, j>>] = TimerDue(x)
    OBVIOUS
  <1> HIDE DEF step
  <1>6. \A j \in 1..N : j - 1 \in 0..N /\ j \in 0..N
    OBVIOUS
  <1>7. \A j \in 1..N : \A x \in Good[j - 1] : step[<<x, j>>] \in Good[j]
    BY <1>5, <1>6, <1>31
  <1>14. Leads(N, V, Good, s, step)
    BY <1>7 DEF Leads
  <1>8. PICK f \in [0..N -> V] : f[0] = s /\ \A j \in 1..N : f[j] = step[<<f[j - 1], j>>]
    BY <1>14, Iteration
  <1>9. Made(f)
    <2>1. ASSUME NEW j \in 0..N PROVE f[j] = IF j = 0 THEN s ELSE TimerDue(f[j - 1])
      <3>1. CASE j = 0
        BY <1>8, <3>1
      <3>2. CASE j # 0
        <4>1. j \in 1..N
          BY <3>2
        <4>2. f[j - 1] \in V
          BY <1>6, <1>8, <4>1
        <4> QED
          BY <1>5, <1>8, <3>2, <4>1, <4>2
      <3> QED
        BY <3>1, <3>2
    <2>2. f = [j \in 0..N |-> IF j = 0 THEN s ELSE TimerDue(f[j - 1])]
      BY <1>8, <2>1
    <2> QED
      BY <1>23, <2>2
  <1>10. Made(due)
    BY <1>9, Zenon
  <1> HIDE DEF due
  <1>11. due = [j \in 0..N |-> IF j = 0 THEN s ELSE TimerDue(due[j - 1])]
    BY <1>10, <1>24
  <1>12. Follows(N, due, Good, s, step)
    <2>1. 0 \in 0..N /\ \A j \in 1..N : j \in 0..N /\ j # 0
      OBVIOUS
    <2>2. due[0] = s /\ \A j \in 1..N : due[j] = TimerDue(due[j - 1])
      BY ONLY <1>11, <2>1
    <2>3. \A j \in 1..N : due[j - 1] \in Good[j - 1] => due[j - 1] \in V
      BY <1>6, <1>31
    <2> QED
      BY <1>5, <2>2, <2>3 DEF Follows
  <1>13. \A j \in 0..N : due[j] \in Good[j]
    BY <1>12, <1>14, IterationStays
  <1> QED
    BY <1>1, <1>13

LEMMA TimersDueKeeps ==
  ASSUME TimersAssumption, Arguments, mn_now' \in Int, NEW s, InTime(s), NEW R, R = TimersDue(s)
  PROVE  InTime(R)
  <1> DEFINE N == Len(s.timers.ent)
             V == {x \in TimeState : InTime(x)}
             Good == [j \in 0..N |-> V]
  <1>0. N \in Nat /\ N = Len(s.timers.ent)
    <2>1. s.timers.ent \in Seq(Ent(Timer))
      BY DEF InTime, TimeState, Heaps
    <2> QED
      BY <2>1
  <1>1. s \in V /\ \A x \in V : InTime(x)
    BY DEF InTime
  <1>2. ASSUME NEW x \in V PROVE TimerDue(x) \in V
    <2> DEFINE y == TimerDue(x)
    <2>1. y = TimerDue(x) /\ InTime(x)
      OBVIOUS
    <2> HIDE DEF y
    <2>2. InTime(y)
      BY <2>1, TimerDueKeeps
    <2> QED
      BY <2>1, <2>2 DEF InTime
  <1> HIDE DEF N, V
  <1>3. /\ Good \in [0..N -> SUBSET V] /\ Good[0] = V /\ Good[N] = V
        /\ \A j \in 1..N : Good[j - 1] = V /\ Good[j] = V
    BY <1>0
  <1> HIDE DEF Good
  <1>4. \A j \in 1..N : \A x \in Good[j - 1] : TimerDue(x) \in Good[j]
    BY <1>2, <1>3
  <1>5. R \in Good[N]
    BY <1>0, <1>1, <1>3, <1>4, TimersDueReach
  <1> QED
    BY <1>1, <1>3, <1>5

LEMMA PeriodicsDueReach ==
  ASSUME NEW s, NEW N \in Nat, N = Len(s.periodics.ent), NEW V, NEW Good \in [0..N -> SUBSET V],
         s \in Good[0], \A j \in 1..N : \A x \in Good[j - 1] : PeriodicDue(x) \in Good[j],
         NEW R, R = PeriodicsDue(s)
  PROVE  R \in Good[N]
  <1> DEFINE M == Len(s.periodics.ent)
             Made(f) == f = [j \in 0..M |-> IF j = 0 THEN s ELSE PeriodicDue(f[j - 1])]
             due == CHOOSE f : Made(f)
             step == [q \in V \X (1..N) |-> PeriodicDue(q[1])]
  <1>1. R = due[N]
    BY Zenon DEF PeriodicsDue
  <1>23. ASSUME NEW f, f = [j \in 0..N |-> IF j = 0 THEN s ELSE PeriodicDue(f[j - 1])]
         PROVE  Made(f)
    BY <1>23, Zenon
  <1>24. ASSUME NEW f, Made(f)
         PROVE  f = [j \in 0..N |-> IF j = 0 THEN s ELSE PeriodicDue(f[j - 1])]
    BY <1>24, Zenon
  <1> HIDE DEF Made, M
  <1>31. \A j \in 0..N : Good[j] \subseteq V
    OBVIOUS
  <1>5. \A j \in 1..N : \A x \in V : step[<<x, j>>] = PeriodicDue(x)
    OBVIOUS
  <1> HIDE DEF step
  <1>6. \A j \in 1..N : j - 1 \in 0..N /\ j \in 0..N
    OBVIOUS
  <1>7. \A j \in 1..N : \A x \in Good[j - 1] : step[<<x, j>>] \in Good[j]
    BY <1>5, <1>6, <1>31
  <1>14. Leads(N, V, Good, s, step)
    BY <1>7 DEF Leads
  <1>8. PICK f \in [0..N -> V] : f[0] = s /\ \A j \in 1..N : f[j] = step[<<f[j - 1], j>>]
    BY <1>14, Iteration
  <1>9. Made(f)
    <2>1. ASSUME NEW j \in 0..N PROVE f[j] = IF j = 0 THEN s ELSE PeriodicDue(f[j - 1])
      <3>1. CASE j = 0
        BY <1>8, <3>1
      <3>2. CASE j # 0
        <4>1. j \in 1..N
          BY <3>2
        <4>2. f[j - 1] \in V
          BY <1>6, <1>8, <4>1
        <4> QED
          BY <1>5, <1>8, <3>2, <4>1, <4>2
      <3> QED
        BY <3>1, <3>2
    <2>2. f = [j \in 0..N |-> IF j = 0 THEN s ELSE PeriodicDue(f[j - 1])]
      BY <1>8, <2>1
    <2> QED
      BY <1>23, <2>2
  <1>10. Made(due)
    BY <1>9, Zenon
  <1> HIDE DEF due
  <1>11. due = [j \in 0..N |-> IF j = 0 THEN s ELSE PeriodicDue(due[j - 1])]
    BY <1>10, <1>24
  <1>12. Follows(N, due, Good, s, step)
    <2>1. 0 \in 0..N /\ \A j \in 1..N : j \in 0..N /\ j # 0
      OBVIOUS
    <2>2. due[0] = s /\ \A j \in 1..N : due[j] = PeriodicDue(due[j - 1])
      BY ONLY <1>11, <2>1
    <2>3. \A j \in 1..N : due[j - 1] \in Good[j - 1] => due[j - 1] \in V
      BY <1>6, <1>31
    <2> QED
      BY <1>5, <2>2, <2>3 DEF Follows
  <1>13. \A j \in 0..N : due[j] \in Good[j]
    BY <1>12, <1>14, IterationStays
  <1> QED
    BY <1>1, <1>13

LEMMA PeriodicsDueKeeps ==
  ASSUME TimersAssumption, Arguments, ev_rt_now' \in Int, NEW s, InTime(s), NEW R, R = PeriodicsDue(s)
  PROVE  InTime(R)
  <1> DEFINE N == Len(s.periodics.ent)
             V == {x \in TimeState : InTime(x)}
             Good == [j \in 0..N |-> V]
  <1>0. N \in Nat /\ N = Len(s.periodics.ent)
    <2>1. s.periodics.ent \in Seq(Ent(Periodic))
      BY DEF InTime, TimeState, Heaps
    <2> QED
      BY <2>1
  <1>1. s \in V /\ \A x \in V : InTime(x)
    BY DEF InTime
  <1>2. ASSUME NEW x \in V PROVE PeriodicDue(x) \in V
    <2> DEFINE y == PeriodicDue(x)
    <2>1. y = PeriodicDue(x) /\ InTime(x)
      OBVIOUS
    <2> HIDE DEF y
    <2>2. InTime(y)
      BY <2>1, PeriodicDueKeeps
    <2> QED
      BY <2>1, <2>2 DEF InTime
  <1> HIDE DEF N, V
  <1>3. /\ Good \in [0..N -> SUBSET V] /\ Good[0] = V /\ Good[N] = V
        /\ \A j \in 1..N : Good[j - 1] = V /\ Good[j] = V
    BY <1>0
  <1> HIDE DEF Good
  <1>4. \A j \in 1..N : \A x \in Good[j - 1] : PeriodicDue(x) \in Good[j]
    BY <1>2, <1>3
  <1>5. R \in Good[N]
    BY <1>0, <1>1, <1>3, <1>4, PeriodicsDueReach
  <1> QED
    BY <1>1, <1>3, <1>5

LEMMA FedKeeps ==
  ASSUME NEW s, InTime(s), NEW revents \in SUBSET Received, NEW R, R = FedReversed(s, revents)
  PROVE  InTime(R)
  <1> DEFINE ws == Reverse(s.rfeeds)
             p == TP!QueueEvents(s.pending, ws, revents, timer_priority)
             none == <<>>
  <1>1. R = [s EXCEPT !.pending = p, !.rfeeds = none]
    BY Zenon DEF FedReversed
  <1>2. /\ s \in TimeState /\ s.at \in [TimeWatcher -> Int] /\ s.rfeeds \in Seq(TimeWatcher)
        /\ HeapKept(Timer, s.timers, s.at) /\ HeapKept(Periodic, s.periodics, s.at)
        /\ TimePending(s.pending)
    BY DEF InTime, TimeState
  <1>3. ws \in Seq(TimeWatcher) /\ none \in Seq(TimeWatcher)
    <2> DEFINE q == s.rfeeds
               n == Len(q)
    <2>1. ws = [i \in 1..n |-> q[n - i + 1]]
      BY DEF Reverse
    <2>2. n \in Nat /\ \A i \in 1..n : q[i] \in TimeWatcher
      BY <1>2, ElementOfSeq
    <2> HIDE DEF q, n, ws
    <2>3. \A i \in 1..n : n - i + 1 \in 1..n
      BY <2>2
    <2>4. ws \in [1..n -> TimeWatcher]
      BY <2>1, <2>2, <2>3
    <2> QED
      BY <2>2, <2>4
  <1>4. p = TP!QueueEvents(s.pending, ws, revents, timer_priority)
    OBVIOUS
  <1> HIDE DEF ws, p, none
  <1>5. TimePending(p)
    BY <1>2, <1>3, <1>4, TimeQueued
  <1>6. R = [timers |-> s.timers, periodics |-> s.periodics, at |-> s.at,
             pending |-> p, rfeeds |-> none]
    BY ONLY <1>1, <1>2 DEF TimeState
  <1>7. /\ R.timers = s.timers /\ R.periodics = s.periodics /\ R.at = s.at
        /\ R.pending = p /\ R.rfeeds = none
    BY ONLY <1>6
  <1> QED
    BY <1>2, <1>3, <1>5, <1>6, <1>7, InTimeIn

(* What holds between the steps of the timers: the heaps hold the active   *)
(* watchers at their times, the events are pending where they say, and the *)
(* backend waits no longer than it may.                                    *)
ClockTypes ==
  /\ clock \in Int /\ skew \in Int /\ mn_now \in Int /\ ev_rt_now \in Int /\ rtmn_diff \in Int
  /\ io_blocktime \in Nat /\ timeout_blocktime \in Nat
TimesKept ==
  /\ due_at \in [TimeWatcher -> Int]
  /\ HeapKept(Timer, timers, due_at) /\ HeapKept(Periodic, periodics, due_at)
TimersKept == Arguments /\ TimesKept /\ TimePending(timers_pending)
TimersInv == ClockTypes /\ TimersKept /\ NeverOversleeps

LEMMA TimersApart ==
  ASSUME TimersAssumption
  PROVE  /\ DegreeOK /\ Timer \cap Periodic = {} /\ TimeWatcher = Timer \cup Periodic
         /\ \A w \in Timer : w \in TimeWatcher /\ w \notin Periodic
                             /\ (IsActive(w) <=> timers.active[w] # 0)
         /\ \A w \in Periodic : w \in TimeWatcher /\ w \notin Timer
                                /\ (IsActive(w) <=> periodics.active[w] # 0)
  BY DEF TimersAssumption, DegreeOK, TimeWatcher, IsActive

LEMMA TimerStarted ==
  ASSUME TimersAssumption, TimesKept, NEW w \in Timer, ~IsActive(w), NEW t \in Int,
         StartTimer(w, t), periodics' = periodics
  PROVE  TimesKept'
  <1> DEFINE b == [due_at EXCEPT ![w] = t]
             h == HeapInsert(timers, w, t)
  <1>1. due_at' = b /\ timers' = h /\ periodics' = periodics /\ h = HeapInsert(timers, w, t)
    BY DEF StartTimer
  <1>2. /\ DegreeOK /\ w \in TimeWatcher /\ w \notin Periodic /\ timers.active[w] = 0
        /\ TimeWatcher = Timer \cup Periodic
    BY TimersApart
  <1>3. /\ due_at \in [TimeWatcher -> Int]
        /\ HeapKept(Timer, timers, due_at) /\ HeapKept(Periodic, periodics, due_at)
    BY DEF TimesKept
  <1>4. /\ b \in [TimeWatcher -> Int] /\ SameBut(Timer, w, t, b, due_at)
        /\ \A u \in Periodic : b[u] = due_at[u]
    BY <1>2, <1>3 DEF SameBut
  <1> HIDE DEF b, h
  <1>5. HeapKept(Timer, h, b)
    BY <1>1, <1>2, <1>3, <1>4, KeptInsert
  <1>6. HeapKept(Periodic, periodics, b)
    BY <1>3, <1>4, KeptSame
  <1> QED
    BY <1>1, <1>4, <1>5, <1>6 DEF TimesKept

LEMMA TimerStartKeeps ==
  ASSUME TimersAssumption, ClockTypes, TimersKept, NEW w \in Timer, TimerStart(w)
  PROVE  TimersKept'
  <1>1. PICK d \in Delay, r \in Interval :
          StartTimer(w, mn_now + d) /\ timer_repeat' = [timer_repeat EXCEPT ![w] = r]
    BY DEF TimerStart
  <1>2. d \in Nat /\ r \in Nat /\ mn_now + d \in Int
    BY DEF TimersAssumption, ClockTypes
  <1>3. ~IsActive(w) /\ periodics' = periodics /\ offset' = offset /\ timers_pending' = timers_pending
    BY DEF TimerStart
  <1>4. TimesKept'
    <2> DEFINE t == mn_now + d
    <2>1. t \in Int /\ StartTimer(w, t)
      BY <1>1, <1>2
    <2> HIDE DEF t
    <2> QED
      BY <1>3, <2>1, TimerStarted DEF TimersKept
  <1>5. Arguments'
    BY <1>1, <1>2, <1>3 DEF TimersKept, Arguments
  <1> QED
    BY <1>3, <1>4, <1>5 DEF TimersKept

LEMMA TimerStopKeeps ==
  ASSUME TimersAssumption, TimersKept, NEW w \in Timer, TimerStop(w)
  PROVE  TimersKept'
  <1> DEFINE b == [due_at EXCEPT ![w] = 0]
             h == HeapDelete(timers, w)
             p == TP!ClearPending(timers_pending, w, timer_priority)
  <1>1. /\ timers_pending' = p /\ p = TP!ClearPending(timers_pending, w, timer_priority)
        /\ periodics' = periodics /\ timer_repeat' = timer_repeat /\ offset' = offset
    BY DEF TimerStop
  <1>2. /\ DegreeOK /\ w \in TimeWatcher /\ w \notin Periodic
        /\ (IsActive(w) <=> timers.active[w] # 0) /\ TimeWatcher = Timer \cup Periodic
    BY TimersApart
  <1>3. /\ due_at \in [TimeWatcher -> Int]
        /\ HeapKept(Timer, timers, due_at) /\ HeapKept(Periodic, periodics, due_at)
        /\ TimePending(timers_pending)
    BY DEF TimersKept, TimesKept
  <1> HIDE DEF p
  <1>4. TimePending(p)
    BY <1>1, <1>2, <1>3, TimeCleared
  <1>5. CASE ~IsActive(w)
    <2>1. timers' = timers /\ due_at' = due_at
      BY <1>5 DEF TimerStop
    <2> QED
      BY <1>1, <1>4, <2>1 DEF TimersKept, TimesKept, Arguments
  <1>6. CASE IsActive(w)
    <2>1. timers' = h /\ due_at' = b /\ h = HeapDelete(timers, w)
      BY <1>6 DEF TimerStop
    <2>2. /\ b \in [TimeWatcher -> Int] /\ Elsewhere(Timer, w, b, due_at)
          /\ \A u \in Periodic : b[u] = due_at[u]
      BY <1>2, <1>3 DEF Elsewhere
    <2> HIDE DEF b, h
    <2>3. HeapKept(Timer, h, b)
      BY <1>2, <1>3, <1>6, <2>1, <2>2, KeptDelete
    <2>4. HeapKept(Periodic, periodics, b)
      BY <1>3, <2>2, KeptSame
    <2> QED
      BY <1>1, <1>4, <2>1, <2>2, <2>3, <2>4 DEF TimersKept, TimesKept, Arguments
  <1> QED
    BY <1>5, <1>6

LEMMA TimerAgainKeeps ==
  ASSUME TimersAssumption, ClockTypes, TimersKept, NEW w \in Timer, TimerAgain(w)
  PROVE  TimersKept'
  <1> DEFINE t == mn_now + timer_repeat[w]
  <1>1. /\ DegreeOK /\ w \in TimeWatcher /\ w \notin Periodic
        /\ (IsActive(w) <=> timers.active[w] # 0) /\ TimeWatcher = Timer \cup Periodic
    BY TimersApart
  <1>2. t \in Int
    BY <1>1 DEF ClockTypes, TimersKept, Arguments
  <1>3. CASE IsActive(w) /\ timer_repeat[w] = 0 /\ TimerStop(w)
    BY <1>3, TimerStopKeeps
  <1>4. CASE /\ ~IsActive(w) /\ timer_repeat[w] # 0 /\ StartTimer(w, t)
             /\ UNCHANGED <<periodics, timer_repeat, offset, timers_pending>>
    <2> HIDE DEF t
    <2>1. TimesKept'
      BY <1>2, <1>4, TimerStarted DEF TimersKept
    <2> QED
      BY <1>4, <2>1 DEF TimersKept, Arguments
  <1>5. CASE /\ IsActive(w) /\ timer_repeat[w] # 0
             /\ due_at' = [due_at EXCEPT ![w] = t]
             /\ timers' = adjustheap([timers EXCEPT !.ent[timers.active[w]].at = due_at'[w]],
                                     timers.active[w])
             /\ UNCHANGED <<periodics, timer_repeat, offset, timers_pending>>
    <2> DEFINE b == [due_at EXCEPT ![w] = t]
               k == timers.active[w]
               g == [timers EXCEPT !.ent[k].at = t]
               h == adjustheap(g, k)
    <2>1. /\ due_at \in [TimeWatcher -> Int]
          /\ HeapKept(Timer, timers, due_at) /\ HeapKept(Periodic, periodics, due_at)
          /\ TimePending(timers_pending)
      BY DEF TimersKept, TimesKept
    <2> HIDE DEF t
    <2>2. due_at' = b /\ b[w] = t
      BY <1>1, <1>5, <2>1
    <2>3. timers' = h
      BY <1>5, <2>2
    <2>4. TimeSet(timers, timers.active[w], t, g) /\ h = adjustheap(g, timers.active[w])
      BY DEF TimeSet
    <2>5. /\ b \in [TimeWatcher -> Int] /\ SameBut(Timer, w, t, b, due_at)
          /\ \A u \in Periodic : b[u] = due_at[u]
      BY <1>1, <1>2, <2>1 DEF SameBut
    <2> HIDE DEF b, k, g, h
    <2>6. HeapKept(Timer, h, b)
      BY <1>1, <1>2, <1>5, <2>1, <2>4, <2>5, KeptAgain
    <2>7. HeapKept(Periodic, periodics, b)
      BY <2>1, <2>5, KeptSame
    <2> QED
      BY <1>5, <2>1, <2>2, <2>3, <2>5, <2>6, <2>7 DEF TimersKept, TimesKept, Arguments
  <1> QED
    BY <1>3, <1>4, <1>5 DEF TimerAgain

LEMMA StartIsTime ==
  ASSUME NEW off \in Int, NEW ival \in Nat, ev_rt_now \in Int
  PROVE  StartAt(off, ival) \in Int
  <1>1. CASE ival = 0
    BY <1>1 DEF StartAt
  <1>2. CASE ival # 0
    BY <1>2, NextIsTime DEF StartAt
  <1> QED
    BY <1>1, <1>2

(* A periodic is inserted into the heap h, where it is not.                *)
LEMMA PeriodicInserted ==
  ASSUME TimersAssumption, TimesKept, NEW w \in Periodic, NEW t \in Int, NEW h, NEW a,
         HeapKept(Periodic, h, a), h.active[w] = 0, Elsewhere(Periodic, w, a, due_at),
         due_at' = [due_at EXCEPT ![w] = t], periodics' = HeapInsert(h, w, t), timers' = timers
  PROVE  TimesKept'
  <1> DEFINE b == [due_at EXCEPT ![w] = t]
             g == HeapInsert(h, w, t)
  <1>1. due_at' = b /\ periodics' = g /\ timers' = timers /\ g = HeapInsert(h, w, t)
    OBVIOUS
  <1>2. DegreeOK /\ w \in TimeWatcher /\ w \notin Timer /\ TimeWatcher = Timer \cup Periodic
    BY TimersApart
  <1>3. /\ due_at \in [TimeWatcher -> Int]
        /\ HeapKept(Timer, timers, due_at) /\ HeapKept(Periodic, periodics, due_at)
    BY DEF TimesKept
  <1>4. /\ b \in [TimeWatcher -> Int] /\ SameBut(Periodic, w, t, b, a)
        /\ \A u \in Timer : b[u] = due_at[u]
    BY <1>2, <1>3 DEF SameBut, Elsewhere
  <1> HIDE DEF b, g
  <1>5. HeapKept(Periodic, g, b)
    BY ONLY <1>1, <1>2, <1>4, HeapKept(Periodic, h, a), w \in Periodic, h.active[w] = 0,
       t \in Int, KeptInsert
  <1>6. HeapKept(Timer, timers, b)
    BY <1>3, <1>4, KeptSame
  <1> QED
    BY <1>1, <1>4, <1>5, <1>6 DEF TimesKept

LEMMA PeriodicStartKeeps ==
  ASSUME TimersAssumption, ClockTypes, TimersKept, NEW w \in Periodic, PeriodicStart(w)
  PROVE  TimersKept'
  <1>1. PICK o \in Delay, i \in Interval :
          /\ due_at' = [due_at EXCEPT ![w] = StartAt(o, i)]
          /\ periodics' = HeapInsert(periodics, w, StartAt(o, i))
          /\ timer_repeat' = [timer_repeat EXCEPT ![w] = i]
          /\ offset' = [offset EXCEPT ![w] = o]
    BY DEF PeriodicStart
  <1>2. o \in Int /\ i \in Nat /\ w \in TimeWatcher
    <2>1. Delay \subseteq Nat /\ Interval \subseteq Nat
      BY DEF TimersAssumption
    <2>2. w \in TimeWatcher
      BY DEF TimeWatcher
    <2> QED
      BY ONLY <2>1, <2>2, o \in Delay, i \in Interval
  <1>3. periodics.active[w] = 0 /\ timers' = timers /\ timers_pending' = timers_pending
    BY TimersApart DEF PeriodicStart
  <1>4. TimesKept'
    <2> DEFINE t == StartAt(o, i)
    <2>1. t \in Int
      BY <1>2, StartIsTime DEF ClockTypes
    <2>2. due_at' = [due_at EXCEPT ![w] = t] /\ periodics' = HeapInsert(periodics, w, t)
      BY <1>1
    <2> HIDE DEF t
    <2>3. TimesKept /\ HeapKept(Periodic, periodics, due_at) /\ Elsewhere(Periodic, w, due_at, due_at)
      BY DEF TimersKept, TimesKept, Elsewhere
    <2> QED
      BY <1>3, <2>1, <2>2, <2>3, PeriodicInserted
  <1>5. Arguments'
    BY <1>1, <1>2 DEF TimersKept, Arguments
  <1> QED
    BY <1>3, <1>4, <1>5 DEF TimersKept

(* The heap without w, which it may have held                              *)
LEMMA PeriodicRemoved ==
  ASSUME TimersAssumption, TimesKept, NEW w \in Periodic, NEW b, Elsewhere(Periodic, w, b, due_at),
         NEW h, h = IF IsActive(w) THEN HeapDelete(periodics, w) ELSE periodics
  PROVE  HeapKept(Periodic, h, b) /\ h.active[w] = 0
  <1>1. /\ DegreeOK /\ (IsActive(w) <=> periodics.active[w] # 0)
        /\ HeapKept(Periodic, periodics, due_at)
    BY TimersApart DEF TimesKept
  <1>2. CASE IsActive(w)
    BY <1>1, <1>2, KeptDelete
  <1>3. CASE ~IsActive(w)
    <2>1. h = periodics /\ periodics.active[w] = 0
      BY <1>1, <1>3
    <2> QED
      BY <1>1, <2>1, KeptOther
  <1> QED
    BY <1>2, <1>3

LEMMA PeriodicStopKeeps ==
  ASSUME TimersAssumption, TimersKept, NEW w \in Periodic, PeriodicStop(w)
  PROVE  TimersKept'
  <1> DEFINE b == [due_at EXCEPT ![w] = 0]
             h == IF IsActive(w) THEN HeapDelete(periodics, w) ELSE periodics
             p == TP!ClearPending(timers_pending, w, timer_priority)
  <1>1. /\ timers_pending' = p /\ p = TP!ClearPending(timers_pending, w, timer_priority)
        /\ periodics' = h /\ due_at' = b
        /\ h = IF IsActive(w) THEN HeapDelete(periodics, w) ELSE periodics
        /\ timers' = timers /\ timer_repeat' = timer_repeat /\ offset' = offset
    BY DEF PeriodicStop
  <1>2. DegreeOK /\ w \in TimeWatcher /\ w \notin Timer /\ TimeWatcher = Timer \cup Periodic
    BY TimersApart
  <1>3. /\ due_at \in [TimeWatcher -> Int] /\ TimesKept
        /\ HeapKept(Timer, timers, due_at) /\ TimePending(timers_pending)
    BY DEF TimersKept, TimesKept
  <1>4. /\ b \in [TimeWatcher -> Int] /\ Elsewhere(Periodic, w, b, due_at)
        /\ \A u \in Timer : b[u] = due_at[u]
    BY <1>2, <1>3 DEF Elsewhere
  <1> HIDE DEF b, h, p
  <1>5. TimePending(p)
    BY <1>1, <1>2, <1>3, TimeCleared
  <1>6. HeapKept(Periodic, h, b)
    BY <1>1, <1>3, <1>4, PeriodicRemoved
  <1>7. HeapKept(Timer, timers, b)
    BY <1>3, <1>4, KeptSame
  <1> QED
    BY <1>1, <1>4, <1>5, <1>6, <1>7 DEF TimersKept, TimesKept, Arguments

LEMMA PeriodicAgainKeeps ==
  ASSUME TimersAssumption, ClockTypes, TimersKept, NEW w \in Periodic, PeriodicAgain(w)
  PROVE  TimersKept'
  <1> DEFINE h == IF IsActive(w) THEN HeapDelete(periodics, w) ELSE periodics
             t == StartAt(offset[w], timer_repeat[w])
             p == TP!ClearPending(timers_pending, w, timer_priority)
  <1>1. /\ timers_pending' = p /\ p = TP!ClearPending(timers_pending, w, timer_priority)
        /\ periodics' = HeapInsert(h, w, t) /\ due_at' = [due_at EXCEPT ![w] = t]
        /\ h = IF IsActive(w) THEN HeapDelete(periodics, w) ELSE periodics
        /\ timers' = timers /\ timer_repeat' = timer_repeat /\ offset' = offset
    BY DEF PeriodicAgain
  <1>2. w \in TimeWatcher
    BY TimersApart
  <1>3. TimesKept /\ TimePending(timers_pending) /\ Elsewhere(Periodic, w, due_at, due_at)
    BY DEF TimersKept, Elsewhere
  <1>4. t \in Int
    <2>1. offset[w] \in Int /\ timer_repeat[w] \in Nat
      BY <1>2 DEF TimersKept, Arguments
    <2> QED
      BY <2>1, StartIsTime DEF ClockTypes
  <1> HIDE DEF h, t, p
  <1>5. TimePending(p)
    BY <1>1, <1>2, <1>3, TimeCleared
  <1>6. HeapKept(Periodic, h, due_at) /\ h.active[w] = 0
    BY <1>1, <1>3, PeriodicRemoved
  <1>7. TimesKept'
    BY <1>1, <1>3, <1>4, <1>6, PeriodicInserted
  <1> QED
    BY <1>1, <1>5, <1>7 DEF TimersKept, Arguments

LEMMA TimersUseKeeps ==
  ASSUME TimersAssumption, TimersInv, TimersUse
  PROVE  TimersInv'
  <1>1. ClockTypes /\ TimersKept /\ timers_phase = "run" /\ timers_phase' = timers_phase
    BY DEF TimersInv, TimersUse
  <1>2. TimersKept'
    <2>1. ASSUME NEW w \in Timer, TimerStart(w) \/ TimerStop(w) \/ TimerAgain(w) PROVE TimersKept'
      BY <1>1, <2>1, TimerStartKeeps, TimerStopKeeps, TimerAgainKeeps
    <2>2. ASSUME NEW w \in Periodic, PeriodicStart(w) \/ PeriodicStop(w) \/ PeriodicAgain(w)
          PROVE  TimersKept'
      BY <1>1, <2>2, PeriodicStartKeeps, PeriodicStopKeeps, PeriodicAgainKeeps
    <2> QED
      BY <2>1, <2>2 DEF TimersUse
  <1>3. ClockTypes'
    BY <1>1 DEF TimersUse, clocks, blocktimes, ClockTypes
  <1>4. NeverOversleeps'
    BY <1>1 DEF NeverOversleeps
  <1> QED
    BY <1>2, <1>3, <1>4 DEF TimersInv

LEMMA TimersInvokeKeeps ==
  ASSUME TimersAssumption, TimersInv, TimersInvoke
  PROVE  TimersInv'
  <1>1. /\ ClockTypes /\ TimersKept /\ timers_phase = "run" /\ timers_phase' = timers_phase
        /\ TP!AnyPending(timers_pending) /\ timers_pending' = TP!Popped(timers_pending)
    BY DEF TimersInv, TimersInvoke
  <1>2. TimePending(timers_pending')
    BY <1>1, TimePopped DEF TimersKept
  <1>3. TimersKept'
    BY <1>1, <1>2 DEF TimersKept, TimesKept, Arguments, TimersInvoke
  <1>4. ClockTypes'
    BY <1>1 DEF TimersInvoke, clocks, blocktimes, ClockTypes
  <1>5. NeverOversleeps'
    BY <1>1 DEF NeverOversleeps
  <1> QED
    BY <1>3, <1>4, <1>5 DEF TimersInv

LEMMA CollectKeeps ==
  ASSUME TimersAssumption, TimersInv, CollectInterval
  PROVE  TimersInv'
  <1>1. ClockTypes /\ TimersKept /\ timers_phase' = "run"
    BY DEF TimersInv, CollectInterval
  <1>2. TimersKept'
    BY <1>1 DEF TimersKept, TimesKept, Arguments, CollectInterval
  <1>3. ClockTypes'
    BY <1>1 DEF CollectInterval, clocks, ClockTypes, TimersAssumption
  <1>4. NeverOversleeps'
    BY <1>1 DEF NeverOversleeps
  <1> QED
    BY <1>2, <1>3, <1>4 DEF TimersInv

(* The clocks have been read, and periodics calculated anew after a jump.  *)
LEMMA ClocksRead ==
  ASSUME TimersAssumption, ClockTypes, ClockMoves, skew' \in Int, TimeUpdate, UNCHANGED blocktimes
  PROVE  ClockTypes'
  <1>1. clock' \in Int
    BY DEF ClockTypes, ClockMoves, TimersAssumption
  <1>2. rtmn_diff' \in Int
    BY DEF TimeUpdate, ClockTypes
  <1> QED
    BY <1>1, <1>2 DEF TimeUpdate, ClockTypes, blocktimes

LEMMA HereInTime ==
  ASSUME TimersKept
  PROVE  /\ InTime(TimersHere) /\ TimersHere.timers = timers /\ TimersHere.periodics = periodics
         /\ TimersHere.pending = timers_pending /\ TimersHere.rfeeds = <<>>
  <1> DEFINE s == TimersHere
             none == <<>>
  <1>1. /\ due_at \in [TimeWatcher -> Int] /\ TimePending(timers_pending)
        /\ HeapKept(Timer, timers, due_at) /\ HeapKept(Periodic, periodics, due_at)
    BY DEF TimersKept, TimesKept
  <1>2. s = [timers |-> timers, periodics |-> periodics, at |-> due_at,
             pending |-> timers_pending, rfeeds |-> none]
    BY DEF TimersHere
  <1>3. none \in Seq(TimeWatcher)
    OBVIOUS
  <1> HIDE DEF s, none
  <1>4. /\ s.timers = timers /\ s.periodics = periodics /\ s.at = due_at
        /\ s.pending = timers_pending /\ s.rfeeds = none
    BY ONLY <1>2
  <1>5. InTime(s)
    BY <1>1, <1>2, <1>3, <1>4, InTimeIn
  <1> QED
    BY <1>4, <1>5 DEF s, none

LEMMA UpdatedKeeps ==
  ASSUME TimersAssumption, TimersKept, ev_rt_now' \in Int, NEW R, R = Updated
  PROVE  /\ InTime(R) /\ R.timers = timers /\ R.pending = timers_pending /\ R.rfeeds = <<>>
         /\ StillActive(Periodic, R.periodics, periodics)
  <1> DEFINE s == TimersHere
  <1>1. /\ InTime(s) /\ s.timers = timers /\ s.periodics = periodics
        /\ s.pending = timers_pending /\ s.rfeeds = <<>>
    BY HereInTime
  <1>2. R = IF Jumped THEN Rescheduled(s) ELSE s
    BY DEF Updated
  <1> HIDE DEF s
  <1>3. CASE Jumped
    BY <1>1, <1>2, <1>3, RescheduledKeeps DEF TimersKept
  <1>4. CASE ~Jumped
    BY <1>1, <1>2, <1>4 DEF StillActive
  <1> QED
    BY <1>3, <1>4

(* The least of the times to the two roots and the longest wait            *)
OneOrNone(X) == X = {} \/ \E x \in Int : X = {x}
LEMMA LeastWait ==
  ASSUME NEW m \in Int, NEW X, NEW Y, OneOrNone(X), OneOrNone(Y),
         NEW l, l = Least(X \cup Y \cup {m})
  PROVE  l \in Int /\ (\A z \in X : z \in Int /\ l <= z) /\ (\A z \in Y : z \in Int /\ l <= z)
  <1> DEFINE S == X \cup Y \cup {m}
  <1>6. PICK x : X = {} \/ (X = {x} /\ x \in Int)
    BY DEF OneOrNone
  <1>7. PICK y : Y = {} \/ (Y = {y} /\ y \in Int)
    BY DEF OneOrNone
  <1>1. S \subseteq Int
    BY <1>6, <1>7
  <1>2. \E u \in S : \A v \in S : u <= v
    <2>1. CASE X = {} /\ Y = {}
      BY <2>1
    <2>2. CASE X = {x} /\ x \in Int /\ Y = {}
      BY <2>2
    <2>3. CASE X = {} /\ Y = {y} /\ y \in Int
      BY <2>3
    <2>4. CASE X = {x} /\ x \in Int /\ Y = {y} /\ y \in Int
      <3>1. \A v \in S : v = x \/ v = y \/ v = m
        BY <2>4
      <3>2. x \in S /\ y \in S /\ m \in S
        BY <2>4
      <3> HIDE DEF S
      <3>3. \/ x <= y /\ x <= m
            \/ y <= x /\ y <= m
            \/ m <= x /\ m <= y
        BY <2>4
      <3>4. CASE x <= y /\ x <= m
        <4>1. \A v \in S : x <= v
          BY <2>4, <3>1, <3>4
        <4> QED
          BY <3>2, <4>1
      <3>5. CASE y <= x /\ y <= m
        <4>1. \A v \in S : y <= v
          BY <2>4, <3>1, <3>5
        <4> QED
          BY <3>2, <4>1
      <3>6. CASE m <= x /\ m <= y
        <4>1. \A v \in S : m <= v
          BY <2>4, <3>1, <3>6
        <4> QED
          BY <3>2, <4>1
      <3> QED
        BY <3>3, <3>4, <3>5, <3>6
    <2> QED
      BY <1>6, <1>7, <2>1, <2>2, <2>3, <2>4
  <1>3. X \subseteq S /\ Y \subseteq S
    OBVIOUS
  <1>4. l = Least(S)
    OBVIOUS
  <1> HIDE DEF S
  <1>5. l \in S /\ \A v \in S : l <= v
    BY <1>2, <1>4, Zenon DEF Least
  <1> QED
    BY <1>1, <1>3, <1>5

(* The time from now to the root of a heap, with the backend's fudge       *)
ToRoot(h, now) == {h.ent[i].at - now + backend_fudge : i \in DOMAIN h.ent \cap {1}}
LEMMA RootTime ==
  ASSUME DegreeOK, backend_fudge \in Nat, NEW W, NEW h, NEW a, HeapKept(W, h, a), NEW now \in Int,
         \A w \in W : a[w] \in Int
  PROVE  /\ OneOrNone(ToRoot(h, now))
         /\ \A w \in W : h.active[w] # 0 => \E z \in ToRoot(h, now) : z <= a[w] - now + backend_fudge
  <1>1. PICK A \in SUBSET W : Heaped(W, h, A, a)
    BY DEF HeapKept
  <1>2. h.ent \in Seq(Ent(W)) /\ \A i \in 1..Len(h.ent) : h.ent[i] \in Ent(W)
    <2>1. h.ent \in Seq(Ent(W))
      BY <1>1 DEF Heaped, Housed, Heaps
    <2> QED
      BY <2>1, ElementOfSeq
  <1>3. 1 \in DOMAIN h.ent => h.ent[1].at \in Int
    <2>1. 1 \in DOMAIN h.ent => 1 \in 1..Len(h.ent)
      BY <1>2
    <2>2. \A i \in 1..Len(h.ent) : h.ent[i].at \in Int
      BY <1>2 DEF Ent
    <2> QED
      BY <2>1, <2>2
  <1>4. \A w \in W : h.active[w] # 0 => 1 \in DOMAIN h.ent /\ h.ent[1].at <= a[w]
    BY <1>1, HeapFirst
  <1>5. CASE 1 \in DOMAIN h.ent
    <2>1. ToRoot(h, now) = {h.ent[1].at - now + backend_fudge}
      BY <1>5 DEF ToRoot
    <2>2. h.ent[1].at - now + backend_fudge \in Int
      BY <1>3, <1>5
    <2>3. \A w \in W : h.active[w] # 0 =>
            h.ent[1].at - now + backend_fudge <= a[w] - now + backend_fudge
      BY <1>3, <1>4, <1>5
    <2>4. OneOrNone(ToRoot(h, now))
      BY <2>1, <2>2 DEF OneOrNone
    <2> QED
      BY <2>1, <2>3, <2>4
  <1>6. CASE 1 \notin DOMAIN h.ent
    <2>1. ToRoot(h, now) = {}
      BY <1>6 DEF ToRoot
    <2> QED
      BY <1>4, <1>6, <2>1 DEF OneOrNone
  <1> QED
    BY <1>5, <1>6

(* How long the loop sleeps and waits, from the least time to a root       *)
LEMMA WholeWait ==
  ASSUME NEW l \in Int, NEW tb \in Nat, NEW f \in Nat, NEW left \in Int, NEW io,
         NEW wait, wait = IF l < tb THEN tb ELSE l,
         NEW time, time = IF left > wait - f THEN wait - f ELSE left,
         NEW z, z = IF io # 0 /\ time > 0 THEN time ELSE 0,
         NEW r, r = wait - z
  PROVE  r >= 0 /\ (z + r <= tb \/ z + r <= l)
  <1>1. wait \in Int /\ wait >= 0 /\ (wait <= tb \/ wait <= l)
    OBVIOUS
  <1>2. time \in Int /\ time <= wait - f
    BY <1>1
  <1>3. z \in Int /\ z <= wait
    BY <1>1, <1>2
  <1> QED
    BY <1>1, <1>3

LEMMA SleepKeeps ==
  ASSUME TimersAssumption, TimersInv, TimersSleep, WaitsFirst
  PROVE  TimersInv'
  <1>1. /\ ClockTypes /\ TimersKept /\ ClockMoves /\ skew' = skew /\ TimeUpdate
        /\ timers' = timers /\ timer_repeat' = timer_repeat /\ offset' = offset
        /\ timers_pending' = timers_pending /\ UNCHANGED blocktimes
    BY DEF TimersInv, TimersSleep, WaitsFirst
  <1>2. ClockTypes'
    <2>1. skew' \in Int
      BY <1>1 DEF ClockTypes
    <2> QED
      BY <1>1, <2>1, ClocksRead
  <1>3. /\ ev_rt_now' \in Int /\ mn_now' \in Int /\ mn_now \in Int
        /\ io_blocktime \in Nat /\ timeout_blocktime \in Nat
        /\ timeout_blocktime' = timeout_blocktime
    BY <1>1, <1>2 DEF ClockTypes, blocktimes
  <1>4. PICK s \in {Updated} : periodics' = s.periodics /\ due_at' = s.at
    BY DEF WaitsFirst
  <1>5. InTime(s) /\ s.timers = timers
    <2>1. s = Updated
      BY <1>4
    <2> QED
      BY <1>1, <1>3, <2>1, UpdatedKeeps
  <1>6. TimesKept'
    BY <1>1, <1>4, <1>5 DEF InTime, TimeState, TimesKept
  <1>7. TimersKept'
    BY <1>1, <1>6 DEF TimersKept, Arguments
  <1> DEFINE X == ToRoot(timers, mn_now')
             Y == ToRoot(periodics', ev_rt_now')
             l == Least(X \cup Y \cup {MAX_BLOCKTIME})
             wait == ToWait
             left == io_blocktime - (mn_now' - mn_now)
             time == IF left > wait - backend_fudge THEN wait - backend_fudge ELSE left
             z == sleeptime'
             r == waittime'
             tb == timeout_blocktime
  <1>8. /\ wait = IF l < tb THEN tb ELSE l
        /\ z = IF io_blocktime # 0 /\ time > 0 THEN time ELSE 0
        /\ r = wait - z
    <2>1. wait = IF l < tb THEN tb ELSE l
      BY DEF ToWait, ToRoot
    <2>2. z = ToSleep(wait) /\ r = wait - z
      BY DEF WaitsFirst
    <2>3. ToSleep(wait) = IF io_blocktime # 0 /\ time > 0 THEN time ELSE 0
      BY DEF ToSleep
    <2> QED
      BY <2>1, <2>2, <2>3
  <1>9. DegreeOK /\ MAX_BLOCKTIME \in Int /\ backend_fudge \in Nat
    BY DEF TimersAssumption, DegreeOK
  <1>10. HeapKept(Timer, timers, due_at') /\ HeapKept(Periodic, periodics', due_at')
         /\ due_at' \in [TimeWatcher -> Int]
    BY <1>1, <1>6 DEF TimesKept
  <1> DEFINE a == due_at'
             h == periodics'
             n == mn_now'
             e == ev_rt_now'
  <1>20. /\ l = Least(X \cup Y \cup {MAX_BLOCKTIME}) /\ X = ToRoot(timers, n) /\ Y = ToRoot(h, e)
         /\ time = IF left > wait - backend_fudge THEN wait - backend_fudge ELSE left
    OBVIOUS
  <1>22. left \in Int /\ tb \in Nat
    BY <1>3
  <1> HIDE DEF X, Y, l, wait, left, time
  <1>21. /\ a \in [TimeWatcher -> Int] /\ n \in Int /\ e \in Int
         /\ HeapKept(Timer, timers, a) /\ HeapKept(Periodic, h, a)
         /\ (\A w \in Timer : a[w] \in Int) /\ (\A w \in Periodic : a[w] \in Int)
    BY <1>3, <1>10 DEF TimeWatcher
  <1> HIDE DEF a, h, n, e, r, z, tb
  <1>11. /\ OneOrNone(X)
         /\ \A w \in Timer : timers.active[w] # 0 => \E x \in X : x <= a[w] - n + backend_fudge
    BY ONLY <1>9, <1>20, <1>21, RootTime
  <1>12. /\ OneOrNone(Y)
         /\ \A w \in Periodic : h.active[w] # 0 => \E y \in Y : y <= a[w] - e + backend_fudge
    BY ONLY <1>9, <1>20, <1>21, RootTime
  <1>13. l \in Int /\ (\A x \in X : x \in Int /\ l <= x) /\ (\A y \in Y : y \in Int /\ l <= y)
    BY ONLY <1>9, <1>11, <1>12, <1>20, LeastWait
  <1>17. r >= 0 /\ (z + r <= tb \/ z + r <= l)
    BY ONLY <1>8, <1>9, <1>13, <1>20, <1>22, WholeWait
  <1>18. wait \in Int /\ z + r \in Int
    <2>1. wait \in Int
      BY ONLY <1>8, <1>13, <1>22
    <2>2. time \in Int
      BY ONLY <1>9, <1>20, <1>22, <2>1
    <2>3. z \in Int
      BY ONLY <1>8, <2>2
    <2> QED
      BY ONLY <1>8, <2>1, <2>3
  <1>14. \A w \in Timer : timers.active[w] # 0 => z + r <= tb \/ z + r <= backend_fudge + a[w] - n
    <2>1. ASSUME NEW w \in Timer, timers.active[w] # 0, ~(z + r <= tb)
          PROVE  z + r <= backend_fudge + a[w] - n
      <3>1. PICK x \in X : x <= a[w] - n + backend_fudge
        BY ONLY <1>11, <2>1
      <3>2. x \in Int /\ l <= x /\ z + r <= l /\ a[w] \in Int
        BY ONLY <1>13, <1>17, <1>21, <2>1
      <3> QED
        BY ONLY <1>9, <1>13, <1>18, <1>21, <3>1, <3>2
    <2> QED
      BY ONLY <2>1
  <1>15. \A w \in Periodic : h.active[w] # 0 => z + r <= tb \/ z + r <= backend_fudge + a[w] - e
    <2>1. ASSUME NEW w \in Periodic, h.active[w] # 0, ~(z + r <= tb)
          PROVE  z + r <= backend_fudge + a[w] - e
      <3>1. PICK x \in Y : x <= a[w] - e + backend_fudge
        BY ONLY <1>12, <2>1
      <3>2. x \in Int /\ l <= x /\ z + r <= l /\ a[w] \in Int
        BY ONLY <1>13, <1>17, <1>21, <2>1
      <3> QED
        BY ONLY <1>9, <1>13, <1>18, <1>21, <3>1, <3>2
    <2> QED
      BY ONLY <2>1
  <1>16. NeverOversleeps'
    <2>1. ASSUME NEW w \in TimeWatcher, IsActive(w)'
          PROVE  \/ sleeptime' + waittime' <= timeout_blocktime'
                 \/ sleeptime' + waittime' <=
                      backend_fudge + due_at'[w] - IF w \in Timer THEN mn_now' ELSE ev_rt_now'
      <3>1. CASE w \in Timer
        BY <1>1, <1>3, <1>14, <2>1, <3>1 DEF a, n, r, z, tb, IsActive
      <3>2. CASE w \notin Timer
        <4>1. w \in Periodic
          BY <3>2 DEF TimeWatcher
        <4> QED
          BY <1>3, <1>15, <2>1, <3>2, <4>1 DEF a, e, r, z, tb, h, IsActive
      <3> QED
        BY <3>1, <3>2
    <2>2. waittime' >= 0
      BY <1>17 DEF r
    <2> QED
      BY <2>1, <2>2 DEF NeverOversleeps
  <1> QED
    BY <1>2, <1>7, <1>16 DEF TimersInv

LEMMA PollKeeps ==
  ASSUME TimersAssumption, TimersInv, TimersSleep, WaitsNot
  PROVE  TimersInv'
  <1>1. ClockTypes /\ TimersKept
    BY DEF TimersInv
  <1>2. ClockTypes' /\ timeout_blocktime' \in Nat
    BY <1>1 DEF TimersSleep, WaitsNot, clocks, blocktimes, ClockTypes
  <1>3. TimersKept'
    BY <1>1 DEF TimersSleep, WaitsNot, TimersKept, TimesKept, Arguments
  <1>4. waittime' = 0 /\ sleeptime' = 0
    BY DEF WaitsNot
  <1>5. NeverOversleeps'
    BY <1>2, <1>4 DEF NeverOversleeps
  <1> QED
    BY <1>2, <1>3, <1>5 DEF TimersInv

LEMMA WakeKeeps ==
  ASSUME TimersAssumption, TimersInv, Wake
  PROVE  TimersInv'
  <1>1. /\ ClockTypes /\ TimersKept /\ ClockMoves /\ skew' \in Skew /\ TimeUpdate
        /\ timer_repeat' = timer_repeat /\ offset' = offset /\ timers_phase' = "run"
        /\ UNCHANGED blocktimes
    BY DEF TimersInv, Wake, ClocksMove
  <1>2. ClockTypes'
    <2>1. skew' \in Int
      BY <1>1 DEF TimersAssumption
    <2> QED
      BY <1>1, <2>1, ClocksRead
  <1>3. ev_rt_now' \in Int /\ mn_now' \in Int /\ Arguments
    BY <1>1, <1>2 DEF ClockTypes, TimersKept
  <1>4. PICK s0 \in {Updated} : \E s1 \in {TimersDue(s0)} :
        \E s2 \in {FedReversed(s1, {"EV_TIMEOUT"})} : \E s3 \in {PeriodicsDue(s2)} :
        \E s \in {FedReversed(s3, {"EV_PERIODIC"})} :
          /\ timers' = s.timers /\ periodics' = s.periodics
          /\ due_at' = s.at /\ timers_pending' = s.pending
    BY Zenon DEF Wake
  <1> DEFINE E == {"EV_TIMEOUT"}
             F == {"EV_PERIODIC"}
  <1>5. PICK s1, s2, s3, s :
          /\ s1 = TimersDue(s0) /\ s2 = FedReversed(s1, E) /\ s3 = PeriodicsDue(s2)
          /\ s = FedReversed(s3, F)
          /\ timers' = s.timers /\ periodics' = s.periodics
          /\ due_at' = s.at /\ timers_pending' = s.pending
    BY <1>4, Zenon
  <1>6. E \in SUBSET Received /\ F \in SUBSET Received
    BY DEF Received
  <1> HIDE DEF E, F
  <1>7. InTime(s0)
    <2>1. s0 = Updated
      BY <1>4
    <2> QED
      BY <1>1, <1>3, <2>1, UpdatedKeeps
  <1>8. InTime(s1)
    BY <1>3, <1>5, <1>7, TimersDueKeeps
  <1>9. InTime(s2)
    BY <1>5, <1>6, <1>8, FedKeeps
  <1>10. InTime(s3)
    BY <1>3, <1>5, <1>9, PeriodicsDueKeeps
  <1>11. InTime(s)
    BY <1>5, <1>6, <1>10, FedKeeps
  <1>12. TimersKept'
    BY <1>1, <1>3, <1>5, <1>11 DEF InTime, TimeState, TimersKept, TimesKept, Arguments
  <1>13. NeverOversleeps'
    BY <1>1 DEF NeverOversleeps
  <1> QED
    BY <1>2, <1>12, <1>13 DEF TimersInv

LEMMA ResumeKeeps ==
  ASSUME TimersAssumption, TimersInv, Resume
  PROVE  TimersInv'
  <1>1. /\ ClockTypes /\ TimersKept /\ ClockMoves /\ skew' \in Skew /\ TimeUpdate
        /\ timer_repeat' = timer_repeat /\ offset' = offset /\ timers_pending' = timers_pending
        /\ timers_phase = "run" /\ timers_phase' = timers_phase /\ UNCHANGED blocktimes
    BY DEF TimersInv, Resume, ClocksMove
  <1>2. ClockTypes'
    <2>1. skew' \in Int
      BY <1>1 DEF TimersAssumption
    <2> QED
      BY <1>1, <2>1, ClocksRead
  <1>3. ev_rt_now' \in Int /\ clock' \in Int /\ mn_now \in Int /\ Arguments
    BY <1>1, <1>2 DEF ClockTypes, TimersKept
  <1> DEFINE b == [w \in TimeWatcher |->
                     due_at[w] + IF w \in Timer /\ IsActive(w) THEN clock' - mn_now ELSE 0]
             h == Copies(timers, b)
             x == [TimersHere EXCEPT !.at = b, !.timers = h]
             s == Rescheduled(x)
             none == <<>>
  <1>4. timers' = s.timers /\ periodics' = s.periodics /\ due_at' = s.at
    BY Zenon DEF Resume
  <1>5. /\ due_at \in [TimeWatcher -> Int] /\ TimePending(timers_pending)
        /\ HeapKept(Timer, timers, due_at) /\ HeapKept(Periodic, periodics, due_at)
    BY <1>1 DEF TimersKept, TimesKept
  <1>6. DegreeOK /\ \A w \in Timer : w \in TimeWatcher /\ (IsActive(w) <=> timers.active[w] # 0)
    BY TimersApart
  <1>7. \A w \in Periodic : w \in TimeWatcher /\ w \notin Timer
    BY TimersApart
  <1>8. b \in [TimeWatcher -> Int]
    <2>1. ASSUME NEW w \in TimeWatcher
          PROVE  (due_at[w] + (IF w \in Timer /\ IsActive(w) THEN clock' - mn_now ELSE 0)) \in Int
      <3>1. due_at[w] \in Int
        BY <1>5
      <3>2. ASSUME w \in Timer /\ IsActive(w)
            PROVE  (due_at[w] + (IF w \in Timer /\ IsActive(w) THEN clock' - mn_now ELSE 0)) \in Int
        BY <1>3, <3>1, <3>2
      <3>3. ASSUME ~(w \in Timer /\ IsActive(w))
            PROVE  (due_at[w] + (IF w \in Timer /\ IsActive(w) THEN clock' - mn_now ELSE 0)) \in Int
        BY <3>1, <3>3
      <3> QED
        BY <3>2, <3>3
    <2> QED
      BY Zenon, <2>1
  <1>9. \A w \in Timer : timers.active[w] # 0 => b[w] = due_at[w] + (clock' - mn_now)
    BY <1>6
  <1>10. \A w \in Periodic : b[w] = due_at[w]
    BY <1>5, <1>7
  <1>11. h = Copies(timers, b) /\ x = [TimersHere EXCEPT !.at = b, !.timers = h]
         /\ s = Rescheduled(x) /\ none \in Seq(TimeWatcher)
    OBVIOUS
  <1>12. TimersHere = [timers |-> timers, periodics |-> periodics, at |-> due_at,
                       pending |-> timers_pending, rfeeds |-> none]
    BY DEF TimersHere
  <1> HIDE DEF b, h, x, s, none
  <1>13. HeapKept(Timer, h, b)
    <2>1. PICK A \in SUBSET Timer : Heaped(Timer, timers, A, due_at)
      BY <1>5 DEF HeapKept
    <2>2. \A u \in A : timers.active[u] # 0
      BY <1>6, <2>1, HeapFirst
    <2> DEFINE d == clock' - mn_now
    <2>3. d \in Int /\ \A u \in A : b[u] = due_at[u] + d
      BY <1>3, <1>9, <2>2
    <2>4. \A u \in Timer : b[u] \in Int
      BY <1>6, <1>8
    <2> HIDE DEF d
    <2>5. Heaped(Timer, h, A, b)
      BY <1>6, <1>11, <2>1, <2>3, <2>4, ShiftKeeps
    <2> QED
      BY <2>5, HeapKeptIn
  <1>14. HeapKept(Periodic, periodics, b)
    BY <1>5, <1>10, KeptSame
  <1>15. x = [timers |-> h, periodics |-> periodics, at |-> b,
              pending |-> timers_pending, rfeeds |-> none]
    BY ONLY <1>11, <1>12
  <1>16. /\ x.timers = h /\ x.periodics = periodics /\ x.at = b
         /\ x.pending = timers_pending /\ x.rfeeds = none
    BY ONLY <1>15
  <1>17. InTime(x)
    BY <1>5, <1>8, <1>11, <1>13, <1>14, <1>15, <1>16, InTimeIn
  <1>18. InTime(s)
    BY <1>3, <1>11, <1>17, RescheduledKeeps
  <1>19. TimersKept'
    BY <1>1, <1>3, <1>4, <1>5, <1>18 DEF InTime, TimeState, TimersKept, TimesKept, Arguments
  <1>20. NeverOversleeps'
    BY <1>1 DEF NeverOversleeps
  <1> QED
    BY <1>2, <1>19, <1>20 DEF TimersInv

LEMMA TimersStart ==
  ASSUME TimersAssumption, TimersInit
  PROVE  TimersInv
  <1>1. ClockTypes
    <2>1. skew \in Int
      BY DEF TimersAssumption, TimersInit
    <2> QED
      BY <2>1 DEF TimersInit, ClockTypes
  <1>2. Arguments /\ due_at \in [TimeWatcher -> Int]
    BY DEF TimersInit, Arguments
  <1>3. HeapKept(Timer, timers, due_at) /\ HeapKept(Periodic, periodics, due_at)
    BY KeptEmpty DEF TimersInit
  <1>4. TimePending(timers_pending)
    <2>1. timers_pending = G(TimeWatcher, TimerPri, timer_pending_w)!NoneFed
      BY DEF TimersInit, TP!NoneFed, G!NoneFed
    <2>2. timer_priority \in [TimeWatcher -> TimerPri] /\ timer_pending_w \notin TimeWatcher
      BY DEF TimersAssumption
    <2> QED
      BY <2>1, <2>2, NonePending DEF TimePending
  <1>5. NeverOversleeps
    BY DEF TimersInit, NeverOversleeps
  <1> QED
    BY <1>1, <1>2, <1>3, <1>4, <1>5 DEF TimersInv, TimersKept, TimesKept

LEMMA TimersInductive ==
  ASSUME TimersAssumption, TimersInv, [TimersNext]_timers_vars
  PROVE  TimersInv'
  <1>1. CASE UNCHANGED timers_vars
    BY <1>1 DEF timers_vars, TimersInv, ClockTypes, TimersKept, TimesKept, Arguments,
       NeverOversleeps, IsActive
  <1> QED
    <2>1. CASE TimersSleep
      BY <2>1, SleepKeeps, PollKeeps DEF TimersSleep
    <2> QED
      BY <1>1, <2>1, TimersUseKeeps, CollectKeeps, TimersInvokeKeeps, WakeKeeps, ResumeKeeps
         DEF TimersNext

(* What verify_heap and verify_watcher assert follows.                     *)
LEMMA KeptVerified ==
  ASSUME DegreeOK, NEW W, NEW h, NEW a, HeapKept(W, h, a)
  PROVE  HeapVerified(h, a)
  <1>1. PICK A \in SUBSET W : Heaped(W, h, A, a)
    BY DEF HeapKept
  <1> DEFINE n == Len(h.ent)
             Z == W \ A
  <1>2. Housed(W, h, A, Z, a) /\ n = Len(h.ent) /\ OrderedTo(Ats(h), n)
    BY <1>1 DEF Heaped
  <1> HIDE DEF n, Z
  <1>3. /\ h \in Heaps(W) /\ h.ent \in Seq(Ent(W)) /\ h.active \in [W -> Nat] /\ n \in Nat
        /\ \A i \in 1..n : EntryHoused(h, A, a, i)
        /\ \A u \in A : PlaceKnown(h, u)
    BY ONLY <1>2, HousedParts
  <1>4. \A i \in 1..n : Ats(h)[i] = h.ent[i].at
    BY <1>2, <1>3, AtsType
  <1>5. DOMAIN h.ent = 1..n /\ DOMAIN h.active = W
    BY <1>2, <1>3
  <1>6. ASSUME NEW i \in 1..n, i > 1 PROVE h.ent[HPARENT(i)].at <= h.ent[i].at
    <2>1. i \in 2..n /\ HPARENT(i) \in 1..n
      BY <1>3, <1>6, ParentAbove
    <2> QED
      BY <1>2, <1>4, <2>1 DEF OrderedTo, InOrder
  <1>7. \A u \in W : h.active[u] # 0 => u \in A
    BY <1>1, HeapFirst
  <1>8. \A u \in W : h.active[u] # 0 => h.ent[h.active[u]].w = u
    BY <1>3, <1>7 DEF PlaceKnown
  <1>9. \A i \in 1..n : h.active[h.ent[i].w] = i /\ h.ent[i].at = a[h.ent[i].w]
    BY <1>3 DEF EntryHoused
  <1> QED
    BY <1>5, <1>6, <1>8, <1>9 DEF HeapVerified

LEMMA HeapsFollow ==
  ASSUME TimersAssumption, TimersInv
  PROVE  HeapsVerified
  <1>1. /\ HeapKept(Timer, timers, due_at) /\ HeapKept(Periodic, periodics, due_at)
        /\ TimePending(timers_pending)
    BY DEF TimersInv, TimersKept, TimesKept
  <1>2. HeapVerified(timers, due_at) /\ HeapVerified(periodics, due_at)
    BY <1>1, TimersApart, KeptVerified
  <1>3. TP!PendingVerified(timers_pending, timer_priority)
    <2> SUFFICES ASSUME NEW w \in TimeWatcher, NEW p \in TimerPri,
                        NEW i \in 1..Len(timers_pending.q[p])
                 PROVE  timers_pending.q[p][i].w = w
                          <=> p = timer_priority[w] /\ timers_pending.at[w] = i
      BY DEF TP!PendingVerified
    <2> QED
      BY <1>1 DEF TimePending, Verified, Placed
  <1> QED
    BY <1>2, <1>3 DEF HeapsVerified

(* Who is due of a heap, and a walk that takes the one due first, then the *)
(* next, and so on: of D0, who are due at the times a, after n steps r     *)
(* were taken and D are left.                                              *)
DueIn(W, h, a, now) == {u \in W : h.active[u] # 0 /\ a[u] < now}
WasTaken(r, u) == \E i \in 1..Len(r) : r[i] = u
Walked(D0, a, n, D, r) ==
  /\ r \in Seq(D0) /\ D \subseteq D0
  /\ \A u \in D0 : u \in D <=> ~WasTaken(r, u)
  /\ \A i, j \in 1..Len(r) : i < j => r[i] # r[j] /\ a[r[i]] <= a[r[j]]
  /\ \A i \in 1..Len(r), u \in D : a[r[i]] <= a[u]
  /\ Len(r) = n \/ D = {}
First(D, a, w) == w \in D /\ \A u \in D : a[w] <= a[u]
WalkOne(D, a, r, E, q) ==
  \/ D = {} /\ E = D /\ q = r
  \/ \E w \in D : First(D, a, w) /\ q = Append(r, w) /\ E = D \ {w}

LEMMA WalkStarts ==
  ASSUME NEW D, NEW a, NEW r, r = <<>>
  PROVE  Walked(D, a, 0, D, r)
  BY DEF Walked, WasTaken

LEMMA WalkStep ==
  ASSUME NEW D0, NEW a, NEW n \in Nat, NEW D, NEW r, Walked(D0, a, n, D, r),
         NEW E, NEW q, WalkOne(D, a, r, E, q)
  PROVE  Walked(D0, a, n + 1, E, q)
  <1>1. CASE D = {} /\ E = D /\ q = r
    BY <1>1 DEF Walked
  <1>2. ASSUME NEW w \in D, First(D, a, w), q = Append(r, w), E = D \ {w}
        PROVE  Walked(D0, a, n + 1, E, q)
    <2> DEFINE m == Len(r)
    <2>1. /\ r \in Seq(D0) /\ w \in D0 /\ D \subseteq D0 /\ m = n
          /\ \A u \in D0 : u \in D <=> ~WasTaken(r, u)
          /\ \A i, j \in 1..m : i < j => r[i] # r[j] /\ a[r[i]] <= a[r[j]]
          /\ \A i \in 1..m, u \in D : a[r[i]] <= a[u]
      BY <1>2 DEF Walked
    <2>2. /\ q \in Seq(D0) /\ Len(q) = m + 1 /\ q[m + 1] = w /\ \A i \in 1..m : q[i] = r[i]
      BY <1>2, <2>1, AppendProperties
    <2>3. m = Len(r) /\ m \in Nat
      BY <2>1
    <2> HIDE DEF m
    <2>4. \A i \in 1..(m + 1) : i \in 1..m \/ i = m + 1
      BY <2>3
    <2>5. \A i \in 1..m : i \in 1..(m + 1)
      BY <2>3
    <2>6. m + 1 \in 1..(m + 1)
      BY <2>3
    <2>7. \A i \in 1..m : r[i] # w
      BY <1>2, <2>1, <2>3 DEF WasTaken
    <2>8. ASSUME NEW u \in D0 PROVE u \in E <=> ~WasTaken(q, u)
      <3>1. WasTaken(q, u) <=> WasTaken(r, u) \/ u = w
        BY <2>2, <2>3, <2>4, <2>5, <2>6 DEF WasTaken
      <3> QED
        BY <1>2, <2>1, <3>1
    <2>9. ASSUME NEW i \in 1..(m + 1), NEW j \in 1..(m + 1), i < j
          PROVE  q[i] # q[j] /\ a[q[i]] <= a[q[j]]
      <3>1. i \in 1..m
        BY <2>3, <2>9
      <3>2. CASE j \in 1..m
        BY <2>1, <2>2, <2>9, <3>1, <3>2
      <3>3. CASE j = m + 1
        BY <1>2, <2>1, <2>2, <2>7, <3>1, <3>3
      <3> QED
        BY <2>4, <3>2, <3>3
    <2>10. ASSUME NEW i \in 1..(m + 1), NEW u \in E PROVE a[q[i]] <= a[u]
      <3>1. u \in D
        BY <1>2
      <3>2. CASE i \in 1..m
        BY <2>1, <2>2, <3>1, <3>2
      <3>3. CASE i = m + 1
        BY <1>2, <2>2, <3>1, <3>3 DEF First
      <3> QED
        BY <2>4, <3>2, <3>3
    <2>11. E \subseteq D0 /\ Len(q) = n + 1
      BY <1>2, <2>1, <2>2
    <2> QED
      BY <2>2, <2>8, <2>9, <2>10, <2>11 DEF Walked
  <1> QED
    BY <1>1, <1>2 DEF WalkOne

(* As many steps as there are watchers leave nobody who is due             *)
LEMMA WalkEnds ==
  ASSUME NEW A, IsFiniteSet(A), NEW D0 \in SUBSET A, NEW n \in Nat, n = Cardinality(A),
         NEW a, NEW D, NEW r, Walked(D0, a, n, D, r)
  PROVE  D = {}
  <1> SUFFICES ASSUME D # {} PROVE FALSE
    OBVIOUS
  <1>1. /\ Len(r) = n /\ r \in Seq(D0) /\ D \subseteq D0
        /\ \A u \in D0 : u \in D <=> ~WasTaken(r, u)
        /\ \A i, j \in 1..n : i < j => r[i] # r[j]
    BY DEF Walked
  <1>2. r \in [1..n -> A]
    <2>1. r \in [1..n -> D0]
      BY <1>1
    <2> QED
      BY <2>1
  <1>3. ASSUME NEW i \in 1..n, NEW j \in 1..n, r[i] = r[j] PROVE i = j
    <2>1. i < j \/ j < i \/ i = j
      OBVIOUS
    <2> QED
      BY <1>1, <1>3, <2>1
  <1>4. r \in Injection(1..n, A)
    BY <1>2, <1>3 DEF Injection, IsInjective
  <1>5. Cardinality(1..n) = n
    BY FS_Interval
  <1>6. r \in Surjection(1..n, A)
    BY <1>4, <1>5, FS_Injection
  <1>7. \A u \in A : \E i \in 1..n : r[i] = u
    BY <1>6 DEF Surjection
  <1>8. PICK u \in D : TRUE
    OBVIOUS
  <1>9. u \in A /\ u \in D0
    BY <1>1, <1>8
  <1> QED
    BY <1>1, <1>7, <1>8, <1>9 DEF WasTaken

(* A heap has as many entries as active watchers                           *)
LEMMA HeapCount ==
  ASSUME NEW W, NEW h, NEW A, NEW a, Heaped(W, h, A, a)
  PROVE  Len(h.ent) \in Nat /\ IsFiniteSet(A) /\ Cardinality(A) = Len(h.ent)
  <1> DEFINE n == Len(h.ent)
             f == [i \in 1..n |-> h.ent[i].w]
  <1>1. /\ n \in Nat
        /\ \A i \in 1..n : EntryHoused(h, A, a, i)
        /\ \A u \in A : PlaceKnown(h, u)
    <2>1. Housed(W, h, A, W \ A, a) /\ n = Len(h.ent)
      BY DEF Heaped
    <2> HIDE DEF n
    <2> QED
      BY ONLY <2>1, HousedParts
  <1>2. \A i \in 1..n : h.ent[i].w \in A /\ h.active[h.ent[i].w] = i
    BY <1>1 DEF EntryHoused
  <1>3. \A u \in A : h.active[u] \in 1..n /\ h.ent[h.active[u]].w = u
    BY <1>1 DEF PlaceKnown
  <1>4. n = Len(h.ent)
    OBVIOUS
  <1> HIDE DEF n
  <1>5. f \in [1..n -> A] /\ \A i \in 1..n : f[i] = h.ent[i].w
    BY <1>2
  <1> HIDE DEF f
  <1>6. \A i, j \in 1..n : f[i] = f[j] => i = j
    BY <1>2, <1>5
  <1>7. \A u \in A : \E i \in 1..n : f[i] = u
    BY <1>3, <1>5
  <1>8. f \in Bijection(1..n, A)
    BY <1>5, <1>6, <1>7 DEF Bijection, Injection, Surjection, IsInjective
  <1>9. IsFiniteSet(1..n) /\ Cardinality(1..n) = n
    BY <1>1, FS_Interval
  <1> QED
    BY <1>1, <1>4, <1>8, <1>9, FS_Bijection DEF ExistsBijection

LEMMA DueWalked ==
  ASSUME NEW W, NEW h, NEW b, HeapKept(W, h, b), DegreeOK, NEW a, NEW now, NEW D0, D0 = DueIn(W, h, a, now),
         NEW n, n = Len(h.ent), NEW D, NEW r, Walked(D0, a, n, D, r)
  PROVE  D = {}
  <1>1. PICK A \in SUBSET W : Heaped(W, h, A, b)
    BY DEF HeapKept
  <1>2. n \in Nat /\ IsFiniteSet(A) /\ n = Cardinality(A)
    BY <1>1, HeapCount
  <1>3. D0 \in SUBSET A
    BY <1>1, HeapFirst DEF DueIn
  <1> QED
    BY <1>2, <1>3, WalkEnds

(* The root is the first who is due, if anybody is                         *)
LEMMA RootDue ==
  ASSUME DegreeOK, NEW W, NEW h, NEW a, HeapKept(W, h, a), \A u \in W : a[u] \in Int, NEW now \in Int
  PROVE  /\ h.ent = <<>> \/ h.ent[1].at >= now => DueIn(W, h, a, now) = {}
         /\ ~(h.ent = <<>> \/ h.ent[1].at >= now) => First(DueIn(W, h, a, now), a, h.ent[1].w)
  <1> DEFINE n == Len(h.ent)
  <1>1. PICK A \in SUBSET W : Heaped(W, h, A, a)
    BY DEF HeapKept
  <1>2. /\ \A u \in W : u \in A <=> h.active[u] # 0
        /\ \A u \in A : 1 \in DOMAIN h.ent /\ h.ent[1].at <= a[u]
    BY <1>1, HeapFirst
  <1>3. /\ h.ent \in Seq(Ent(W)) /\ n \in Nat
        /\ \A i \in 1..n : h.ent[i] \in Ent(W)
        /\ \A i \in 1..n : EntryHoused(h, A, a, i)
    <2>1. Housed(W, h, A, W \ A, a) /\ n = Len(h.ent)
      BY <1>1 DEF Heaped
    <2> HIDE DEF n
    <2> QED
      BY ONLY <2>1, HousedParts
  <1>4. \A u \in DueIn(W, h, a, now) : u \in A /\ a[u] < now /\ a[u] \in Int
    BY <1>2 DEF DueIn
  <1>5. h.ent # <<>> => /\ 1 \in 1..n /\ h.ent[1].at \in Int
                        /\ h.ent[1].w \in A /\ h.ent[1].at = a[h.ent[1].w]
    <2>1. h.ent # <<>> => 1 \in 1..n
      BY <1>3
    <2>2. 1 \in 1..n => h.ent[1].at \in Int /\ h.ent[1].w \in A /\ h.ent[1].at = a[h.ent[1].w]
      BY <1>3 DEF Ent, EntryHoused
    <2> QED
      BY <2>1, <2>2
  <1>6. ASSUME h.ent = <<>> \/ h.ent[1].at >= now PROVE DueIn(W, h, a, now) = {}
    <2> SUFFICES ASSUME NEW u \in DueIn(W, h, a, now) PROVE FALSE
      OBVIOUS
    <2>1. 1 \in DOMAIN h.ent /\ h.ent[1].at <= a[u] /\ a[u] < now /\ a[u] \in Int
      BY <1>2, <1>4
    <2>2. h.ent # <<>>
      BY <2>1
    <2> QED
      BY <1>5, <1>6, <2>1, <2>2
  <1>7. ASSUME ~(h.ent = <<>> \/ h.ent[1].at >= now)
        PROVE  First(DueIn(W, h, a, now), a, h.ent[1].w)
    <2>1. h.ent[1].w \in DueIn(W, h, a, now)
      BY <1>2, <1>5, <1>7 DEF DueIn
    <2> QED
      BY <1>2, <1>4, <1>5, <1>7, <2>1 DEF First
  <1> QED
    BY <1>6, <1>7

(* The root is set anew to a time that is not due, or leaves the heap      *)
Times(W, a) == \A u \in W : a[u] \in Int
RootIsDue(h, now) == ~(h.ent = <<>> \/ h.ent[1].at >= now)
ActiveBut(W, w, g, h) == \A u \in W : u # w => (g.active[u] # 0 <=> h.active[u] # 0)
NoMoreDue(g, b, w, now) == g.active[w] = 0 \/ (b[w] \in Int /\ b[w] >= now)
WalkedOn(W, h, a, r, g, b, q, now) ==
  /\ WalkOne(DueIn(W, h, a, now), a, r, DueIn(W, g, b, now), q)
  /\ \A u \in DueIn(W, g, b, now) : b[u] = a[u]

LEMMA RootTaken ==
  ASSUME DegreeOK, NEW W, NEW h, NEW a, HeapKept(W, h, a), Times(W, a), NEW now \in Int,
         RootIsDue(h, now), NEW w, w = h.ent[1].w, NEW b, Elsewhere(W, w, b, a),
         NEW g, ActiveBut(W, w, g, h), NoMoreDue(g, b, w, now), NEW r, NEW q, q = Append(r, w)
  PROVE  WalkedOn(W, h, a, r, g, b, q, now)
  <1> DEFINE D == DueIn(W, h, a, now)
             E == DueIn(W, g, b, now)
  <1>1. First(D, a, w)
    BY RootDue DEF Times, RootIsDue
  <1>2. w \notin E
    BY DEF DueIn, NoMoreDue
  <1>3. ASSUME NEW u \in W, u # w PROVE (u \in E <=> u \in D) /\ b[u] = a[u]
    BY <1>3 DEF DueIn, ActiveBut, Elsewhere
  <1>4. D \subseteq W /\ E \subseteq W
    BY DEF DueIn
  <1>5. \A u \in E : b[u] = a[u]
    BY <1>2, <1>3, <1>4
  <1> HIDE DEF D, E
  <1>6. E = D \ {w}
    BY <1>2, <1>3, <1>4
  <1>7. WalkOne(D, a, r, E, q)
    BY <1>1, <1>6 DEF WalkOne, First
  <1> QED
    BY <1>5, <1>7 DEF D, E, WalkedOn

(* The same watchers stay active                                           *)
LEMMA RootActive ==
  ASSUME DegreeOK, NEW W, NEW h, NEW a, HeapKept(W, h, a), h.ent # <<>>, NEW w, w = h.ent[1].w,
         NEW t \in Int, NEW b, SameBut(W, w, t, b, a), NEW g, TimeSet(h, 1, t, g),
         NEW R, R = downheap(g, 1)
  PROVE  ActiveBut(W, w, R, h)
  <1>1. PICK A \in SUBSET W : Heaped(W, h, A, a)
    BY DEF HeapKept
  <1>2. SameBut(A, w, t, b, a)
    BY DEF SameBut
  <1>3. Heaped(W, R, A, b)
    BY <1>1, <1>2, RootKeeps
  <1>4. \A u \in W : u \in A <=> R.active[u] # 0
    BY <1>3, HeapFirst
  <1>5. \A u \in W : u \in A <=> h.active[u] # 0
    BY <1>1, HeapFirst
  <1> QED
    BY <1>4, <1>5 DEF ActiveBut

LEMMA DeletedActive ==
  ASSUME DegreeOK, NEW W, NEW h, NEW a, HeapKept(W, h, a), NEW w \in W, h.active[w] # 0,
         NEW b, Elsewhere(W, w, b, a), NEW R, R = HeapDelete(h, w)
  PROVE  R.active[w] = 0 /\ ActiveBut(W, w, R, h)
  <1>1. PICK A \in SUBSET W : Heaped(W, h, A, a)
    BY DEF HeapKept
  <1>2. w \in A /\ \A u \in A : u # w => b[u] = a[u]
    <2>1. w \in A
      BY <1>1, HeapFirst
    <2> QED
      BY <2>1 DEF Elsewhere
  <1> DEFINE B == A \ {w}
  <1>3. Heaped(W, R, B, b)
    BY <1>1, <1>2, DeleteKeeps
  <1>4. \A u \in W : u \in B <=> u \in A /\ u # w
    OBVIOUS
  <1> HIDE DEF B
  <1>5. \A u \in W : u \in B <=> R.active[u] # 0
    BY <1>3, HeapFirst
  <1>6. \A u \in W : u \in A <=> h.active[u] # 0
    BY <1>1, HeapFirst
  <1> QED
    BY <1>4, <1>5, <1>6 DEF ActiveBut

LEMMA NotPending ==
  ASSUME NEW Q, NEW w, Q.at[w] = 0, NEW R, R = TP!ClearPending(Q, w, timer_priority)
  PROVE  R = Q
  BY Zenon DEF TP!ClearPending

(* One timer that is due is taken                                     *)
TimerDueWalks(s, R) ==
  /\ R.periodics = s.periodics /\ R.pending = s.pending /\ \A u \in Periodic : R.at[u] = s.at[u]
  /\ WalkedOn(Timer, s.timers, s.at, s.rfeeds, R.timers, R.at, R.rfeeds, mn_now')

LEMMA TimerDueStep ==
  ASSUME TimersAssumption, Arguments, mn_now' \in Int, NEW s, InTime(s),
         \A u \in Timer : s.pending.at[u] = 0, NEW R, R = TimerDue(s)
  PROVE  TimerDueWalks(s, R)
  <1> DEFINE w == s.timers.ent[1].w
             next == s.at[w] + timer_repeat[w]
             t == IF next < mn_now' THEN mn_now' ELSE next
             g == [s.timers EXCEPT !.ent[1].at = t]
             d == downheap(g, 1)
             x == HeapDelete(s.timers, w)
             p == TP!ClearPending(s.pending, w, timer_priority)
             q == Append(s.rfeeds, w)
             b == [s.at EXCEPT ![w] = t]
             b0 == [s.at EXCEPT ![w] = 0]
  <1>1. R = IF s.timers.ent = <<>> \/ s.timers.ent[1].at >= mn_now' THEN s
            ELSE IF timer_repeat[w] # 0
              THEN [s EXCEPT !.at[w] = t, !.rfeeds = Append(@, w), !.timers = d]
            ELSE [s EXCEPT !.at[w] = 0, !.rfeeds = Append(@, w), !.timers = x,
                           !.pending = TP!ClearPending(@, w, timer_priority)]
    BY Zenon DEF TimerDue
  <1>2. /\ s \in TimeState /\ s.at \in [TimeWatcher -> Int] /\ s.rfeeds \in Seq(TimeWatcher)
        /\ HeapKept(Timer, s.timers, s.at) /\ Times(Timer, s.at)
    BY DEF InTime, TimeState, TimeWatcher, Times
  <1>3. DegreeOK /\ Timer \cap Periodic = {}
    BY DEF TimersAssumption, DegreeOK
  <1>4. w = s.timers.ent[1].w /\ g = [s.timers EXCEPT !.ent[1].at = t] /\ q = Append(s.rfeeds, w)
    OBVIOUS
  <1>5. CASE s.timers.ent = <<>> \/ s.timers.ent[1].at >= mn_now'
    <2>1. R = s
      BY <1>1, <1>5
    <2>2. DueIn(Timer, s.timers, s.at, mn_now') = {}
      BY <1>2, <1>3, <1>5, RootDue DEF Times
    <2> QED
      BY <2>1, <2>2 DEF TimerDueWalks, WalkOne, WalkedOn
  <1>6. ASSUME s.timers.ent # <<>>
        PROVE  w \in Timer /\ s.timers.active[w] # 0 /\ w \in TimeWatcher /\ w \notin Periodic
    <2> HIDE DEF w
    <2>1. w \in Timer /\ s.timers.active[w] # 0
      BY <1>2, <1>4, <1>6, KeptRooted
    <2> QED
      BY <1>3, <2>1 DEF TimeWatcher
  <1>7. CASE ~(s.timers.ent = <<>> \/ s.timers.ent[1].at >= mn_now') /\ timer_repeat[w] # 0
    <2>1. R = [s EXCEPT !.at = b, !.rfeeds = q, !.timers = d]
      BY <1>1, <1>7
    <2>2. t \in Int /\ t >= mn_now'
      <3>1. s.at[w] \in Int /\ timer_repeat[w] \in Nat
        BY <1>2, <1>6, <1>7 DEF Arguments
      <3> QED
        BY <3>1
    <2>3. b \in [TimeWatcher -> Int] /\ b[w] = t /\ \A u \in TimeWatcher : u # w => b[u] = s.at[u]
      BY <1>2, <1>6, <1>7, <2>2
    <2>4. TimeSet(s.timers, 1, t, g) /\ d = downheap(g, 1)
      BY DEF TimeSet
    <2> HIDE DEF w, t, g, d, q, b
    <2>5. SameBut(Timer, w, t, b, s.at) /\ \A u \in Periodic : b[u] = s.at[u]
      BY <1>6, <1>7, <2>3 DEF SameBut, TimeWatcher
    <2>6. ActiveBut(Timer, w, d, s.timers)
      BY <1>2, <1>3, <1>4, <1>7, <2>2, <2>4, <2>5, RootActive
    <2>7. Elsewhere(Timer, w, b, s.at)
      BY <2>5 DEF SameBut, Elsewhere
    <2>8. NoMoreDue(d, b, w, mn_now') /\ RootIsDue(s.timers, mn_now')
      BY <1>7, <2>2, <2>3 DEF NoMoreDue, RootIsDue
    <2>9. WalkedOn(Timer, s.timers, s.at, s.rfeeds, d, b, q, mn_now')
      BY <1>2, <1>3, <1>4, <2>6, <2>7, <2>8, RootTaken
    <2>10. /\ R.timers = d /\ R.periodics = s.periodics /\ R.at = b
           /\ R.pending = s.pending /\ R.rfeeds = q
      BY ONLY <1>2, <2>1 DEF TimeState
    <2> QED
      BY <2>5, <2>9, <2>10 DEF TimerDueWalks
  <1>8. CASE ~(s.timers.ent = <<>> \/ s.timers.ent[1].at >= mn_now') /\ timer_repeat[w] = 0
    <2>1. R = [s EXCEPT !.at = b0, !.rfeeds = q, !.timers = x, !.pending = p]
      BY <1>1, <1>8
    <2>3. /\ b0 \in [TimeWatcher -> Int] /\ \A u \in TimeWatcher : u # w => b0[u] = s.at[u]
      BY <1>2, <1>6, <1>8
    <2>4. x = HeapDelete(s.timers, w) /\ p = TP!ClearPending(s.pending, w, timer_priority)
      OBVIOUS
    <2> HIDE DEF w, x, p, q, b0
    <2>5. Elsewhere(Timer, w, b0, s.at) /\ \A u \in Periodic : b0[u] = s.at[u]
      BY <1>6, <1>8, <2>3 DEF Elsewhere, TimeWatcher
    <2>6. x.active[w] = 0 /\ ActiveBut(Timer, w, x, s.timers)
      BY <1>2, <1>3, <1>6, <1>8, <2>4, <2>5, DeletedActive
    <2>7. p = s.pending
      <3>1. s.pending.at[w] = 0
        BY <1>6, <1>8
      <3> QED
        BY <2>4, <3>1, NotPending
    <2>8. NoMoreDue(x, b0, w, mn_now') /\ RootIsDue(s.timers, mn_now')
      BY <1>8, <2>6 DEF NoMoreDue, RootIsDue
    <2>9. WalkedOn(Timer, s.timers, s.at, s.rfeeds, x, b0, q, mn_now')
      BY <1>2, <1>3, <1>4, <2>5, <2>6, <2>8, RootTaken
    <2>10. /\ R.timers = x /\ R.periodics = s.periodics /\ R.at = b0
           /\ R.pending = p /\ R.rfeeds = q
      BY ONLY <1>2, <2>1 DEF TimeState
    <2> QED
      BY <2>5, <2>7, <2>9, <2>10 DEF TimerDueWalks
  <1> QED
    BY <1>5, <1>7, <1>8

LEMMA NextIsLater ==
  ASSUME NEW off \in Int, NEW ival \in Nat, ival # 0, NEW t \in Int
  PROVE  NextAt(off, ival, t) \in Int /\ NextAt(off, ival, t) >= t
  BY DEF NextAt, Ceil

(* One periodic that is due is taken                                     *)
PeriodicDueWalks(s, R) ==
  /\ R.timers = s.timers /\ R.pending = s.pending /\ \A u \in Timer : R.at[u] = s.at[u]
  /\ WalkedOn(Periodic, s.periodics, s.at, s.rfeeds, R.periodics, R.at, R.rfeeds, ev_rt_now')

LEMMA PeriodicDueStep ==
  ASSUME TimersAssumption, Arguments, ev_rt_now' \in Int, NEW s, InTime(s),
         \A u \in Periodic : s.pending.at[u] = 0, NEW R, R = PeriodicDue(s)
  PROVE  PeriodicDueWalks(s, R)
  <1> DEFINE w == s.periodics.ent[1].w
             up == NextAt(offset[w], timer_repeat[w], ev_rt_now')
             t == IF up = ev_rt_now' THEN up + timer_repeat[w] ELSE up
             g == [s.periodics EXCEPT !.ent[1].at = t]
             d == downheap(g, 1)
             x == HeapDelete(s.periodics, w)
             p == TP!ClearPending(s.pending, w, timer_priority)
             q == Append(s.rfeeds, w)
             b == [s.at EXCEPT ![w] = t]
             b0 == [s.at EXCEPT ![w] = 0]
  <1>1. R = IF s.periodics.ent = <<>> \/ s.periodics.ent[1].at >= ev_rt_now' THEN s
            ELSE IF timer_repeat[w] # 0
              THEN [s EXCEPT !.at[w] = t, !.rfeeds = Append(@, w), !.periodics = d]
            ELSE [s EXCEPT !.at[w] = 0, !.rfeeds = Append(@, w), !.periodics = x,
                           !.pending = TP!ClearPending(@, w, timer_priority)]
    BY Zenon DEF PeriodicDue
  <1>2. /\ s \in TimeState /\ s.at \in [TimeWatcher -> Int] /\ s.rfeeds \in Seq(TimeWatcher)
        /\ HeapKept(Periodic, s.periodics, s.at) /\ Times(Periodic, s.at)
    BY DEF InTime, TimeState, TimeWatcher, Times
  <1>3. DegreeOK /\ Timer \cap Periodic = {}
    BY DEF TimersAssumption, DegreeOK
  <1>4. w = s.periodics.ent[1].w /\ g = [s.periodics EXCEPT !.ent[1].at = t] /\ q = Append(s.rfeeds, w)
    OBVIOUS
  <1>5. CASE s.periodics.ent = <<>> \/ s.periodics.ent[1].at >= ev_rt_now'
    <2>1. R = s
      BY <1>1, <1>5
    <2>2. DueIn(Periodic, s.periodics, s.at, ev_rt_now') = {}
      BY <1>2, <1>3, <1>5, RootDue DEF Times
    <2> QED
      BY <2>1, <2>2 DEF PeriodicDueWalks, WalkOne, WalkedOn
  <1>6. ASSUME s.periodics.ent # <<>>
        PROVE  w \in Periodic /\ s.periodics.active[w] # 0 /\ w \in TimeWatcher /\ w \notin Timer
    <2> HIDE DEF w
    <2>1. w \in Periodic /\ s.periodics.active[w] # 0
      BY <1>2, <1>4, <1>6, KeptRooted
    <2> QED
      BY <1>3, <2>1 DEF TimeWatcher
  <1>7. CASE ~(s.periodics.ent = <<>> \/ s.periodics.ent[1].at >= ev_rt_now') /\ timer_repeat[w] # 0
    <2>1. R = [s EXCEPT !.at = b, !.rfeeds = q, !.periodics = d]
      BY <1>1, <1>7
    <2>2. t \in Int /\ t >= ev_rt_now'
      <3>1. offset[w] \in Int /\ timer_repeat[w] \in Nat /\ timer_repeat[w] # 0
        BY <1>6, <1>7 DEF Arguments
      <3>2. up \in Int /\ up >= ev_rt_now'
        BY <1>7, <3>1, NextIsLater
      <3> HIDE DEF up
      <3> QED
        BY <3>1, <3>2
    <2>3. b \in [TimeWatcher -> Int] /\ b[w] = t /\ \A u \in TimeWatcher : u # w => b[u] = s.at[u]
      BY <1>2, <1>6, <1>7, <2>2
    <2>4. TimeSet(s.periodics, 1, t, g) /\ d = downheap(g, 1)
      BY DEF TimeSet
    <2> HIDE DEF w, t, g, d, q, b
    <2>5. SameBut(Periodic, w, t, b, s.at) /\ \A u \in Timer : b[u] = s.at[u]
      BY <1>6, <1>7, <2>3 DEF SameBut, TimeWatcher
    <2>6. ActiveBut(Periodic, w, d, s.periodics)
      BY <1>2, <1>3, <1>4, <1>7, <2>2, <2>4, <2>5, RootActive
    <2>7. Elsewhere(Periodic, w, b, s.at)
      BY <2>5 DEF SameBut, Elsewhere
    <2>8. NoMoreDue(d, b, w, ev_rt_now') /\ RootIsDue(s.periodics, ev_rt_now')
      BY <1>7, <2>2, <2>3 DEF NoMoreDue, RootIsDue
    <2>9. WalkedOn(Periodic, s.periodics, s.at, s.rfeeds, d, b, q, ev_rt_now')
      BY <1>2, <1>3, <1>4, <2>6, <2>7, <2>8, RootTaken
    <2>10. /\ R.periodics = d /\ R.timers = s.timers /\ R.at = b
           /\ R.pending = s.pending /\ R.rfeeds = q
      BY ONLY <1>2, <2>1 DEF TimeState
    <2> QED
      BY <2>5, <2>9, <2>10 DEF PeriodicDueWalks
  <1>8. CASE ~(s.periodics.ent = <<>> \/ s.periodics.ent[1].at >= ev_rt_now') /\ timer_repeat[w] = 0
    <2>1. R = [s EXCEPT !.at = b0, !.rfeeds = q, !.periodics = x, !.pending = p]
      BY <1>1, <1>8
    <2>3. /\ b0 \in [TimeWatcher -> Int] /\ \A u \in TimeWatcher : u # w => b0[u] = s.at[u]
      BY <1>2, <1>6, <1>8
    <2>4. x = HeapDelete(s.periodics, w) /\ p = TP!ClearPending(s.pending, w, timer_priority)
      OBVIOUS
    <2> HIDE DEF w, x, p, q, b0
    <2>5. Elsewhere(Periodic, w, b0, s.at) /\ \A u \in Timer : b0[u] = s.at[u]
      BY <1>6, <1>8, <2>3 DEF Elsewhere, TimeWatcher
    <2>6. x.active[w] = 0 /\ ActiveBut(Periodic, w, x, s.periodics)
      BY <1>2, <1>3, <1>6, <1>8, <2>4, <2>5, DeletedActive
    <2>7. p = s.pending
      <3>1. s.pending.at[w] = 0
        BY <1>6, <1>8
      <3> QED
        BY <2>4, <3>1, NotPending
    <2>8. NoMoreDue(x, b0, w, ev_rt_now') /\ RootIsDue(s.periodics, ev_rt_now')
      BY <1>8, <2>6 DEF NoMoreDue, RootIsDue
    <2>9. WalkedOn(Periodic, s.periodics, s.at, s.rfeeds, x, b0, q, ev_rt_now')
      BY <1>2, <1>3, <1>4, <2>5, <2>6, <2>8, RootTaken
    <2>10. /\ R.periodics = x /\ R.timers = s.timers /\ R.at = b0
           /\ R.pending = p /\ R.rfeeds = q
      BY ONLY <1>2, <2>1 DEF TimeState
    <2> QED
      BY <2>5, <2>7, <2>9, <2>10 DEF PeriodicDueWalks
  <1> QED
    BY <1>5, <1>7, <1>8

(* timers_reify takes those who are due, the one due first before others *)
TimersDueGoes(s, n, x) ==
  /\ InTime(x) /\ x.periodics = s.periodics /\ x.pending = s.pending /\ \A u \in Periodic : x.at[u] = s.at[u]
  /\ Walked(DueIn(Timer, s.timers, s.at, mn_now'), s.at, n, DueIn(Timer, x.timers, x.at, mn_now'), x.rfeeds)
  /\ \A u \in DueIn(Timer, x.timers, x.at, mn_now') : x.at[u] = s.at[u]

LEMMA TimersDueGoesOn ==
  ASSUME TimersAssumption, Arguments, mn_now' \in Int, NEW s, \A u \in Timer : s.pending.at[u] = 0,
         NEW n \in Nat, NEW x, TimersDueGoes(s, n, x), NEW y, y = TimerDue(x)
  PROVE  TimersDueGoes(s, n + 1, y)
  <1> DEFINE D0 == DueIn(Timer, s.timers, s.at, mn_now')
             D == DueIn(Timer, x.timers, x.at, mn_now')
             E == DueIn(Timer, y.timers, y.at, mn_now')
  <1>1. /\ InTime(x) /\ x.periodics = s.periodics /\ x.pending = s.pending
        /\ \A u \in Periodic : x.at[u] = s.at[u]
        /\ Walked(D0, s.at, n, D, x.rfeeds)
        /\ \A u \in D : x.at[u] = s.at[u]
    BY DEF TimersDueGoes
  <1>2. InTime(y)
    BY <1>1, TimerDueKeeps
  <1>3. TimerDueWalks(x, y)
    BY <1>1, TimerDueStep
  <1>4. /\ y.periodics = x.periodics /\ y.pending = x.pending /\ (\A u \in Periodic : y.at[u] = x.at[u])
        /\ WalkOne(D, x.at, x.rfeeds, E, y.rfeeds)
        /\ \A u \in E : y.at[u] = x.at[u]
    BY <1>3 DEF TimerDueWalks, WalkedOn
  <1> HIDE DEF D0, D, E
  <1>5. WalkOne(D, s.at, x.rfeeds, E, y.rfeeds) /\ E \subseteq D
    <2>1. CASE D = {} /\ E = D /\ y.rfeeds = x.rfeeds
      BY <2>1 DEF WalkOne
    <2>2. ASSUME NEW w \in D, First(D, x.at, w), y.rfeeds = Append(x.rfeeds, w), E = D \ {w}
          PROVE  WalkOne(D, s.at, x.rfeeds, E, y.rfeeds) /\ E \subseteq D
      <3>1. First(D, s.at, w)
        BY <1>1, <2>2 DEF First
      <3> QED
        BY <2>2, <3>1 DEF WalkOne
    <2> QED
      BY <1>4, <2>1, <2>2 DEF WalkOne
  <1>6. Walked(D0, s.at, n + 1, E, y.rfeeds)
    BY <1>1, <1>5, WalkStep
  <1>7. \A u \in E : y.at[u] = s.at[u]
    BY <1>1, <1>4, <1>5
  <1>8. y.periodics = s.periodics /\ y.pending = s.pending /\ \A u \in Periodic : y.at[u] = s.at[u]
    BY <1>1, <1>4
  <1> QED
    BY <1>2, <1>6, <1>7, <1>8 DEF TimersDueGoes, D0, E

LEMMA TimersDueTaken ==
  ASSUME TimersAssumption, Arguments, mn_now' \in Int, NEW s, InTime(s), s.rfeeds = <<>>,
         \A u \in Timer : s.pending.at[u] = 0, NEW R, R = TimersDue(s)
  PROVE  /\ InTime(R) /\ R.periodics = s.periodics /\ R.pending = s.pending
         /\ \A u \in Periodic : R.at[u] = s.at[u]
         /\ Walked(DueIn(Timer, s.timers, s.at, mn_now'), s.at, Len(s.timers.ent), {}, R.rfeeds)
  <1> DEFINE N == Len(s.timers.ent)
             G_(n) == {x \in TimeState : TimersDueGoes(s, n, x)}
             Good == [n \in 0..N |-> G_(n)]
  <1>0. N \in Nat /\ N = Len(s.timers.ent)
    <2>1. s.timers.ent \in Seq(Ent(Timer))
      BY DEF InTime, TimeState, Heaps
    <2> QED
      BY <2>1
  <1>1. s \in TimeState /\ TimersDueGoes(s, 0, s)
    <2>1. Walked(DueIn(Timer, s.timers, s.at, mn_now'), s.at, 0, DueIn(Timer, s.timers, s.at, mn_now'), s.rfeeds)
      BY WalkStarts
    <2> QED
      BY <2>1 DEF TimersDueGoes, InTime
  <1> HIDE DEF N
  <1>2. ASSUME NEW j \in 1..N, NEW x \in G_(j - 1) PROVE TimerDue(x) \in G_(j)
    <2> DEFINE y == TimerDue(x)
    <2>1. y = TimerDue(x) /\ j - 1 \in Nat /\ (j - 1) + 1 = j /\ TimersDueGoes(s, j - 1, x)
      OBVIOUS
    <2> HIDE DEF y
    <2>2. TimersDueGoes(s, (j - 1) + 1, y)
      BY <2>1, TimersDueGoesOn
    <2>3. TimersDueGoes(s, j, y) /\ y \in TimeState
      BY <2>1, <2>2 DEF TimersDueGoes, InTime
    <2> QED
      BY <2>1, <2>3
  <1>3. /\ Good \in [0..N -> SUBSET TimeState] /\ s \in Good[0]
        /\ \A x \in Good[N] : TimersDueGoes(s, N, x)
        /\ \A j \in 1..N : Good[j - 1] = G_(j - 1) /\ Good[j] = G_(j)
    BY <1>0, <1>1
  <1> HIDE DEF Good
  <1>4. \A j \in 1..N : \A x \in Good[j - 1] : TimerDue(x) \in Good[j]
    <2> HIDE DEF G_
    <2> QED
      BY <1>2, <1>3
  <1> HIDE DEF G_
  <1>5. R \in Good[N]
    BY <1>0, <1>3, <1>4, TimersDueReach
  <1>6. TimersDueGoes(s, N, R)
    BY <1>3, <1>5
  <1> DEFINE D0 == DueIn(Timer, s.timers, s.at, mn_now')
             D == DueIn(Timer, R.timers, R.at, mn_now')
  <1>7. /\ InTime(R) /\ R.periodics = s.periodics /\ R.pending = s.pending
        /\ (\A u \in Periodic : R.at[u] = s.at[u]) /\ Walked(D0, s.at, N, D, R.rfeeds)
    BY <1>6 DEF TimersDueGoes
  <1>8. D = {}
    <2>1. HeapKept(Timer, s.timers, s.at) /\ DegreeOK /\ D0 = DueIn(Timer, s.timers, s.at, mn_now')
      BY DEF InTime, TimersAssumption, DegreeOK
    <2> HIDE DEF D0, D
    <2> QED
      BY <1>0, <1>7, <2>1, DueWalked
  <1> QED
    BY <1>0, <1>7, <1>8

(* periodics_reify takes those who are due, the one due first before others *)
PeriodicsDueGoes(s, n, x) ==
  /\ InTime(x) /\ x.timers = s.timers /\ x.pending = s.pending /\ \A u \in Timer : x.at[u] = s.at[u]
  /\ Walked(DueIn(Periodic, s.periodics, s.at, ev_rt_now'), s.at, n, DueIn(Periodic, x.periodics, x.at, ev_rt_now'), x.rfeeds)
  /\ \A u \in DueIn(Periodic, x.periodics, x.at, ev_rt_now') : x.at[u] = s.at[u]

LEMMA PeriodicsDueGoesOn ==
  ASSUME TimersAssumption, Arguments, ev_rt_now' \in Int, NEW s, \A u \in Periodic : s.pending.at[u] = 0,
         NEW n \in Nat, NEW x, PeriodicsDueGoes(s, n, x), NEW y, y = PeriodicDue(x)
  PROVE  PeriodicsDueGoes(s, n + 1, y)
  <1> DEFINE D0 == DueIn(Periodic, s.periodics, s.at, ev_rt_now')
             D == DueIn(Periodic, x.periodics, x.at, ev_rt_now')
             E == DueIn(Periodic, y.periodics, y.at, ev_rt_now')
  <1>1. /\ InTime(x) /\ x.timers = s.timers /\ x.pending = s.pending
        /\ \A u \in Timer : x.at[u] = s.at[u]
        /\ Walked(D0, s.at, n, D, x.rfeeds)
        /\ \A u \in D : x.at[u] = s.at[u]
    BY DEF PeriodicsDueGoes
  <1>2. InTime(y)
    BY <1>1, PeriodicDueKeeps
  <1>3. PeriodicDueWalks(x, y)
    BY <1>1, PeriodicDueStep
  <1>4. /\ y.timers = x.timers /\ y.pending = x.pending /\ (\A u \in Timer : y.at[u] = x.at[u])
        /\ WalkOne(D, x.at, x.rfeeds, E, y.rfeeds)
        /\ \A u \in E : y.at[u] = x.at[u]
    BY <1>3 DEF PeriodicDueWalks, WalkedOn
  <1> HIDE DEF D0, D, E
  <1>5. WalkOne(D, s.at, x.rfeeds, E, y.rfeeds) /\ E \subseteq D
    <2>1. CASE D = {} /\ E = D /\ y.rfeeds = x.rfeeds
      BY <2>1 DEF WalkOne
    <2>2. ASSUME NEW w \in D, First(D, x.at, w), y.rfeeds = Append(x.rfeeds, w), E = D \ {w}
          PROVE  WalkOne(D, s.at, x.rfeeds, E, y.rfeeds) /\ E \subseteq D
      <3>1. First(D, s.at, w)
        BY <1>1, <2>2 DEF First
      <3> QED
        BY <2>2, <3>1 DEF WalkOne
    <2> QED
      BY <1>4, <2>1, <2>2 DEF WalkOne
  <1>6. Walked(D0, s.at, n + 1, E, y.rfeeds)
    BY <1>1, <1>5, WalkStep
  <1>7. \A u \in E : y.at[u] = s.at[u]
    BY <1>1, <1>4, <1>5
  <1>8. y.timers = s.timers /\ y.pending = s.pending /\ \A u \in Timer : y.at[u] = s.at[u]
    BY <1>1, <1>4
  <1> QED
    BY <1>2, <1>6, <1>7, <1>8 DEF PeriodicsDueGoes, D0, E

LEMMA PeriodicsDueTaken ==
  ASSUME TimersAssumption, Arguments, ev_rt_now' \in Int, NEW s, InTime(s), s.rfeeds = <<>>,
         \A u \in Periodic : s.pending.at[u] = 0, NEW R, R = PeriodicsDue(s)
  PROVE  /\ InTime(R) /\ R.timers = s.timers /\ R.pending = s.pending
         /\ \A u \in Timer : R.at[u] = s.at[u]
         /\ Walked(DueIn(Periodic, s.periodics, s.at, ev_rt_now'), s.at, Len(s.periodics.ent), {}, R.rfeeds)
  <1> DEFINE N == Len(s.periodics.ent)
             G_(n) == {x \in TimeState : PeriodicsDueGoes(s, n, x)}
             Good == [n \in 0..N |-> G_(n)]
  <1>0. N \in Nat /\ N = Len(s.periodics.ent)
    <2>1. s.periodics.ent \in Seq(Ent(Periodic))
      BY DEF InTime, TimeState, Heaps
    <2> QED
      BY <2>1
  <1>1. s \in TimeState /\ PeriodicsDueGoes(s, 0, s)
    <2>1. Walked(DueIn(Periodic, s.periodics, s.at, ev_rt_now'), s.at, 0, DueIn(Periodic, s.periodics, s.at, ev_rt_now'), s.rfeeds)
      BY WalkStarts
    <2> QED
      BY <2>1 DEF PeriodicsDueGoes, InTime
  <1> HIDE DEF N
  <1>2. ASSUME NEW j \in 1..N, NEW x \in G_(j - 1) PROVE PeriodicDue(x) \in G_(j)
    <2> DEFINE y == PeriodicDue(x)
    <2>1. y = PeriodicDue(x) /\ j - 1 \in Nat /\ (j - 1) + 1 = j /\ PeriodicsDueGoes(s, j - 1, x)
      OBVIOUS
    <2> HIDE DEF y
    <2>2. PeriodicsDueGoes(s, (j - 1) + 1, y)
      BY <2>1, PeriodicsDueGoesOn
    <2>3. PeriodicsDueGoes(s, j, y) /\ y \in TimeState
      BY <2>1, <2>2 DEF PeriodicsDueGoes, InTime
    <2> QED
      BY <2>1, <2>3
  <1>3. /\ Good \in [0..N -> SUBSET TimeState] /\ s \in Good[0]
        /\ \A x \in Good[N] : PeriodicsDueGoes(s, N, x)
        /\ \A j \in 1..N : Good[j - 1] = G_(j - 1) /\ Good[j] = G_(j)
    BY <1>0, <1>1
  <1> HIDE DEF Good
  <1>4. \A j \in 1..N : \A x \in Good[j - 1] : PeriodicDue(x) \in Good[j]
    <2> HIDE DEF G_
    <2> QED
      BY <1>2, <1>3
  <1> HIDE DEF G_
  <1>5. R \in Good[N]
    BY <1>0, <1>3, <1>4, PeriodicsDueReach
  <1>6. PeriodicsDueGoes(s, N, R)
    BY <1>3, <1>5
  <1> DEFINE D0 == DueIn(Periodic, s.periodics, s.at, ev_rt_now')
             D == DueIn(Periodic, R.periodics, R.at, ev_rt_now')
  <1>7. /\ InTime(R) /\ R.timers = s.timers /\ R.pending = s.pending
        /\ (\A u \in Timer : R.at[u] = s.at[u]) /\ Walked(D0, s.at, N, D, R.rfeeds)
    BY <1>6 DEF PeriodicsDueGoes
  <1>8. D = {}
    <2>1. HeapKept(Periodic, s.periodics, s.at) /\ DegreeOK /\ D0 = DueIn(Periodic, s.periodics, s.at, ev_rt_now')
      BY DEF InTime, TimersAssumption, DegreeOK
    <2> HIDE DEF D0, D
    <2> QED
      BY <1>0, <1>7, <2>1, DueWalked
  <1> QED
    BY <1>0, <1>7, <1>8

(* feed_reverse_done: who was taken last is pending first, so that who was *)
(* due first is called first                                               *)
Backwards(W, r, n, ws) ==
  /\ n \in Nat /\ ws \in Seq(W) /\ Len(ws) = n
  /\ \A i \in 1..n : r[i] \in W /\ n - i + 1 \in 1..n /\ ws[n - i + 1] = r[i]
  /\ \A i \in 1..n : n - i + 1 \in 1..n /\ ws[i] = r[n - i + 1]
LEMMA Reversed ==
  ASSUME NEW W, NEW r \in Seq(W), NEW n, n = Len(r), NEW ws, ws = Reverse(r)
  PROVE  Backwards(W, r, n, ws)
  <1>1. ws = [i \in 1..n |-> r[n - i + 1]]
    BY DEF Reverse
  <1>2. n \in Nat /\ \A i \in 1..n : r[i] \in W
    BY ElementOfSeq
  <1>3. \A i \in 1..n : n - i + 1 \in 1..n /\ n - (n - i + 1) + 1 = i
    BY <1>2
  <1>4. ws \in [1..n -> W]
    BY <1>1, <1>2, <1>3
  <1>5. ws \in Seq(W) /\ Len(ws) = n
    BY <1>2, <1>4
  <1> QED
    BY <1>1, <1>2, <1>3, <1>5 DEF Backwards

FedAfter(D, a, O, Q) ==
  /\ \A u \in TimeWatcher : Q[u] # 0 <=> O[u] # 0 \/ u \in D
  /\ \A u \in TimeWatcher : O[u] # 0 => Q[u] = O[u]
  /\ \A u \in D, v \in TimeWatcher :
       O[v] # 0 /\ timer_priority[u] = timer_priority[v] => Q[u] > Q[v]
  /\ \A u, v \in D : timer_priority[u] = timer_priority[v] /\ a[u] < a[v] => Q[u] > Q[v]

LEMMA QueuedAfter ==
  ASSUME NEW Q, TimePending(Q), NEW D \in SUBSET TimeWatcher, NEW a, NEW n, NEW r,
         Walked(D, a, n, {}, r), Times(D, a), \A u \in D : Q.at[u] = 0,
         NEW revents \in SUBSET Received,
         NEW R, R = TP!QueueEvents(Q, Reverse(r), revents, timer_priority)
  PROVE  FedAfter(D, a, Q.at, R.at)
  <1> DEFINE ws == Reverse(r)
             m == Len(r)
  <1>1. /\ r \in Seq(D) /\ m = Len(r) /\ ws = Reverse(r)
        /\ \A u \in D : \E i \in 1..m : r[i] = u
        /\ \A i, j \in 1..m : i < j => r[i] # r[j] /\ a[r[i]] <= a[r[j]]
    BY DEF Walked, WasTaken
  <1>2. R = TP!QueueEvents(Q, ws, revents, timer_priority)
    OBVIOUS
  <1> HIDE DEF ws, m
  <1>3. /\ m \in Nat /\ ws \in Seq(D) /\ Len(ws) = m
        /\ \A i \in 1..m : r[i] \in D /\ m - i + 1 \in 1..m /\ ws[m - i + 1] = r[i]
        /\ \A i \in 1..m : m - i + 1 \in 1..m /\ ws[i] = r[m - i + 1]
    <2>1. Backwards(D, r, m, ws)
      BY <1>1, Reversed
    <2> QED
      BY <2>1 DEF Backwards
  <1>4. ws \in Seq(TimeWatcher)
    <2>1. ws \in [1..m -> D]
      BY <1>3
    <2>2. ws \in [1..m -> TimeWatcher]
      BY <2>1
    <2> QED
      BY <1>3, <2>2
  <1>5. R = G(TimeWatcher, TimerPri, timer_pending_w)!QueueChosen(Q, ws, TimeWatcher, revents,
                                                                  timer_priority)
    BY <1>2, Zenon DEF TP!QueueEvents, TP!QueueChosen, TP!FeedEvent, G!QueueChosen, G!FeedEvent
  <1>6. Verified(TimeWatcher, TimerPri, timer_pending_w, timer_priority, Q)
    BY DEF TimePending
  <1>7. /\ Verified(TimeWatcher, TimerPri, timer_pending_w, timer_priority, R)
        /\ Kept(TimeWatcher, Q, R)
        /\ \A i \in 1..Len(ws) : ws[i] \in TimeWatcher => R.at[ws[i]] # 0
        /\ \A v \in TimeWatcher : Q.at[v] = 0 /\ R.at[v] # 0 =>
             /\ R.at[v] > Len(Q.q[timer_priority[v]])
             /\ v \in TimeWatcher /\ \E i \in 1..Len(ws) : ws[i] = v
        /\ InTurn(ws, Len(ws), TimeWatcher, timer_priority, Q, R)
    BY <1>4, <1>5, <1>6, PendingQueued
  <1>8. ASSUME NEW u \in D PROVE R.at[u] # 0 /\ R.at[u] > Len(Q.q[timer_priority[u]])
    <2>1. PICK i \in 1..m : r[i] = u
      BY <1>1
    <2>2. R.at[u] # 0
      BY <1>3, <1>7, <2>1
    <2> QED
      BY <1>7, <2>2
  <1>9. ASSUME NEW u \in TimeWatcher PROVE R.at[u] # 0 <=> Q.at[u] # 0 \/ u \in D
    <2>1. CASE Q.at[u] # 0
      BY <1>7, <2>1 DEF Kept
    <2>2. CASE Q.at[u] = 0
      BY <1>3, <1>7, <1>8, <2>2
    <2> QED
      BY <2>1, <2>2
  <1>10. ASSUME NEW u \in D, NEW v \in TimeWatcher, Q.at[v] # 0, timer_priority[u] = timer_priority[v]
         PROVE  R.at[u] > R.at[v]
    <2>1. R.at[v] = Q.at[v]
      BY <1>7, <1>10 DEF Kept
    <2>2. Q.at[v] \in 1..Len(Q.q[timer_priority[v]])
      BY <1>6, <1>10 DEF Verified, Placed
    <2>3. R.at[u] \in Nat /\ Len(Q.q[timer_priority[v]]) \in Nat
      <3>1. R.at \in [TimeWatcher -> Nat] /\ Q.q \in [TimerPri -> Seq(Entries(TimeWatcher, timer_pending_w))]
            /\ timer_priority[v] \in TimerPri
        BY <1>6, <1>7 DEF Verified, Queues
      <3>2. Q.q[timer_priority[v]] \in Seq(Entries(TimeWatcher, timer_pending_w))
        BY <3>1
      <3> QED
        BY <3>1, <3>2
    <2> QED
      BY <1>8, <1>10, <2>1, <2>2, <2>3
  <1>11. ASSUME NEW u \in D, NEW v \in D, timer_priority[u] = timer_priority[v], a[u] < a[v]
         PROVE  R.at[u] > R.at[v]
    <2>1. PICK i \in 1..m : r[i] = u
      BY <1>1
    <2>2. PICK j \in 1..m : r[j] = v
      BY <1>1
    <2>3. i < j
      <3>1. a[u] \in Int /\ a[v] \in Int
        BY DEF Times
      <3>2. i = j \/ j < i \/ i < j
        OBVIOUS
      <3> QED
        BY <1>1, <1>11, <2>1, <2>2, <3>1, <3>2
    <2> DEFINE k == m - j + 1
               l == m - i + 1
    <2>4. k \in 1..m /\ l \in 1..m /\ k < l /\ ws[k] = v /\ ws[l] = u
      BY <1>3, <2>1, <2>2, <2>3
    <2>5. \A o \in 1..(l - 1) : ws[o] # u
      <3> SUFFICES ASSUME NEW o \in 1..(l - 1) PROVE ws[o] # u
        OBVIOUS
      <3>1. o \in 1..m /\ i < m - o + 1 /\ m - o + 1 \in 1..m
        BY <1>3, <2>4
      <3>2. ws[o] = r[m - o + 1]
        BY <1>3, <3>1
      <3> QED
        BY <1>1, <2>1, <3>1, <3>2
    <2> HIDE DEF k, l
    <2>6. Q.at[u] = 0 /\ ws[k] \in TimeWatcher /\ ws[l] \in TimeWatcher
      BY <2>4
    <2>7. R.at[ws[k]] < R.at[ws[l]]
      BY <1>3, <1>7, <1>11, <2>4, <2>5, <2>6 DEF InTurn
    <2>8. R.at[u] \in Nat /\ R.at[v] \in Nat
      BY <1>7 DEF Verified, Queues
    <2> QED
      BY <2>4, <2>7, <2>8
  <1>12. \A u \in TimeWatcher : Q.at[u] # 0 => R.at[u] = Q.at[u]
    BY <1>7 DEF Kept
  <1> QED
    BY <1>9, <1>10, <1>11, <1>12 DEF FedAfter

ToBeFed(D, a, s) ==
  /\ InTime(s) /\ D \in SUBSET TimeWatcher /\ Times(D, a)
  /\ \A u \in D : s.pending.at[u] = 0
  /\ \E n : Walked(D, a, n, {}, s.rfeeds)

LEMMA FedTaken ==
  ASSUME NEW D, NEW a, NEW s, ToBeFed(D, a, s),
         NEW revents \in SUBSET Received, NEW R, R = FedReversed(s, revents)
  PROVE  /\ R.timers = s.timers /\ R.periodics = s.periodics /\ R.at = s.at /\ R.rfeeds = <<>>
         /\ FedAfter(D, a, s.pending.at, R.pending.at)
  <1> DEFINE p == TP!QueueEvents(s.pending, Reverse(s.rfeeds), revents, timer_priority)
             none == <<>>
  <1>1. R = [s EXCEPT !.pending = p, !.rfeeds = none]
    BY Zenon DEF FedReversed
  <1>2. /\ s \in TimeState /\ TimePending(s.pending) /\ D \in SUBSET TimeWatcher /\ Times(D, a)
        /\ \A u \in D : s.pending.at[u] = 0
    BY DEF InTime, ToBeFed
  <1>3. p = TP!QueueEvents(s.pending, Reverse(s.rfeeds), revents, timer_priority) /\ none = <<>>
    OBVIOUS
  <1> HIDE DEF p, none
  <1>4. FedAfter(D, a, s.pending.at, p.at)
    <2>1. PICK n : Walked(D, a, n, {}, s.rfeeds)
      BY DEF ToBeFed
    <2> QED
      BY <1>2, <1>3, <2>1, QueuedAfter
  <1>5. /\ R.timers = s.timers /\ R.periodics = s.periodics /\ R.at = s.at
        /\ R.pending = p /\ R.rfeeds = none
    BY ONLY <1>1, <1>2 DEF TimeState
  <1> QED
    BY <1>3, <1>4, <1>5

(* Nothing is pending while the loop polls: it sleeps when all is called   *)
PollEmpty == timers_phase = "poll" => \A w \in TimeWatcher : timers_pending.at[w] = 0

LEMMA SleepsEmpty ==
  ASSUME TimePending(timers_pending), ~TP!AnyPending(timers_pending)
  PROVE  \A w \in TimeWatcher : timers_pending.at[w] = 0
  <1> SUFFICES ASSUME NEW w \in TimeWatcher, timers_pending.at[w] # 0 PROVE FALSE
    OBVIOUS
  <1> DEFINE p == timer_priority[w]
  <1>1. p \in TimerPri /\ timers_pending.at[w] \in 1..Len(timers_pending.q[p])
    BY DEF TimePending, Verified, Placed
  <1>2. timers_pending.q[p] = <<>>
    BY <1>1 DEF TP!AnyPending
  <1> QED
    BY <1>1, <1>2

LEMMA PollStaysEmpty ==
  ASSUME TimersInv, PollEmpty, [TimersNext]_timers_vars
  PROVE  PollEmpty'
  <1>1. CASE UNCHANGED timers_vars
    BY <1>1 DEF timers_vars, PollEmpty
  <1>2. CASE TimersUse \/ CollectInterval \/ TimersInvoke \/ Wake \/ Resume
    <2>1. timers_phase' = "run"
      BY <1>2 DEF TimersUse, CollectInterval, TimersInvoke, Wake, Resume
    <2> QED
      BY <2>1 DEF PollEmpty
  <1>3. CASE TimersSleep
    <2>1. TimePending(timers_pending) /\ ~TP!AnyPending(timers_pending) /\ timers_pending' = timers_pending
      BY <1>3 DEF TimersInv, TimersKept, TimersSleep
    <2> QED
      BY <2>1, SleepsEmpty DEF PollEmpty
  <1> QED
    BY <1>1, <1>2, <1>3 DEF TimersNext

(* Timers are fed first, then periodics: arrays are emptied from the end   *)
FedInTurn(C, D, a, O) ==
  /\ \A u \in TimeWatcher : O[u] # 0 <=> u \in C \/ u \in D
  /\ \A v \in D, u \in C : timer_priority[v] = timer_priority[u] => O[v] > O[u]
  /\ \A u, v \in C : timer_priority[u] = timer_priority[v] /\ a[u] < a[v] => O[u] > O[v]
  /\ \A u, v \in D : timer_priority[u] = timer_priority[v] /\ a[u] < a[v] => O[u] > O[v]

LEMMA FedTwice ==
  ASSUME NEW C \in SUBSET TimeWatcher, NEW D \in SUBSET TimeWatcher, NEW a, NEW b, NEW O, NEW Q, NEW R,
         \A u \in TimeWatcher : O[u] = 0, FedAfter(C, a, O, Q), FedAfter(D, b, Q, R),
         \A u \in D : b[u] = a[u]
  PROVE  FedInTurn(C, D, a, R)
  <1>1. \A u \in TimeWatcher : Q[u] # 0 <=> u \in C
    BY DEF FedAfter
  <1>2. \A u \in TimeWatcher : R[u] # 0 <=> u \in C \/ u \in D
    BY <1>1 DEF FedAfter
  <1>3. \A v \in D, u \in C : timer_priority[v] = timer_priority[u] => R[v] > R[u]
    BY <1>1 DEF FedAfter
  <1>4. \A u \in C : R[u] = Q[u]
    BY <1>1 DEF FedAfter
  <1>5. \A u, v \in C : timer_priority[u] = timer_priority[v] /\ a[u] < a[v] => R[u] > R[v]
    BY <1>4 DEF FedAfter
  <1>6. \A u, v \in D : timer_priority[u] = timer_priority[v] /\ a[u] < a[v] => R[u] > R[v]
    BY DEF FedAfter
  <1> QED
    BY <1>2, <1>3, <1>5, <1>6 DEF FedInTurn

LEMMA WakeFeeds ==
  ASSUME TimersAssumption, TimersInv, PollEmpty, Wake, NEW s0, s0 = Updated
  PROVE  FedInTurn(DueIn(Timer, timers, s0.at, mn_now'),
                   DueIn(Periodic, s0.periodics, s0.at, ev_rt_now'), s0.at, timers_pending'.at)
  <1>1. /\ ClockTypes /\ TimersKept /\ ClockMoves /\ skew' \in Int /\ TimeUpdate /\ UNCHANGED blocktimes
    BY DEF TimersInv, Wake, ClocksMove, TimersAssumption
  <1>2. ev_rt_now' \in Int /\ mn_now' \in Int /\ Arguments
    <2>1. ClockTypes'
      BY <1>1, ClocksRead
    <2> QED
      BY <1>1, <2>1 DEF ClockTypes, TimersKept
  <1> DEFINE E == {"EV_TIMEOUT"}
             F == {"EV_PERIODIC"}
  <1>3. PICK s1, s2, s3, s :
          /\ s1 = TimersDue(s0) /\ s2 = FedReversed(s1, E) /\ s3 = PeriodicsDue(s2)
          /\ s = FedReversed(s3, F) /\ timers_pending' = s.pending
    BY Zenon DEF Wake
  <1>4. E \in SUBSET Received /\ F \in SUBSET Received
    BY DEF Received
  <1> HIDE DEF E, F
  <1>5. InTime(s0) /\ s0.timers = timers /\ s0.pending = timers_pending /\ s0.rfeeds = <<>>
    BY <1>1, <1>2, UpdatedKeeps
  <1>6. /\ Timer \cap Periodic = {} /\ Timer \in SUBSET TimeWatcher /\ Periodic \in SUBSET TimeWatcher
    BY TimersApart
  <1>7. \A u \in TimeWatcher : s0.pending.at[u] = 0
    BY <1>5 DEF PollEmpty, Wake
  <1> DEFINE C == DueIn(Timer, s0.timers, s0.at, mn_now')
             D == DueIn(Periodic, s0.periodics, s0.at, ev_rt_now')
             n == Len(s0.timers.ent)
             m == Len(s2.periodics.ent)
  <1>8. C \in SUBSET Timer /\ D \in SUBSET Periodic
    BY DEF DueIn
  <1>9. /\ InTime(s1) /\ s1.periodics = s0.periodics /\ s1.pending = s0.pending
        /\ (\A u \in Periodic : s1.at[u] = s0.at[u]) /\ Walked(C, s0.at, n, {}, s1.rfeeds)
    <2>1. \A u \in Timer : s0.pending.at[u] = 0
      BY <1>6, <1>7
    <2> QED
      BY <1>2, <1>3, <1>5, <2>1, TimersDueTaken
  <1>10. Times(C, s0.at)
    BY <1>5, <1>6, <1>8 DEF Times, InTime, TimeState
  <1>11. /\ InTime(s2) /\ s2.timers = s1.timers /\ s2.periodics = s1.periodics /\ s2.at = s1.at
         /\ s2.rfeeds = <<>> /\ FedAfter(C, s0.at, s1.pending.at, s2.pending.at)
    <2>1. InTime(s2)
      BY <1>3, <1>4, <1>9, FedKeeps
    <2>2. C \in SUBSET TimeWatcher /\ \A u \in C : s1.pending.at[u] = 0
      BY <1>6, <1>7, <1>8, <1>9
    <2> HIDE DEF C, n
    <2>3. ToBeFed(C, s0.at, s1)
      BY <1>9, <1>10, <2>2 DEF ToBeFed
    <2> QED
      BY <1>3, <1>4, <2>1, <2>3, FedTaken
  <1>12. \A u \in Periodic : s2.pending.at[u] = 0
    <2>1. \A u \in Periodic : u \in TimeWatcher /\ u \notin C
      BY <1>6, <1>8
    <2> HIDE DEF C
    <2> QED
      BY <1>7, <1>9, <1>11, <2>1 DEF FedAfter
  <1>13. D = DueIn(Periodic, s2.periodics, s2.at, ev_rt_now')
    BY <1>9, <1>11 DEF DueIn
  <1>14. InTime(s3) /\ s3.pending = s2.pending /\ Walked(D, s2.at, m, {}, s3.rfeeds)
    <2> HIDE DEF D
    <2> QED
      BY <1>2, <1>3, <1>11, <1>12, <1>13, PeriodicsDueTaken
  <1>15. FedAfter(D, s2.at, s3.pending.at, s.pending.at)
    <2>1. Times(D, s2.at)
      BY <1>6, <1>8, <1>11 DEF Times, InTime, TimeState
    <2>2. D \in SUBSET TimeWatcher /\ \A u \in D : s3.pending.at[u] = 0
      BY <1>6, <1>8, <1>12, <1>14
    <2> HIDE DEF D, m
    <2>3. ToBeFed(D, s2.at, s3)
      BY <1>14, <2>1, <2>2 DEF ToBeFed
    <2> QED
      BY <1>3, <1>4, <2>3, FedTaken
  <1>16. \A u \in D : s2.at[u] = s0.at[u]
    BY <1>8, <1>9, <1>11
  <1>17. C \in SUBSET TimeWatcher /\ D \in SUBSET TimeWatcher
    BY <1>6, <1>8
  <1>18. FedInTurn(C, D, s0.at, s.pending.at)
    <2> HIDE DEF C, D
    <2> QED
      BY <1>7, <1>9, <1>11, <1>14, <1>15, <1>16, <1>17, FedTwice
  <1> QED
    BY <1>3, <1>5, <1>18

LEMMA WakeInOrder ==
  ASSUME TimersAssumption, TimersInv, PollEmpty, [TimersNext]_timers_vars
  PROVE  DueStep
  <1> SUFFICES ASSUME timers_phase = "poll", timers_phase' = "run", NEW s, s = Updated
               PROVE  LET DueNow(w) == IsActive(w) /\ s.at[w] < IF w \in Timer THEN mn_now' ELSE ev_rt_now'
                          Before(v, w) == timers_pending'.at[v] > timers_pending'.at[w]
                      IN  /\ \A w \in TimeWatcher : DueNow(w) <=> timers_pending'.at[w] # 0
                          /\ \A v, w \in TimeWatcher :
                               DueNow(v) /\ DueNow(w) /\ timer_priority[v] = timer_priority[w] =>
                                 /\ v \in Periodic /\ w \in Timer => Before(v, w)
                                 /\ (v \in Timer <=> w \in Timer) /\ s.at[v] < s.at[w] => Before(v, w)
    BY Zenon DEF DueStep
  <1>1. Wake
    BY DEF TimersNext, TimersUse, CollectInterval, TimersInvoke, TimersSleep, Resume, timers_vars
  <1> DEFINE C == DueIn(Timer, timers, s.at, mn_now')
             D == DueIn(Periodic, s.periodics, s.at, ev_rt_now')
             O == timers_pending'.at
             DueNow(w) == IsActive(w) /\ s.at[w] < IF w \in Timer THEN mn_now' ELSE ev_rt_now'
  <1>2. FedInTurn(C, D, s.at, O)
    BY <1>1, WakeFeeds
  <1>3. StillActive(Periodic, s.periodics, periodics)
    <2>1. ClockTypes /\ TimersKept /\ ClockMoves /\ skew' \in Int /\ TimeUpdate /\ UNCHANGED blocktimes
      BY <1>1 DEF TimersInv, Wake, ClocksMove, TimersAssumption
    <2>2. ev_rt_now' \in Int
      BY <2>1, ClocksRead DEF ClockTypes
    <2> QED
      BY <2>1, <2>2, UpdatedKeeps
  <1>4. \A w \in Timer : w \in TimeWatcher /\ w \notin Periodic /\ w \notin D /\ (DueNow(w) <=> w \in C)
    BY TimersApart DEF IsActive, DueIn
  <1>5. \A w \in Periodic : w \in TimeWatcher /\ w \notin Timer /\ w \notin C /\ (DueNow(w) <=> w \in D)
    BY <1>3, TimersApart DEF IsActive, DueIn, StillActive
  <1>6. \A w \in TimeWatcher : w \in Timer \/ w \in Periodic
    BY DEF TimeWatcher
  <1> HIDE DEF C, D, O, DueNow
  <1>7. \A w \in TimeWatcher : DueNow(w) <=> O[w] # 0
    BY <1>2, <1>4, <1>5, <1>6 DEF FedInTurn
  <1>8. ASSUME NEW v \in TimeWatcher, NEW w \in TimeWatcher, DueNow(v), DueNow(w),
               timer_priority[v] = timer_priority[w]
        PROVE  /\ v \in Periodic /\ w \in Timer => O[v] > O[w]
               /\ (v \in Timer <=> w \in Timer) /\ s.at[v] < s.at[w] => O[v] > O[w]
    BY <1>2, <1>4, <1>5, <1>6, <1>8 DEF FedInTurn
  <1> QED
    BY <1>7, <1>8 DEF O, DueNow
=============================================================================
