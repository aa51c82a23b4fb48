------------------------------ MODULE Net_proofs ------------------------------
(***************************************************************************)
(* Proofs about the port forwarding (Nat), for any ports and any number of *)
(* tries, whatever the router and the other hosts do; about the signals    *)
(* and async watchers of libev (EvAsync), for any number of them and of    *)
(* threads, of sends and of forks; and about its stat watchers (EvStat),   *)
(* for any number of them, of changes of the path and of lost events.      *)
(***************************************************************************)
EXTENDS Nat, EvAsync, EvStat, SequenceTheorems, FiniteSetTheorems, TLAPS

(* Variables keep their types, and a call that is under way knows its port *)
TypeOK ==
  /\ router \in [Port -> Mapping]
  /\ m_reg \subseteq Port /\ kept \subseteq Port
  /\ m_initialized \in BOOLEAN
  /\ at \in {"idle", "direct", "random", "add_random", "destroy"}
  /\ at \in {"direct", "random", "add_random"} => port_str \in Port
  /\ at \in {"direct", "add_random"} => port \in Port

(* The router: what a deletion and a mapping leave.                        *)
LEMMA MappingKinds ==
  /\ Free \in Mapping /\ Free.owner = "none"
  /\ [owner |-> "dangling"] \in Mapping /\ [owner |-> "other"] \in Mapping
  /\ [owner |-> "dangling"].owner = "dangling" /\ [owner |-> "other"].owner = "other"
  /\ \A p \in Port : Ours(p) \in Mapping /\ Ours(p).owner = "us"
  BY DEF Mapping, Free, Ours

LEMMA DeletionFreesAtMost ==
  ASSUME TypeOK, NEW p \in Port, DeleteMapping(p)
  PROVE  /\ router' \in [Port -> Mapping]
         /\ \A q \in Port : router'[q] = router[q] \/ (q = p /\ router'[q] = Free)
         /\ \A q \in untold : q \in untold' \/ (q = p /\ router'[q] = Free)
  BY MappingKinds DEF TypeOK, DeleteMapping

LEMMA RemoveForgetsOnlyFreed ==
  ASSUME TypeOK, MappingsRemembered, NEW p \in Port \cup {NoPort}, Unmap(p)
  PROVE  /\ router' \in [Port -> Mapping] /\ m_reg' \subseteq Port /\ kept' \subseteq Port
         /\ MappingsRemembered'
  <1>1. CASE m_initialized /\ p \in Port
    <2>1. /\ DeleteMapping(p)
          /\ m_reg' = m_reg \ {p}
          /\ kept' = IF router'[p] = Free THEN kept \ {p} ELSE kept \cup {p}
      BY <1>1 DEF Unmap
    <2>2. \A q \in Port \ {p} : router'[q] = router[q]
      BY <1>1, <2>1, DeletionFreesAtMost, MappingKinds
    <2>3. router'[p].owner = "us" => p \in kept'
      BY <2>1, MappingKinds
    <2>5. \A q \in Port \ {p} : q \in untold => q \in untold'
      BY <1>1, <2>1, DeletionFreesAtMost
    <2>6. ASSUME NEW q \in Port \ {p}, router'[q].owner = "us"
          PROVE  q \in m_reg' \cup kept' \cup untold'
      BY <2>1, <2>2, <2>5, <2>6 DEF MappingsRemembered
    <2>4. MappingsRemembered'
      BY <2>3, <2>6 DEF MappingsRemembered
    <2> QED
      BY <1>1, <2>1, <2>4, DeletionFreesAtMost DEF TypeOK
  <1>2. CASE ~(m_initialized /\ p \in Port)
    BY <1>2 DEF Unmap, TypeOK, MappingsRemembered
  <1> QED
    BY <1>1, <1>2

(* Port p is mapped and noted in one step of the object.                   *)
LEMMA MappedIsNoted ==
  ASSUME TypeOK, MappingsRemembered, NEW p \in Port, NEW inner \in Port,
         Given(p, inner), kept' = kept
  PROVE  /\ router' \in [Port -> Mapping] /\ m_reg' \subseteq Port
         /\ MappingsRemembered'
  <1>1. p \in m_reg' /\ m_reg \subseteq m_reg' /\ m_reg' \subseteq Port
    BY PortAssumption DEF Given, Answer, TypeOK
  <1>2. router' = [router EXCEPT ![p] = Ours(inner)] /\ untold' = untold \ {p}
    BY DEF Given, Map
  <1>3. router' \in [Port -> Mapping] /\ \A q \in Port \ {p} : router'[q] = router[q]
    BY <1>2, MappingKinds DEF TypeOK
  <1> QED
    BY <1>1, <1>2, <1>3 DEF MappingsRemembered

(* A mapping that was answered with an error is among those untold of.    *)
LEMMA FailureIsUntold ==
  ASSUME TypeOK, MappingsRemembered, NEW p \in Port, NEW inner \in Port,
         Failed(p, inner), UNCHANGED <<m_reg, kept>>
  PROVE  /\ router' \in [Port -> Mapping]
         /\ MappingsRemembered'
  <1>1. CASE UNCHANGED <<router, untold>>
    BY <1>1 DEF TypeOK, MappingsRemembered
  <1>2. CASE Map(p, inner) /\ untold' = untold \cup {p}
    <2>1. router' \in [Port -> Mapping] /\ \A q \in Port \ {p} : router'[q] = router[q]
      BY <1>2, MappingKinds DEF Map, TypeOK
    <2> QED
      BY <1>2, <2>1 DEF MappingsRemembered
  <1> QED
    BY <1>1, <1>2 DEF Failed

(* Together they are inductive.                                            *)
LEMMA NatInvariant == Spec => [](TypeOK /\ MappingsRemembered)
  <1>1. Init => TypeOK /\ MappingsRemembered
    BY MappingKinds DEF Init, TypeOK, MappingsRemembered
  <1>2. TypeOK /\ MappingsRemembered /\ [Next]_vars => (TypeOK /\ MappingsRemembered)'
    <2> SUFFICES ASSUME TypeOK, MappingsRemembered, [Next]_vars
                 PROVE  TypeOK' /\ MappingsRemembered'
      OBVIOUS
    <2>1. ASSUME UNCHANGED <<m_reg, kept>>, router' \in [Port -> Mapping],
                 \A q \in Port : router'[q].owner = "us" =>
                    router[q].owner = "us" /\ (q \in untold => q \in untold')
          PROVE  MappingsRemembered'
      BY <2>1 DEF MappingsRemembered
    <2>2. CASE Discover \/ Destroy \/ UNCHANGED vars
      BY <2>2 DEF Discover, Destroy, vars, locals, TypeOK, MappingsRemembered
    <2>3. ASSUME NEW p \in Port \cup {NoPort}, AddRedirect(p)
          PROVE  TypeOK' /\ MappingsRemembered'
      <3>1. CASE m_initialized /\ p \in Port
        <4>1. /\ DeleteMapping(p) /\ at' = "direct" /\ port_str' = p /\ port' = p
              /\ UNCHANGED <<m_reg, m_initialized, kept>>
          BY <2>3, <3>1 DEF AddRedirect
        <4> QED
          BY <2>1, <3>1, <4>1, DeletionFreesAtMost, MappingKinds DEF TypeOK
      <3>2. CASE ~(m_initialized /\ p \in Port)
        BY <2>3, <3>2 DEF AddRedirect, TypeOK, MappingsRemembered
      <3> QED
        BY <3>1, <3>2
    <2>4. CASE AddDirect \/ AddRandom
      <3>1. at \in {"direct", "add_random"} /\ port \in Port /\ port_str \in Port
        BY <2>4 DEF AddDirect, AddRandom, TypeOK
      <3>2. CASE Given(port, port_str)
        <4>1. UNCHANGED <<m_initialized, kept>> /\ at' = "idle"
          BY <2>4, <3>2 DEF AddDirect, AddRandom, Given, Answer
        <4> QED
          BY <3>1, <3>2, <4>1, MappedIsNoted DEF TypeOK
      <3>3. CASE Failed(port, port_str) /\ at' = "random" /\ UNCHANGED <<m_reg, answer, port_str, port>>
        <4>1. UNCHANGED <<m_initialized, kept>>
          BY <2>4 DEF AddDirect, AddRandom
        <4> QED
          BY <3>1, <3>3, <4>1, FailureIsUntold DEF TypeOK
      <3> QED
        BY <2>4, <3>2, <3>3 DEF AddDirect, AddRandom
    <2>5. CASE DeleteRandom
      <3>1. PICK p \in RandomPort : port' = p /\ DeleteMapping(p)
        BY <2>5 DEF DeleteRandom
      <3>2. p \in Port
        BY PortAssumption
      <3>3. /\ at = "random" /\ at' = "add_random"
            /\ UNCHANGED <<m_reg, m_initialized, port_str, kept>>
        BY <2>5 DEF DeleteRandom
      <3> QED
        BY <2>1, <3>1, <3>2, <3>3, DeletionFreesAtMost, MappingKinds DEF TypeOK
    <2>6. CASE AddAny
      <3>1. at = "random" /\ port_str \in Port /\ at' = "idle" /\ UNCHANGED <<m_initialized, kept>>
        BY <2>6 DEF AddAny, Given, Answer, TypeOK
      <3>2. ASSUME NEW p \in Port, Given(p, port_str)
            PROVE  TypeOK' /\ MappingsRemembered'
        BY <3>1, <3>2, MappedIsNoted DEF TypeOK
      <3>3. ASSUME Answer(NoPort) PROVE m_reg' = m_reg
        BY <3>3 DEF Answer
      <3>4. CASE Answer(NoPort) /\ UNCHANGED <<router, untold>>
        BY <2>1, <3>1, <3>3, <3>4 DEF TypeOK
      <3>5. ASSUME NEW p \in Port, Answer(NoPort), Failed(p, port_str)
            PROVE  TypeOK' /\ MappingsRemembered'
        BY <3>1, <3>3, <3>5, FailureIsUntold DEF TypeOK
      <3> QED
        BY <2>6, <3>2, <3>4, <3>5 DEF AddAny
    <2>7. ASSUME NEW p \in Port \cup {NoPort}, RemoveRedirect(p)
          PROVE  TypeOK' /\ MappingsRemembered'
      BY <2>7, RemoveForgetsOnlyFreed DEF RemoveRedirect, locals, TypeOK
    <2>8. CASE DestroyStep
      <3>1. PICK p \in m_reg : Unmap(p)
        BY <2>8 DEF DestroyStep
      <3> QED
        BY <2>8, <3>1, RemoveForgetsOnlyFreed DEF DestroyStep, locals, TypeOK
    <2>9. CASE OtherHost
      <3>1. PICK p \in Port : \/ router' = [router EXCEPT ![p] = [owner |-> "other"]]
                              \/ router' = [router EXCEPT ![p] = Free]
        BY <2>9 DEF OtherHost
      <3>2. /\ router' \in [Port -> Mapping]
            /\ \A q \in Port : router'[q].owner = "us" => router[q].owner = "us"
        BY <3>1, MappingKinds DEF TypeOK
      <3> QED
        BY <2>1, <2>9, <3>2 DEF OtherHost, locals, TypeOK
    <2> QED
      BY <2>2, <2>3, <2>4, <2>5, <2>6, <2>7, <2>8, <2>9 DEF Next
  <1> QED
    BY <1>1, <1>2, PTL DEF Spec

(* The destructor knows every port the router still forwards for this      *)
(* object, but for those it would not give back when it was asked to and   *)
(* those it mapped in a call that was answered with an error.              *)
THEOREM PortsRemembered == Spec => []MappingsRemembered
  BY NatInvariant, PTL

(* Whichever of the three ways gave the port that addRedirect answers, it  *)
(* leads to the inner port of that call.                                   *)
THEOREM AnswerLeads == Spec => AnswerLeadsToAsked
  <1>1. TypeOK /\ [Next]_vars => [AnswerStep]_vars
    <2> SUFFICES ASSUME TypeOK, Next, at # "idle", at' = "idle", answer' # NoPort
                 PROVE  router'[answer'] = Ours(port_str)
      BY DEF AnswerStep
    <2>1. ASSUME NEW p \in Port, Given(p, port_str)
          PROVE  router'[answer'] = Ours(port_str)
      BY <2>1 DEF Given, Map, Answer, TypeOK
    <2>2. CASE AddDirect \/ AddRandom \/ AddAny
      <3>1. at \in {"direct", "add_random"} => port \in Port
        BY DEF TypeOK
      <3>2. ASSUME Answer(NoPort) PROVE answer' = NoPort
        BY <3>2 DEF Answer
      <3> QED
        BY <2>1, <2>2, <3>1, <3>2 DEF AddDirect, AddRandom, AddAny
    <2>3. ~(Discover \/ DeleteRandom \/ Destroy \/ DestroyStep \/ OtherHost)
      BY DEF Discover, DeleteRandom, Destroy, DestroyStep, OtherHost, locals
    <2>4. \A p \in Port \cup {NoPort} : ~AddRedirect(p) /\ ~RemoveRedirect(p)
      BY DEF AddRedirect, RemoveRedirect
    <2> QED
      BY <2>2, <2>3, <2>4 DEF Next
  <1> QED
    BY <1>1, NatInvariant, PTL DEF Spec, AnswerLeadsToAsked

-----------------------------------------------------------------------------
(* EvAsync *)

(* The words that threads share. *)
Loc == Item \cup Flag

(* What is on its way to memory: the loop's zeros and ones, a sender's ones. *)
Zeros == {l \in Loc : \E k \in DOMAIN buf[loop] : buf[loop][k] = <<l, 0>>}
Ones == {l \in Loc : \E k \in DOMAIN buf[loop] : buf[loop][k] = <<l, 1>>}
Sent == [s \in Sender |-> {l \in Loc : \E k \in DOMAIN buf[s] : buf[s][k] = <<l, 1>>}]

(* Senders store only ones, and a zero is the loop's first store to its flag. *)
Buffers ==
  /\ buf \in [Thread -> Seq(Loc \X {0, 1})]
  /\ \A s \in Sender : \A k \in DOMAIN buf[s] : buf[s][k][2] = 1
  /\ \A f \in Flag : \A k \in DOMAIN buf[loop] :
       buf[loop][k] = <<f, 0>> => \A j \in 1..k-1 : buf[loop][j][1] # f

(* Variables keep their types *)
AsyncTypes ==
  /\ mem \in [Loc -> {0, 1}]
  /\ pipe \in Nat
  /\ pc \in [Sender -> {"out", "test", "raise", "write"}] /\ item \in [Sender -> Item]
  /\ scan \subseteq Item /\ found \subseteq Item /\ fed \subseteq Item
  /\ active \subseteq Item /\ owed \subseteq active

(* Where the loop is, and what it has in hand there.  It looks at signals  *)
(* first: before that it has yet to look at both flags.                    *)
Quiet == {"poll", "lock", "close", "init", "read", "gotsig"}
AsyncPlaces ==
  /\ lat \in Quiet \cup {"gotsig_scan", "sig_found", "gotasync", "gotasync_scan", "async_found",
                         "invoke"}
  /\ open <=> lat # "init"
  /\ lat \in Quiet => fed = {}
  /\ lat \in Quiet \cup {"gotasync", "invoke"} => scan = {}
  /\ lat \notin {"sig_found", "async_found"} => found = {}
  /\ lat \in {"gotsig_scan", "sig_found"} => scan \subseteq Sig
  /\ lat \in {"gotasync_scan", "async_found"} => scan \subseteq Async

(* loop_fork holds the flag up *)
Locked(f) == lat = "close" \/ (lat = "lock" /\ f = "gotsig")

(* A sender has a flag in its buffer only until it has written to the pipe *)
FlagsSent ==
  \A s \in Sender, f \in Flag : f \in Sent[s] => pc[s] = "write" /\ f = FlagOf(item[s])

(* The loop lowers only a flag it saw up, raises it only in loop_fork, and *)
(* looks at a flag only when no store of its own to it is on the way.      *)
FlagsOfLoop ==
  /\ \A f \in Flag :
       /\ f \in Zeros => mem[f] = 1
       /\ f \in Ones => Locked(f)
       /\ Locked(f) => f \in Ones \/ (mem[f] = 1 /\ f \notin Zeros)
  /\ lat = "gotsig" => "gotsig" \notin Zeros \cup Ones
  /\ lat \in {"gotsig", "gotsig_scan", "sig_found", "gotasync"} => "gotasync" \notin Zeros \cup Ones

Up(f) == Locked(f) \/ (mem[f] = 1 /\ f \notin Zeros \cup Ones)
Lowering(f) == f \in Zeros /\ ~Locked(f)

(* What was sent, without a crossing, and no callback is pending for it:   *)
Owing == owed \ (crossed \cup fed)

(* it is marked, and no mark is being removed; ...                         *)
Marked ==
  \A i \in Owing : i \notin Zeros \cup Ones /\ (mem[i] = 1 \/ \E s \in Sender : i \in Sent[s])

(* ... somebody sees to it that the loop looks: its sender still goes for  *)
(* the flag, or a flag is on the way that the loop does not lower, or the  *)
(* flag is up, or the loop is about to look at the item; ...               *)
Noticed ==
  \A i \in Owing :
    \/ \E s \in Sender : item[s] = i /\ pc[s] = "test"
    \/ \E s \in Sender : item[s] = i /\ pc[s] = "raise" /\ ~Lowering(FlagOf(i))
    \/ \E s \in Sender : FlagOf(i) \in Sent[s] /\ ~Lowering(FlagOf(i))
    \/ Up(FlagOf(i))
    \/ i \in scan \cup found

(* ... and for a flag that is up, the loop comes by, or is woken.          *)
Looks(f) ==
  \/ lat \in Quiet \ {"poll"}
  \/ f = "gotasync" /\ lat \in {"gotsig_scan", "sig_found", "gotasync"}
Woken ==
  \A f \in Flag :
    Up(f) => Looks(f) \/ pipe > 0 \/ \E s \in Sender : pc[s] = "write" /\ FlagOf(item[s]) = f

AsyncIInv ==
  /\ AsyncTypes /\ Buffers /\ AsyncPlaces /\ FlagsSent /\ FlagsOfLoop
  /\ Marked /\ Noticed /\ Woken

LEMMA BufferedWords ==
  ASSUME AsyncAssumption, Buffers
  PROVE  /\ \A l \in Loc : Buffered(loop, l) <=> l \in Zeros \cup Ones
         /\ \A s \in Sender, l \in Loc : Buffered(s, l) <=> l \in Sent[s]
         /\ buf[loop] = <<>> => Zeros = {} /\ Ones = {}
         /\ \A s \in Sender : buf[s] = <<>> => Sent[s] = {}
<1>1. loop \in Thread /\ Sender \subseteq Thread
  BY DEF Thread
<1>2. \A t \in Thread : \A k \in DOMAIN buf[t] :
        /\ buf[t][k][1] \in Loc /\ buf[t][k][2] \in {0, 1}
        /\ buf[t][k] = <<buf[t][k][1], buf[t][k][2]>>
  <2> TAKE t \in Thread
  <2> TAKE k \in DOMAIN buf[t]
  <2>1. buf[t][k] \in Loc \X {0, 1}
    BY DEF Buffers
  <2> QED
    BY <2>1
<1>3. \A l \in Loc : Buffered(loop, l) <=> l \in Zeros \cup Ones
  BY <1>1, <1>2 DEF Buffered, Zeros, Ones
<1>4. \A s \in Sender, l \in Loc : Buffered(s, l) <=> l \in Sent[s]
  <2> TAKE s \in Sender, l \in Loc
  <2>1. \A k \in DOMAIN buf[s] : buf[s][k][1] = l <=> buf[s][k] = <<l, 1>>
    BY <1>1, <1>2 DEF Buffers
  <2>2. Sent[s] = {m \in Loc : \E k \in DOMAIN buf[s] : buf[s][k] = <<m, 1>>}
    BY DEF Sent
  <2> QED
    BY <2>1, <2>2 DEF Buffered
<1>5. buf[loop] = <<>> => Zeros = {} /\ Ones = {}
  BY DEF Zeros, Ones
<1>6. \A s \in Sender : buf[s] = <<>> => Sent[s] = {}
  BY DEF Sent
<1> QED
  BY <1>3, <1>4, <1>5, <1>6

(* Without a store of its own on the way, a thread loads from memory. *)
LEMMA LoadsMemory ==
  ASSUME NEW t, NEW l, ~Buffered(t, l)
  PROVE  Load(t, l) = mem[l]
<1>1. {k \in DOMAIN buf[t] : buf[t][k][1] = l} = {}
  BY DEF Buffered
<1> QED
  BY <1>1 DEF Load

(* What Append makes of a buffer. *)
LEMMA Appended ==
  ASSUME NEW q \in Seq(Loc \X {0, 1}), NEW l \in Loc, NEW v \in {0, 1},
         NEW r, r = Append(q, <<l, v>>)
  PROVE  /\ r \in Seq(Loc \X {0, 1})
         /\ \A k \in DOMAIN r :
              /\ k \in DOMAIN q => r[k] = q[k]
              /\ k \notin DOMAIN q => r[k] = <<l, v>>
              /\ \A j \in 1..k-1 : j \in DOMAIN q /\ r[j] = q[j]
<1> DEFINE e == <<l, v>>
<1>1. e \in Loc \X {0, 1}
  OBVIOUS
<1>2. /\ r \in Seq(Loc \X {0, 1})
      /\ DOMAIN r = 1..Len(q) + 1 /\ DOMAIN q = 1..Len(q) /\ Len(q) \in Nat
      /\ \A k \in 1..Len(q) : r[k] = q[k]
      /\ r[Len(q) + 1] = e
  BY <1>1
<1>4. ASSUME NEW k \in DOMAIN r
      PROVE  /\ k \in DOMAIN q => r[k] = q[k]
             /\ k \notin DOMAIN q => r[k] = e
             /\ \A j \in 1..k-1 : j \in DOMAIN q /\ r[j] = q[j]
  <2> HIDE DEF e
  <2>1. k \in 1..Len(q) + 1
    BY <1>2
  <2>2. k \notin DOMAIN q => k = Len(q) + 1
    BY <1>2, <2>1
  <2> QED
    BY <1>2, <2>1, <2>2
<1> QED
  BY <1>2, <1>4

(* Which words a buffer holds after Append. *)
LEMMA Holds ==
  ASSUME NEW Elem, NEW q \in Seq(Elem), NEW e \in Elem, NEW x
  PROVE  (\E k \in DOMAIN Append(q, e) : Append(q, e)[k] = x)
         <=> (\E k \in DOMAIN q : q[k] = x) \/ e = x
<1> DEFINE r == Append(q, e)
<1>1. /\ DOMAIN r = 1..Len(q) + 1 /\ DOMAIN q = 1..Len(q) /\ Len(q) \in Nat
      /\ \A k \in 1..Len(q) : r[k] = q[k]
      /\ r[Len(q) + 1] = e
  OBVIOUS
<1> HIDE DEF r
<1>2. ASSUME NEW k \in DOMAIN r, r[k] = x
      PROVE  (\E j \in DOMAIN q : q[j] = x) \/ e = x
  <2>1. k \in 1..Len(q) \/ k = Len(q) + 1
    BY <1>1
  <2> QED
    BY <1>1, <1>2, <2>1
<1>3. ASSUME NEW k \in DOMAIN q, q[k] = x
      PROVE  \E j \in DOMAIN r : r[j] = x
  <2>1. k \in DOMAIN r /\ r[k] = q[k]
    BY <1>1
  <2> QED
    BY <1>3, <2>1
<1>4. Len(q) + 1 \in DOMAIN r
  BY <1>1
<1>5. (\E k \in DOMAIN r : r[k] = x) <=> (\E k \in DOMAIN q : q[k] = x) \/ e = x
  BY <1>1, <1>2, <1>3, <1>4
<1> QED
  BY <1>5 DEF r

(* A store of the loop. *)
LEMMA LoopStores ==
  ASSUME AsyncAssumption, Buffers, NEW l \in Loc, NEW v \in {0, 1}, Store(loop, l, v),
         l \in Flag /\ v = 0 => l \notin Zeros \cup Ones
  PROVE  /\ Buffers' /\ Sent' = Sent
         /\ v = 0 => Zeros' = Zeros \cup {l} /\ Ones' = Ones
         /\ v = 1 => Zeros' = Zeros /\ Ones' = Ones \cup {l}
<1> DEFINE r == Append(buf[loop], <<l, v>>)
<1>1. loop \in Thread /\ loop \notin Sender /\ Sender \subseteq Thread
  BY DEF Thread, AsyncAssumption
<1>2. buf[loop] \in Seq(Loc \X {0, 1})
  BY <1>1 DEF Buffers
<1>0. r = Append(buf[loop], <<l, v>>)
  OBVIOUS
<1> HIDE DEF r
<1>3. r \in Seq(Loc \X {0, 1})
  BY <1>0, <1>2, Appended
<1>4. /\ buf' = [buf EXCEPT ![loop] = r]
      /\ buf'[loop] = r /\ \A s \in Sender : buf'[s] = buf[s]
  BY <1>0, <1>1 DEF Store, Buffers
<1>5. \A m \in Loc, w \in {0, 1} :
        (\E k \in DOMAIN r : r[k] = <<m, w>>)
        <=> (\E k \in DOMAIN buf[loop] : buf[loop][k] = <<m, w>>) \/ (m = l /\ w = v)
  <2> TAKE m \in Loc, w \in {0, 1}
  <2> DEFINE e == <<l, v>>
             x == <<m, w>>
  <2>1. e \in Loc \X {0, 1} /\ r = Append(buf[loop], e)
    BY <1>0
  <2>2. e = x <=> m = l /\ w = v
    OBVIOUS
  <2> HIDE DEF e, x
  <2> DEFINE q == buf[loop]
           Elem == Loc \X {0, 1}
  <2>3. q \in Seq(Elem) /\ e \in Elem /\ r = Append(q, e)
    BY <1>2, <2>1
  <2> HIDE DEF q, Elem
  <2>4. (\E k \in DOMAIN Append(q, e) : Append(q, e)[k] = x) <=> (\E k \in DOMAIN q : q[k] = x) \/ e = x
    BY <2>3, Holds, SMT
  <2>5. (\E k \in DOMAIN r : r[k] = x) <=> (\E k \in DOMAIN q : q[k] = x) \/ e = x
    BY <2>3, <2>4, Zenon
  <2> QED
    BY <2>2, <2>5 DEF q, x
<1>6. \A k \in DOMAIN r :
        /\ k \in DOMAIN buf[loop] => r[k] = buf[loop][k]
        /\ k \notin DOMAIN buf[loop] => r[k] = <<l, v>>
        /\ \A j \in 1..k-1 : j \in DOMAIN buf[loop] /\ r[j] = buf[loop][j]
  BY <1>0, <1>2, Appended
<1>7. Sent' = Sent
  BY <1>4 DEF Sent
<1>8. Zeros' = {m \in Loc : m \in Zeros \/ (m = l /\ v = 0)}
  <2>1. \A m \in Loc : (\E k \in DOMAIN buf'[loop] : buf'[loop][k] = <<m, 0>>)
                       <=> (\E k \in DOMAIN buf[loop] : buf[loop][k] = <<m, 0>>) \/ (m = l /\ v = 0)
    BY <1>4, <1>5
  <2> QED
    BY <2>1 DEF Zeros
<1>9. Ones' = {m \in Loc : m \in Ones \/ (m = l /\ v = 1)}
  <2>1. \A m \in Loc : (\E k \in DOMAIN buf'[loop] : buf'[loop][k] = <<m, 1>>)
                       <=> (\E k \in DOMAIN buf[loop] : buf[loop][k] = <<m, 1>>) \/ (m = l /\ v = 1)
    BY <1>4, <1>5
  <2> QED
    BY <2>1 DEF Ones
<1>10. Zeros \subseteq Loc /\ Ones \subseteq Loc
  BY DEF Zeros, Ones
<1>11. Buffers'
  <2>1. buf' \in [Thread -> Seq(Loc \X {0, 1})]
    BY <1>3, <1>4 DEF Buffers
  <2>2. \A s \in Sender : \A k \in DOMAIN buf'[s] : buf'[s][k][2] = 1
    BY <1>4 DEF Buffers
  <2>3. ASSUME NEW f \in Flag, NEW k \in DOMAIN r, r[k] = <<f, 0>>, NEW j \in 1..k-1
        PROVE  r[j][1] # f
    <3>1. j \in DOMAIN buf[loop] /\ r[j] = buf[loop][j]
      BY <1>6, <2>3
    <3>2. CASE k \in DOMAIN buf[loop]
      <4>1. buf[loop][k] = <<f, 0>>
        BY <1>6, <2>3, <3>2
      <4> QED
        BY <2>3, <3>1, <3>2, <4>1 DEF Buffers
    <3>3. CASE k \notin DOMAIN buf[loop]
      <4>1. f = l /\ v = 0
        BY <1>6, <2>3, <3>3
      <4>2. ~Buffered(loop, l)
        BY <2>3, <4>1, BufferedWords
      <4> QED
        BY <3>1, <4>1, <4>2 DEF Buffered
    <3> QED
      BY <3>2, <3>3
  <2> QED
    BY <1>4, <2>1, <2>2, <2>3 DEF Buffers
<1> QED
  BY <1>7, <1>8, <1>9, <1>10, <1>11

(* A store of a sender. *)
LEMMA SenderStores ==
  ASSUME AsyncAssumption, Buffers, NEW s \in Sender, NEW l \in Loc, Store(s, l, 1)
  PROVE  /\ Buffers' /\ Zeros' = Zeros /\ Ones' = Ones
         /\ Sent' = [Sent EXCEPT ![s] = @ \cup {l}]
<1> DEFINE r == Append(buf[s], <<l, 1>>)
<1>1. loop \in Thread /\ loop \notin Sender /\ Sender \subseteq Thread
  BY DEF Thread, AsyncAssumption
<1>2. buf[s] \in Seq(Loc \X {0, 1})
  BY <1>1 DEF Buffers
<1>0. r = Append(buf[s], <<l, 1>>)
  OBVIOUS
<1> HIDE DEF r
<1>3. r \in Seq(Loc \X {0, 1})
  BY <1>0, <1>2, Appended
<1>4. /\ buf' = [buf EXCEPT ![s] = r]
      /\ buf'[s] = r /\ buf'[loop] = buf[loop]
      /\ \A u \in Sender \ {s} : buf'[u] = buf[u]
  BY <1>0, <1>1 DEF Store, Buffers
<1>5. \A m \in Loc, w \in {0, 1} :
        (\E k \in DOMAIN r : r[k] = <<m, w>>)
        <=> (\E k \in DOMAIN buf[s] : buf[s][k] = <<m, w>>) \/ (m = l /\ w = 1)
  <2> TAKE m \in Loc, w \in {0, 1}
  <2> DEFINE e == <<l, 1>>
             x == <<m, w>>
  <2>1. e \in Loc \X {0, 1} /\ r = Append(buf[s], e)
    BY <1>0
  <2>2. e = x <=> m = l /\ w = 1
    OBVIOUS
  <2> HIDE DEF e, x
  <2> DEFINE q == buf[s]
           Elem == Loc \X {0, 1}
  <2>3. q \in Seq(Elem) /\ e \in Elem /\ r = Append(q, e)
    BY <1>2, <2>1
  <2> HIDE DEF q, Elem
  <2>4. (\E k \in DOMAIN Append(q, e) : Append(q, e)[k] = x) <=> (\E k \in DOMAIN q : q[k] = x) \/ e = x
    BY <2>3, Holds, SMT
  <2>5. (\E k \in DOMAIN r : r[k] = x) <=> (\E k \in DOMAIN q : q[k] = x) \/ e = x
    BY <2>3, <2>4, Zenon
  <2> QED
    BY <2>2, <2>5 DEF q, x
<1>6. \A k \in DOMAIN r :
        /\ k \in DOMAIN buf[s] => r[k] = buf[s][k]
        /\ k \notin DOMAIN buf[s] => r[k] = <<l, 1>>
  BY <1>0, <1>2, Appended
<1>7. Zeros' = Zeros /\ Ones' = Ones
  BY <1>4 DEF Zeros, Ones
<1>8. Sent' = [Sent EXCEPT ![s] = @ \cup {l}]
  <2>2. /\ Sent = [u \in Sender |-> Sent[u]] /\ Sent' = [u \in Sender |-> Sent'[u]]
        /\ \A u \in Sender :
             /\ Sent[u] = {m \in Loc : \E k \in DOMAIN buf[u] : buf[u][k] = <<m, 1>>}
             /\ Sent'[u] = {m \in Loc : \E k \in DOMAIN buf'[u] : buf'[u][k] = <<m, 1>>}
    BY DEF Sent
  <2>1. {m \in Loc : \E k \in DOMAIN buf'[s] : buf'[s][k] = <<m, 1>>}
          = {m \in Loc : \E k \in DOMAIN buf[s] : buf[s][k] = <<m, 1>>} \cup {l}
    BY <1>4, <1>5
  <2>3. \A u \in Sender : Sent'[u] = IF u = s THEN Sent[u] \cup {l} ELSE Sent[u]
    <3>1. Sent'[s] = Sent[s] \cup {l}
      BY <2>1, <2>2
    <3>2. ASSUME NEW u \in Sender, u # s PROVE Sent'[u] = Sent[u]
      <4>1. buf'[u] = buf[u]
        BY <1>4, <3>2
      <4>2. {m \in Loc : \E k \in DOMAIN buf'[u] : buf'[u][k] = <<m, 1>>}
              = {m \in Loc : \E k \in DOMAIN buf[u] : buf[u][k] = <<m, 1>>}
        BY <4>1
      <4> QED
        BY <2>2, <4>2, Zenon
    <3> QED
      BY <3>1, <3>2
  <2> QED
    BY <2>2, <2>3
<1>9. Buffers'
  <2>1. buf' \in [Thread -> Seq(Loc \X {0, 1})]
    BY <1>3, <1>4 DEF Buffers
  <2>2. \A u \in Sender : \A k \in DOMAIN buf'[u] : buf'[u][k][2] = 1
    <3>1. \A k \in DOMAIN r : r[k][2] = 1
      BY <1>6 DEF Buffers
    <3>2. \A u \in Sender : \A k \in DOMAIN buf[u] : buf[u][k][2] = 1
      BY DEF Buffers
    <3> QED
      BY <1>4, <3>1, <3>2
  <2>3. \A f \in Flag : \A k \in DOMAIN buf'[loop] :
          buf'[loop][k] = <<f, 0>> => \A j \in 1..k - 1 : buf'[loop][j][1] # f
    <3>1. buf'[loop] = buf[loop]
      BY <1>4
    <3>2. \A f \in Flag : \A k \in DOMAIN buf[loop] :
            buf[loop][k] = <<f, 0>> => \A j \in 1..k - 1 : buf[loop][j][1] # f
      BY Zenon DEF Buffers
    <3> QED
      BY <3>1, <3>2, Zenon
  <2> QED
    BY <2>1, <2>2, <2>3, Zenon DEF Buffers
<1> QED
  BY <1>7, <1>8, <1>9

(* What Tail leaves of a buffer. *)
LEMMA Drained ==
  ASSUME NEW q \in Seq(Loc \X {0, 1}), q # <<>>
  PROVE  \E l \in Loc, v \in {0, 1} :
           /\ Head(q) = <<l, v>> /\ Tail(q) \in Seq(Loc \X {0, 1})
           /\ 1 \in DOMAIN q /\ q[1] = <<l, v>>
           /\ \A k \in DOMAIN Tail(q) :
                k + 1 \in DOMAIN q /\ k + 1 > 1 /\ Tail(q)[k] = q[k + 1]
           /\ \A k \in DOMAIN q : k = 1 \/ (k - 1 \in DOMAIN Tail(q) /\ Tail(q)[k - 1] = q[k])
<1>1. Head(q) \in Loc \X {0, 1} /\ Tail(q) \in Seq(Loc \X {0, 1}) /\ Head(q) = q[1]
  OBVIOUS
<1>2. /\ Len(q) \in Nat /\ Len(q) > 0 /\ Len(Tail(q)) = Len(q) - 1
      /\ DOMAIN q = 1..Len(q) /\ DOMAIN Tail(q) = 1..Len(q) - 1
      /\ \A k \in 1..Len(q) - 1 : Tail(q)[k] = q[k + 1]
  OBVIOUS
<1>3. PICK l \in Loc, v \in {0, 1} : Head(q) = <<l, v>>
  BY <1>1
<1>4. \A k \in DOMAIN q : k = 1 \/ (k - 1 \in DOMAIN Tail(q) /\ Tail(q)[k - 1] = q[k])
  <2> TAKE k \in DOMAIN q
  <2>1. k = 1 \/ k - 1 \in 1..Len(q) - 1
    BY <1>2
  <2>2. k - 1 \in 1..Len(q) - 1 => Tail(q)[k - 1] = q[(k - 1) + 1] /\ (k - 1) + 1 = k
    BY <1>2
  <2> QED
    BY <1>2, <2>1, <2>2
<1>5. \A k \in DOMAIN Tail(q) :
        k + 1 \in DOMAIN q /\ k + 1 > 1 /\ Tail(q)[k] = q[k + 1]
  BY <1>2
<1>6. 1 \in DOMAIN q
  BY <1>2
<1> QED
  BY <1>1, <1>3, <1>4, <1>5, <1>6

(* A store of a sender reaches memory. *)
LEMMA SenderDrains ==
  ASSUME AsyncAssumption, Buffers, NEW s \in Sender, Drain(s)
  PROVE  \E l \in Sent[s] :
           /\ mem' = [mem EXCEPT ![l] = 1]
           /\ Buffers' /\ Zeros' = Zeros /\ Ones' = Ones
           /\ \A u \in Sender \ {s} : Sent'[u] = Sent[u]
           /\ Sent'[s] \subseteq Sent[s] /\ Sent[s] \subseteq Sent'[s] \cup {l}
<1> DEFINE q == buf[s]
           r == Tail(buf[s])
<1>1. loop \in Thread /\ loop \notin Sender /\ Sender \subseteq Thread
  BY DEF Thread, AsyncAssumption
<1>2. q \in Seq(Loc \X {0, 1}) /\ q # <<>>
  BY <1>1 DEF Buffers, Drain
<1>3. PICK l \in Loc, v \in {0, 1} :
        /\ Head(q) = <<l, v>> /\ r \in Seq(Loc \X {0, 1})
        /\ 1 \in DOMAIN q /\ q[1] = <<l, v>>
        /\ \A k \in DOMAIN r : k + 1 \in DOMAIN q /\ k + 1 > 1 /\ r[k] = q[k + 1]
        /\ \A k \in DOMAIN q : k = 1 \/ (k - 1 \in DOMAIN r /\ r[k - 1] = q[k])
  BY <1>2, Drained
<1>4. /\ buf' = [buf EXCEPT ![s] = r]
      /\ buf'[s] = r /\ buf'[loop] = buf[loop]
      /\ \A u \in Sender \ {s} : buf'[u] = buf[u]
  BY <1>1 DEF Drain, Buffers
<1>5. v = 1
  BY <1>3 DEF Buffers
<1>6. mem' = [mem EXCEPT ![l] = 1]
  <2>1. Head(q)[1] = l /\ Head(q)[2] = 1
    BY <1>3, <1>5
  <2> QED
    BY <2>1, Zenon DEF Drain
<1> HIDE DEF r
<1>7. Zeros' = Zeros /\ Ones' = Ones
  BY <1>4 DEF Zeros, Ones
<1>8. \A u \in Sender \ {s} : Sent'[u] = Sent[u]
  BY <1>4 DEF Sent
<1>9. /\ Sent[s] = {m \in Loc : \E k \in DOMAIN q : q[k] = <<m, 1>>}
      /\ Sent'[s] = {m \in Loc : \E k \in DOMAIN r : r[k] = <<m, 1>>}
  BY <1>4 DEF Sent
<1>10. l \in Sent[s]
  BY <1>3, <1>5, <1>9
<1>11. Sent'[s] \subseteq Sent[s]
  <2> SUFFICES ASSUME NEW m \in Loc, NEW k \in DOMAIN r, r[k] = <<m, 1>>
               PROVE  \E j \in DOMAIN q : q[j] = <<m, 1>>
    BY <1>9
  <2>1. k + 1 \in DOMAIN q /\ r[k] = q[k + 1]
    BY <1>3
  <2> QED
    BY <2>1
<1>12. Sent[s] \subseteq Sent'[s] \cup {l}
  <2> SUFFICES ASSUME NEW m \in Loc, NEW k \in DOMAIN q, q[k] = <<m, 1>>, m # l
               PROVE  \E j \in DOMAIN r : r[j] = <<m, 1>>
    BY <1>9
  <2>1. k # 1
    BY <1>3
  <2> QED
    BY <1>3, <2>1
<1>13. Buffers'
  <2>1. buf' \in [Thread -> Seq(Loc \X {0, 1})]
    BY <1>3, <1>4 DEF Buffers
  <2>2. \A u \in Sender : \A k \in DOMAIN buf'[u] : buf'[u][k][2] = 1
    <3>1. \A k \in DOMAIN q : q[k][2] = 1
      BY Zenon DEF Buffers
    <3>2. ASSUME NEW k \in DOMAIN r PROVE r[k][2] = 1
      <4>1. k + 1 \in DOMAIN q /\ r[k] = q[k + 1]
        BY <1>3
      <4> QED
        BY <3>1, <4>1
    <3>3. ASSUME NEW u \in Sender, NEW k \in DOMAIN buf'[u] PROVE buf'[u][k][2] = 1
      <4>1. CASE u = s
        BY <1>4, <3>2, <4>1
      <4>2. CASE u # s
        <5>1. buf'[u] = buf[u]
          BY <1>4, <4>2
        <5> QED
          BY <5>1, Zenon DEF Buffers
      <4> QED
        BY <4>1, <4>2
    <3> QED
      BY <3>3
  <2>3. \A f \in Flag : \A k \in DOMAIN buf'[loop] :
          buf'[loop][k] = <<f, 0>> => \A j \in 1..k - 1 : buf'[loop][j][1] # f
    <3>1. buf'[loop] = buf[loop]
      BY <1>4
    <3>2. \A f \in Flag : \A k \in DOMAIN buf[loop] :
            buf[loop][k] = <<f, 0>> => \A j \in 1..k - 1 : buf[loop][j][1] # f
      BY Zenon DEF Buffers
    <3> QED
      BY <3>1, <3>2, Zenon
  <2> QED
    BY <2>1, <2>2, <2>3, Zenon DEF Buffers
<1> QED
  BY <1>6, <1>7, <1>8, <1>10, <1>11, <1>12, <1>13

(* A store of the loop reaches memory. *)
LEMMA LoopDrains ==
  ASSUME AsyncAssumption, Buffers, Drain(loop)
  PROVE  /\ Buffers' /\ Sent' = Sent
         /\ \E l \in Loc :
              \/ /\ l \in Zeros /\ mem' = [mem EXCEPT ![l] = 0] /\ Ones' = Ones
                 /\ Zeros' \subseteq Zeros /\ Zeros \subseteq Zeros' \cup {l}
                 /\ l \in Flag => l \notin Zeros'
              \/ /\ l \in Ones /\ mem' = [mem EXCEPT ![l] = 1] /\ Zeros' = Zeros
                 /\ Ones' \subseteq Ones /\ Ones \subseteq Ones' \cup {l}
                 /\ l \in Flag => l \notin Zeros
<1> DEFINE q == buf[loop]
           r == Tail(buf[loop])
<1>1. loop \in Thread /\ loop \notin Sender /\ Sender \subseteq Thread
  BY DEF Thread, AsyncAssumption
<1>2. q \in Seq(Loc \X {0, 1}) /\ q # <<>>
  BY <1>1 DEF Buffers, Drain
<1>3. PICK l \in Loc, v \in {0, 1} :
        /\ Head(q) = <<l, v>> /\ r \in Seq(Loc \X {0, 1})
        /\ 1 \in DOMAIN q /\ q[1] = <<l, v>>
        /\ \A k \in DOMAIN r : k + 1 \in DOMAIN q /\ k + 1 > 1 /\ r[k] = q[k + 1]
        /\ \A k \in DOMAIN q : k = 1 \/ (k - 1 \in DOMAIN r /\ r[k - 1] = q[k])
  BY <1>2, Drained
<1>4. /\ buf' = [buf EXCEPT ![loop] = r]
      /\ buf'[loop] = r /\ \A u \in Sender : buf'[u] = buf[u]
  BY <1>1 DEF Drain, Buffers
<1>5. mem' = [mem EXCEPT ![l] = v]
  <2>1. Head(q)[1] = l /\ Head(q)[2] = v
    BY <1>3
  <2> QED
    BY <2>1, Zenon DEF Drain
<1>6. DOMAIN r \subseteq Nat /\ DOMAIN q \subseteq Nat
  BY <1>2, <1>3
<1> HIDE DEF r
<1>7. Sent' = Sent
  BY <1>4 DEF Sent
<1>8. /\ Zeros = {m \in Loc : \E k \in DOMAIN q : q[k] = <<m, 0>>}
      /\ Zeros' = {m \in Loc : \E k \in DOMAIN r : r[k] = <<m, 0>>}
      /\ Ones = {m \in Loc : \E k \in DOMAIN q : q[k] = <<m, 1>>}
      /\ Ones' = {m \in Loc : \E k \in DOMAIN r : r[k] = <<m, 1>>}
  BY <1>4 DEF Zeros, Ones
<1>9. Zeros' \subseteq Zeros /\ Ones' \subseteq Ones
  <2> SUFFICES ASSUME NEW m \in Loc, NEW w \in {0, 1}, NEW k \in DOMAIN r, r[k] = <<m, w>>
               PROVE  \E j \in DOMAIN q : q[j] = <<m, w>>
    BY <1>8
  <2>1. k + 1 \in DOMAIN q /\ r[k] = q[k + 1]
    BY <1>3
  <2> QED
    BY <2>1
<1>10. \A m \in Loc, w \in {0, 1} :
         (\E k \in DOMAIN q : q[k] = <<m, w>>) =>
           (m = l /\ w = v) \/ \E j \in DOMAIN r : r[j] = <<m, w>>
  <2> SUFFICES ASSUME NEW m \in Loc, NEW w \in {0, 1}, NEW k \in DOMAIN q, q[k] = <<m, w>>,
                      ~(m = l /\ w = v)
               PROVE  \E j \in DOMAIN r : r[j] = <<m, w>>
    OBVIOUS
  <2>1. k # 1
    BY <1>3
  <2> QED
    BY <1>3, <2>1
<1>11. l \in Flag => \A k \in DOMAIN r : r[k] # <<l, 0>>
  <2> SUFFICES ASSUME l \in Flag, NEW k \in DOMAIN r, r[k] = <<l, 0>> PROVE FALSE
    OBVIOUS
  <2>1. k + 1 \in DOMAIN q /\ q[k + 1] = <<l, 0>> /\ 1 \in 1..(k + 1) - 1
    BY <1>3, <1>6
  <2>2. q[1][1] # l
    BY <2>1 DEF Buffers
  <2> QED
    BY <1>3, <2>2
<1>12. Buffers'
  <2>1. buf' \in [Thread -> Seq(Loc \X {0, 1})]
    BY <1>3, <1>4 DEF Buffers
  <2>2. ASSUME NEW f \in Flag, NEW k \in DOMAIN r, r[k] = <<f, 0>>, NEW j \in 1..k-1
        PROVE  r[j][1] # f
    <3>1. k + 1 \in DOMAIN q /\ q[k + 1] = <<f, 0>>
      BY <1>3, <2>2
    <3>2. j + 1 \in 1..(k + 1) - 1 /\ j \in DOMAIN r
      BY <1>3, <1>6, <2>2
    <3>3. q[j + 1][1] # f
      BY <3>1, <3>2 DEF Buffers
    <3> QED
      BY <1>3, <3>2, <3>3
  <2> QED
    BY <1>4, <2>1, <2>2 DEF Buffers
<1>13. /\ Zeros \subseteq Zeros' \cup {m \in Loc : m = l /\ v = 0}
       /\ Ones \subseteq Ones' \cup {m \in Loc : m = l /\ v = 1}
  BY <1>8, <1>10
<1>14. l \in Flag => l \notin Zeros'
  BY <1>8, <1>11
<1>15. /\ v = 0 => l \in Zeros
       /\ v = 1 => l \in Ones
  BY <1>3, <1>8
<1>16. v = 1 => Zeros' = Zeros
  <2>1. v = 1 => {m \in Loc : m = l /\ v = 0} = {}
    OBVIOUS
  <2> QED
    BY <1>9, <1>13, <2>1
<1>17. v = 0 => Ones' = Ones
  <2>1. v = 0 => {m \in Loc : m = l /\ v = 1} = {}
    OBVIOUS
  <2> QED
    BY <1>9, <1>13, <2>1
<1> QED
  BY <1>5, <1>7, <1>9, <1>12, <1>13, <1>14, <1>15, <1>16, <1>17

(* Words and threads *)
LEMMA Words ==
  ASSUME AsyncAssumption
  PROVE  /\ Flag = {"gotsig", "gotasync"} /\ Item \cap Flag = {} /\ Item \subseteq Loc /\ Flag \subseteq Loc
         /\ \A i \in Item : FlagOf(i) \in Flag /\ i \in Loc /\ i \notin Flag
         /\ \A i \in Sig : i \in Item /\ FlagOf(i) = "gotsig"
         /\ \A i \in Async : i \in Item /\ i \notin Sig /\ FlagOf(i) = "gotasync"
         /\ Item = Sig \cup Async
         /\ loop \in Thread /\ Sender \subseteq Thread /\ loop \notin Sender
  BY DEF AsyncAssumption, Flag, FlagOf, Loc, Item, Thread

(* What a step leaves alone *)
LEMMA SameBuffers ==
  ASSUME Buffers, UNCHANGED buf
  PROVE  Buffers' /\ Zeros' = Zeros /\ Ones' = Ones /\ Sent' = Sent
  BY DEF Buffers, Zeros, Ones, Sent

LEMMA SameMarks ==
  ASSUME Marked, Owing' \subseteq Owing, UNCHANGED mem, Zeros' = Zeros, Ones' = Ones, Sent' = Sent
  PROVE  Marked'
  BY DEF Marked

(* ev_async_send and ev_sighandler mark *)
LEMMA SendKeeps ==
  ASSUME AsyncAssumption, AsyncIInv, NEW s \in Sender, Send(s)
  PROVE  AsyncIInv'
<1> USE Words DEF AsyncIInv
<1>1. PICK i \in active \cup Async :
        /\ item' = [item EXCEPT ![s] = i]
        /\ Store(s, i, 1)
        /\ owed' = owed \cup ({i} \cap active)
        /\ crossed' = IF Buffered(loop, i) THEN crossed \cup {i} ELSE crossed
  BY DEF Send
<1>2. i \in Item /\ i \in Loc
  BY <1>1 DEF AsyncTypes
<1>3. /\ pc[s] = "out" /\ pc' = [pc EXCEPT ![s] = "test"]
      /\ UNCHANGED <<mem, pipe, open, lat, scan, found, fed, active>>
  BY <1>1 DEF Send, Store, loopvars
<1>4. Buffers' /\ Zeros' = Zeros /\ Ones' = Ones /\ Sent' = [Sent EXCEPT ![s] = @ \cup {i}]
  BY <1>1, <1>2, SenderStores
<1>5. Sent'[s] = Sent[s] \cup {i} /\ \A u \in Sender : u # s => Sent'[u] = Sent[u]
  BY <1>4 DEF Sent
<1>6. crossed' = IF i \in Zeros \cup Ones THEN crossed \cup {i} ELSE crossed
  BY <1>1, <1>2, BufferedWords
<1>7. /\ item'[s] = i /\ pc'[s] = "test"
      /\ \A u \in Sender : u # s => item'[u] = item[u] /\ pc'[u] = pc[u]
  BY <1>1, <1>3 DEF AsyncTypes
<1>8. Owing' \subseteq Owing \cup {i} /\ (i \in Owing' => i \notin Zeros \cup Ones)
  BY <1>1, <1>3, <1>6 DEF Owing
<1>9. AsyncTypes'
  BY <1>1, <1>2, <1>3 DEF AsyncTypes
<1>10. AsyncPlaces'
  BY <1>3 DEF AsyncPlaces
<1>11. FlagsSent'
  BY <1>2, <1>3, <1>5, <1>7 DEF FlagsSent
<1>12. FlagsOfLoop'
  BY <1>3, <1>4 DEF FlagsOfLoop, Locked
<1>13. Marked'
  BY <1>3, <1>4, <1>5, <1>8 DEF Marked
<1>14. Noticed'
  BY <1>3, <1>4, <1>5, <1>7, <1>8 DEF Noticed, Up, Lowering, Locked
<1>15. Woken'
  BY <1>3, <1>4, <1>7 DEF Woken, Up, Looks, Locked
<1> QED
  BY <1>4, <1>9, <1>10, <1>11, <1>12, <1>13, <1>14, <1>15

(* evpipe_write: a flag that is up, and not about to be lowered, is enough *)
LEMMA TestFlagKeeps ==
  ASSUME AsyncAssumption, AsyncIInv, NEW s \in Sender, TestFlag(s)
  PROVE  AsyncIInv'
<1> USE Words DEF AsyncIInv
<1> DEFINE f == FlagOf(item[s])
<1>1. /\ pc[s] = "test" /\ item[s] \in Item /\ f \in Flag
      /\ UNCHANGED <<mem, buf, pipe, open, item, lat, scan, found, fed, active, owed>>
  BY DEF TestFlag, loopvars, AsyncTypes
<1>2. Buffers' /\ Zeros' = Zeros /\ Ones' = Ones /\ Sent' = Sent
  BY <1>1, SameBuffers
<1>3. Load(s, f) = mem[f]
  <2>1. ~Buffered(s, f)
    BY <1>1, BufferedWords DEF FlagsSent
  <2> QED
    BY <2>1, LoadsMemory
<1>4. IF mem[f] = 1
        THEN /\ pc' = [pc EXCEPT ![s] = "out"]
             /\ crossed' = IF Buffered(loop, f) THEN crossed \cup {item[s]} ELSE crossed
        ELSE pc' = [pc EXCEPT ![s] = "raise"] /\ UNCHANGED crossed
  BY <1>3 DEF TestFlag
<1>5. Buffered(loop, f) <=> f \in Zeros \cup Ones
  BY <1>1, BufferedWords
<1> HIDE DEF f
<1>6. \A u \in Sender : u # s => pc'[u] = pc[u]
  BY <1>4 DEF AsyncTypes
<1>7. Owing' \subseteq Owing
  BY <1>1, <1>4 DEF Owing
<1>8. AsyncTypes'
  BY <1>1, <1>4 DEF AsyncTypes
<1>9. AsyncPlaces'
  BY <1>1 DEF AsyncPlaces
<1>10. FlagsSent'
  BY <1>1, <1>2, <1>6 DEF FlagsSent
<1>11. FlagsOfLoop'
  BY <1>1, <1>2 DEF FlagsOfLoop, Locked
<1>12. Marked'
  BY <1>1, <1>2, <1>7, SameMarks
<1>13. Noticed'
  <2> SUFFICES ASSUME NEW i \in Owing'
               PROVE  \/ \E u \in Sender : item'[u] = i /\ pc'[u] = "test"
                      \/ \E u \in Sender : item'[u] = i /\ pc'[u] = "raise" /\ ~Lowering(FlagOf(i))'
                      \/ \E u \in Sender : FlagOf(i) \in Sent'[u] /\ ~Lowering(FlagOf(i))'
                      \/ Up(FlagOf(i))'
                      \/ i \in scan' \cup found'
    BY Zenon DEF Noticed
  <2>1. \A g \in Flag : (Up(g)' <=> Up(g)) /\ (Lowering(g)' <=> Lowering(g))
    BY <1>1, <1>2 DEF Up, Lowering, Locked
  <2>2. i \in Owing /\ FlagOf(i) \in Flag
    BY <1>1, <1>7, <1>8 DEF Owing, AsyncTypes
  <2>3. CASE i = item[s]
    <3>1. CASE mem[f] = 1
      <4>1. f \notin Zeros \cup Ones
        BY <1>4, <1>5, <2>3, <3>1 DEF Owing
      <4> QED
        BY <2>1, <2>2, <2>3, <3>1, <4>1 DEF Up, f
    <3>2. CASE mem[f] # 1
      <4>1. pc'[s] = "raise" /\ item'[s] = i
        BY <1>1, <1>4, <2>3, <3>2 DEF AsyncTypes
      <4>2. ~Lowering(f)
        BY <1>1, <3>2 DEF Lowering, FlagsOfLoop
      <4> QED
        BY <2>1, <2>2, <2>3, <4>1, <4>2 DEF f
    <3> QED
      BY <3>1, <3>2
  <2>4. CASE i # item[s]
    BY <1>1, <1>2, <1>6, <2>1, <2>2, <2>4 DEF Noticed
  <2> QED
    BY <2>3, <2>4
<1>14. Woken'
  BY <1>1, <1>2, <1>6 DEF Woken, Up, Looks, Locked
<1> QED
  BY <1>2, <1>8, <1>9, <1>10, <1>11, <1>12, <1>13, <1>14

(* ... the flag is raised ... *)
LEMMA RaiseFlagKeeps ==
  ASSUME AsyncAssumption, AsyncIInv, NEW s \in Sender, RaiseFlag(s)
  PROVE  AsyncIInv'
<1> USE Words DEF AsyncIInv
<1> DEFINE f == FlagOf(item[s])
<1>1. /\ pc[s] = "raise" /\ item[s] \in Item /\ f \in Flag /\ Store(s, f, 1)
      /\ pc' = [pc EXCEPT ![s] = "write"]
      /\ UNCHANGED <<mem, pipe, open, item, lat, scan, found, fed, active, owed, crossed>>
  BY DEF RaiseFlag, Store, loopvars, AsyncTypes
<1>2. Buffers' /\ Zeros' = Zeros /\ Ones' = Ones /\ Sent' = [Sent EXCEPT ![s] = @ \cup {f}]
  BY <1>1, SenderStores
<1> HIDE DEF f
<1>3. Sent'[s] = Sent[s] \cup {f} /\ \A u \in Sender : u # s => Sent'[u] = Sent[u]
  BY <1>2 DEF Sent
<1>4. pc'[s] = "write" /\ \A u \in Sender : u # s => pc'[u] = pc[u]
  BY <1>1 DEF AsyncTypes
<1>5. Owing' = Owing
  BY <1>1 DEF Owing
<1>6. AsyncTypes'
  BY <1>1 DEF AsyncTypes
<1>7. AsyncPlaces'
  BY <1>1 DEF AsyncPlaces
<1>8. FlagsSent'
  BY <1>1, <1>3, <1>4 DEF FlagsSent, f
<1>9. FlagsOfLoop'
  BY <1>1, <1>2 DEF FlagsOfLoop, Locked
<1>10. Marked'
  BY <1>1, <1>2, <1>3, <1>5 DEF Marked
<1>11. Noticed'
  <2>1. \A g : (Up(g)' <=> Up(g)) /\ (Lowering(g)' <=> Lowering(g))
    BY <1>1, <1>2 DEF Up, Lowering, Locked
  <2> QED
    BY <1>1, <1>3, <1>4, <1>5, <2>1 DEF Noticed, f
<1>12. Woken'
  BY <1>1, <1>2, <1>4 DEF Woken, Up, Looks, Locked
<1> QED
  BY <1>2, <1>6, <1>7, <1>8, <1>9, <1>10, <1>11, <1>12

(* ... and the loop is woken, if there is a pipe *)
LEMMA WritePipeKeeps ==
  ASSUME AsyncAssumption, AsyncIInv, NEW s \in Sender, WritePipe(s)
  PROVE  AsyncIInv'
<1> USE Words DEF AsyncIInv
<1>1. /\ pc[s] = "write" /\ buf[s] = <<>> /\ pc' = [pc EXCEPT ![s] = "out"]
      /\ pipe' = IF open THEN pipe + 1 ELSE pipe
      /\ UNCHANGED <<mem, buf, open, item, lat, scan, found, fed, active, owed, crossed>>
  BY DEF WritePipe, loopvars
<1>2. Buffers' /\ Zeros' = Zeros /\ Ones' = Ones /\ Sent' = Sent
  BY <1>1, SameBuffers
<1>3. Sent[s] = {}
  BY <1>1, BufferedWords
<1>4. pc'[s] = "out" /\ \A u \in Sender : u # s => pc'[u] = pc[u]
  BY <1>1 DEF AsyncTypes
<1>5. Owing' = Owing
  BY <1>1 DEF Owing
<1>6. AsyncTypes'
  BY <1>1 DEF AsyncTypes
<1>7. AsyncPlaces'
  BY <1>1 DEF AsyncPlaces
<1>8. FlagsSent'
  BY <1>1, <1>2, <1>3, <1>4 DEF FlagsSent
<1>9. FlagsOfLoop'
  BY <1>1, <1>2 DEF FlagsOfLoop, Locked
<1>10. Marked'
  BY <1>1, <1>2, <1>5, SameMarks
<1>11. Noticed'
  <2>1. \A g : (Up(g)' <=> Up(g)) /\ (Lowering(g)' <=> Lowering(g))
    BY <1>1, <1>2 DEF Up, Lowering, Locked
  <2> QED
    BY <1>1, <1>2, <1>3, <1>4, <1>5, <2>1 DEF Noticed
<1>12. Woken'
  <2>1. \A g : (Up(g)' <=> Up(g)) /\ (Looks(g)' <=> Looks(g))
    BY <1>1, <1>2 DEF Up, Looks, Locked
  <2>2. ASSUME NEW g \in Flag, ~Looks(g) PROVE pipe' > 0
    <3>1. open
      BY <2>2 DEF AsyncPlaces, Looks, Quiet
    <3> QED
      BY <1>1, <3>1 DEF AsyncTypes
  <2> QED
    BY <2>1, <2>2 DEF Woken
<1> QED
  BY <1>2, <1>6, <1>7, <1>8, <1>9, <1>10, <1>11, <1>12

(* A store of a sender reaches memory *)
LEMMA SenderDrainKeeps ==
  ASSUME AsyncAssumption, AsyncIInv, NEW s \in Sender, Drain(s)
  PROVE  AsyncIInv'
<1> USE Words DEF AsyncIInv
<1>1. PICK l \in Sent[s] :
        /\ mem' = [mem EXCEPT ![l] = 1]
        /\ Buffers' /\ Zeros' = Zeros /\ Ones' = Ones
        /\ \A u \in Sender \ {s} : Sent'[u] = Sent[u]
        /\ Sent'[s] \subseteq Sent[s] /\ Sent[s] \subseteq Sent'[s] \cup {l}
  BY SenderDrains
<1>2. UNCHANGED <<pipe, open, pc, item, lat, scan, found, fed, active, owed, crossed>>
  BY DEF Drain, senders, loopvars
<1>3. l \in Loc /\ mem'[l] = 1 /\ \A m \in Loc : m # l => mem'[m] = mem[m]
  BY <1>1 DEF AsyncTypes, Sent
<1>4. \A u \in Sender : Sent'[u] \subseteq Sent[u] /\ Sent[u] \subseteq Sent'[u] \cup {l}
  BY <1>1
<1>5. Owing' = Owing
  BY <1>2 DEF Owing
<1>6. AsyncTypes'
  BY <1>1, <1>2, <1>3 DEF AsyncTypes
<1>7. AsyncPlaces'
  BY <1>2 DEF AsyncPlaces
<1>8. FlagsSent'
  BY <1>2, <1>4 DEF FlagsSent
<1>9. FlagsOfLoop'
  BY <1>1, <1>2, <1>3 DEF FlagsOfLoop, Locked
<1>10. Marked'
  <2>1. \A i \in Owing : i \in Loc
    BY DEF Owing, AsyncTypes
  <2> QED
    BY <1>1, <1>3, <1>4, <1>5, <2>1 DEF Marked
<1>11. \A g \in Flag : (Lowering(g)' <=> Lowering(g)) /\ (Up(g) => Up(g)')
  BY <1>1, <1>2, <1>3 DEF Up, Lowering, Locked
<1>12. Noticed'
  <2>1. ASSUME NEW i \in Owing, NEW u \in Sender, FlagOf(i) \in Sent[u], ~Lowering(FlagOf(i))
        PROVE  FlagOf(i) \in Sent'[u] \/ Up(FlagOf(i))'
    <3>1. FlagOf(i) \in Flag
      BY DEF Owing, AsyncTypes
    <3>2. CASE FlagOf(i) = l
      BY <1>1, <1>2, <1>3, <2>1, <3>1, <3>2 DEF Up, Lowering, Locked, FlagsOfLoop
    <3> QED
      BY <1>4, <2>1, <3>2
  <2>2. \A i \in Owing : FlagOf(i) \in Flag
    BY DEF Owing, AsyncTypes
  <2> QED
    BY <1>2, <1>5, <1>11, <2>1, <2>2 DEF Noticed
<1>13. Woken'
  <2>1. ASSUME NEW g \in Flag, Up(g)', ~Up(g)
        PROVE  pc[s] = "write" /\ FlagOf(item[s]) = g
    <3>1. g = l
      BY <1>1, <1>2, <1>3, <2>1 DEF Up, Locked
    <3> QED
      BY <3>1 DEF FlagsSent
  <2> QED
    BY <1>2, <2>1 DEF Woken, Looks
<1> QED
  BY <1>1, <1>6, <1>7, <1>8, <1>9, <1>10, <1>12, <1>13

(* A store of the loop reaches memory *)
LEMMA LoopDrainKeeps ==
  ASSUME AsyncAssumption, AsyncIInv, Drain(loop)
  PROVE  AsyncIInv'
<1> USE Words DEF AsyncIInv
<1>1. PICK l \in Loc :
        \/ /\ l \in Zeros /\ mem' = [mem EXCEPT ![l] = 0] /\ Ones' = Ones
           /\ Zeros' \subseteq Zeros /\ Zeros \subseteq Zeros' \cup {l}
           /\ l \in Flag => l \notin Zeros'
        \/ /\ l \in Ones /\ mem' = [mem EXCEPT ![l] = 1] /\ Zeros' = Zeros
           /\ Ones' \subseteq Ones /\ Ones \subseteq Ones' \cup {l}
           /\ l \in Flag => l \notin Zeros
  BY LoopDrains
<1>2. Buffers' /\ Sent' = Sent
  BY LoopDrains
<1>3. UNCHANGED <<pipe, open, pc, item, lat, scan, found, fed, active, owed, crossed>>
  BY DEF Drain, senders, loopvars
<1>4. /\ Zeros' \subseteq Zeros /\ Ones' \subseteq Ones
      /\ Zeros \subseteq Zeros' \cup {l} /\ Ones \subseteq Ones' \cup {l}
      /\ l \in Zeros \cup Ones
      /\ \A m \in Loc : m # l => mem'[m] = mem[m]
  BY <1>1 DEF AsyncTypes
<1>5. /\ l \in Zeros => (mem'[l] = 0 /\ Ones' = Ones) \/ (mem'[l] = 1 /\ l \in Ones)
      /\ l \in Flag => l \notin Zeros'
      /\ mem'[l] \in {0, 1}
      /\ mem'[l] = 1 => l \in Ones /\ Zeros' = Zeros
      /\ mem'[l] = 0 => l \in Zeros /\ Ones' = Ones
  BY <1>1 DEF AsyncTypes
<1>6. Owing' = Owing
  BY <1>3 DEF Owing
<1>7. AsyncTypes'
  BY <1>1, <1>3 DEF AsyncTypes
<1>8. AsyncPlaces'
  BY <1>3 DEF AsyncPlaces
<1>9. FlagsSent'
  BY <1>2, <1>3 DEF FlagsSent
<1>10. FlagsOfLoop'
  <2>1. ASSUME NEW f \in Flag
        PROVE  /\ f \in Zeros' => mem'[f] = 1
               /\ f \in Ones' => Locked(f)
               /\ Locked(f) => f \in Ones' \/ (mem'[f] = 1 /\ f \notin Zeros')
    <3>1. CASE f = l
      BY <1>4, <1>5, <3>1 DEF FlagsOfLoop
    <3>2. CASE f # l
      BY <1>4, <3>2 DEF FlagsOfLoop
    <3> QED
      BY <3>1, <3>2
  <2> QED
    BY <1>3, <1>4, <2>1 DEF FlagsOfLoop, Locked
<1>11. Marked'
  <2>1. \A i \in Owing : i \in Loc
    BY DEF Owing, AsyncTypes
  <2> QED
    BY <1>2, <1>4, <1>6, <2>1 DEF Marked
<1>12. \A g \in Flag : (Lowering(g)' => Lowering(g)) /\ (Up(g)' <=> Up(g))
  BY <1>3, <1>4, <1>5 DEF Up, Lowering, Locked, FlagsOfLoop
<1>13. Noticed'
  <2>1. \A i \in Owing : FlagOf(i) \in Flag
    BY DEF Owing, AsyncTypes
  <2> QED
    BY <1>2, <1>3, <1>6, <1>12, <2>1 DEF Noticed
<1>14. Woken'
  BY <1>3, <1>12 DEF Woken, Looks
<1> QED
  BY <1>2, <1>7, <1>8, <1>9, <1>10, <1>11, <1>13, <1>14

(* loop_fork: the flags are locked, one after the other *)
LEMMA LockKeeps ==
  ASSUME AsyncAssumption, AsyncIInv, Lock
  PROVE  AsyncIInv'
<1> USE Words DEF AsyncIInv
<1>1. PICK f \in Flag :
        /\ Store(loop, f, 1)
        /\ \/ lat = "poll" /\ lat' = "lock" /\ f = "gotsig"
           \/ lat = "lock" /\ lat' = "close" /\ f = "gotasync"
  BY DEF Lock
<1>2. UNCHANGED <<mem, pipe, open, pc, item, scan, found, fed, active, owed, crossed>>
  BY DEF Lock, Store, senders
<1>3. Buffers' /\ Sent' = Sent /\ Zeros' = Zeros /\ Ones' = Ones \cup {f}
  BY <1>1, LoopStores
<1>4. Owing' = Owing
  BY <1>2 DEF Owing
<1>5. AsyncTypes'
  BY <1>2 DEF AsyncTypes
<1>6. AsyncPlaces'
  BY <1>1, <1>2 DEF AsyncPlaces, Quiet
<1>7. FlagsSent'
  BY <1>2, <1>3 DEF FlagsSent
<1>8. FlagsOfLoop'
  BY <1>1, <1>2, <1>3 DEF FlagsOfLoop, Locked
<1>9. Marked'
  <2>1. \A i \in Owing : i # f
    BY <1>1 DEF Owing, AsyncTypes
  <2> QED
    BY <1>2, <1>3, <1>4, <2>1 DEF Marked
<1>10. Noticed'
  <2>1. \A g \in Flag : (Lowering(g)' => Lowering(g)) /\ (Up(g) => Up(g)')
    BY <1>1, <1>2, <1>3 DEF Up, Lowering, Locked
  <2>2. \A i \in Owing : FlagOf(i) \in Flag
    BY DEF Owing, AsyncTypes
  <2> QED
    BY <1>2, <1>3, <1>4, <2>1, <2>2 DEF Noticed
<1>11. Woken'
  BY <1>1 DEF Woken, Looks, Quiet
<1> QED
  BY <1>3, <1>5, <1>6, <1>7, <1>8, <1>9, <1>10, <1>11

(* Steps of the loop that change no word: the poll and the pipe *)
LEMMA PipeKeeps ==
  ASSUME AsyncAssumption, AsyncIInv, Poll \/ Reopen \/ Read
  PROVE  AsyncIInv'
<1> USE Words DEF AsyncIInv
<1>1. /\ UNCHANGED <<mem, buf, pc, item, scan, found, fed, active, owed, crossed>>
      /\ pipe' \in Nat
  BY DEF Poll, Reopen, Read, senders, AsyncTypes
<1>2. \/ lat = "poll" /\ lat' = "read" /\ open' = open
      \/ lat = "close" /\ lat' = "init" /\ ~open' /\ buf[loop] = <<>>
      \/ lat = "init" /\ lat' = "read" /\ open' /\ buf[loop] = <<>>
      \/ lat = "read" /\ lat' = "gotsig" /\ open' = open /\ buf[loop] = <<>>
  BY DEF Poll, Reopen, Read
<1>3. Buffers' /\ Zeros' = Zeros /\ Ones' = Ones /\ Sent' = Sent
  BY <1>1, SameBuffers
<1>4. lat = "poll" \/ (Zeros = {} /\ Ones = {})
  BY <1>2, BufferedWords
<1>5. Owing' = Owing
  BY <1>1 DEF Owing
<1>6. AsyncTypes'
  BY <1>1 DEF AsyncTypes
<1>7. AsyncPlaces'
  BY <1>1, <1>2 DEF AsyncPlaces, Quiet
<1>8. FlagsSent'
  BY <1>1, <1>3 DEF FlagsSent
<1>9. FlagsOfLoop'
  BY <1>1, <1>2, <1>3, <1>4 DEF FlagsOfLoop, Locked
<1>10. Marked'
  BY <1>1, <1>3, <1>5, SameMarks
<1>11. Noticed'
  <2>1. \A g \in Flag : (Lowering(g)' => Lowering(g)) /\ (Up(g) => Up(g)')
    BY <1>1, <1>2, <1>3, <1>4 DEF Up, Lowering, Locked, FlagsOfLoop
  <2>2. \A i \in Owing : FlagOf(i) \in Flag
    BY DEF Owing, AsyncTypes
  <2> QED
    BY <1>1, <1>3, <1>5, <2>1, <2>2 DEF Noticed
<1>12. Woken'
  BY <1>2 DEF Woken, Looks, Quiet
<1> QED
  BY <1>3, <1>6, <1>7, <1>8, <1>9, <1>10, <1>11, <1>12

(* pipecb: a flag that is up is lowered, and every item of its kind is     *)
(* looked at.                                                              *)
LEMMA LowerKeeps ==
  ASSUME AsyncAssumption, AsyncIInv, Lower
  PROVE  AsyncIInv'
<1> USE Words DEF AsyncIInv
<1>1. PICK f \in Flag : f = lat
  BY DEF Lower
<1>2. UNCHANGED <<mem, pipe, open, pc, item, found, fed, active, owed, crossed>>
  BY DEF Lower, Store, senders
<1>3. f \notin Zeros \cup Ones
  BY <1>1 DEF FlagsOfLoop
<1>4. Load(loop, f) = mem[f]
  <2>1. ~Buffered(loop, f)
    BY <1>1, <1>3, BufferedWords
  <2> QED
    BY <2>1, LoadsMemory
<1>5. /\ ~Locked(f) /\ ~Locked("gotsig") /\ ~Locked("gotasync")
      /\ ~Locked(f)' /\ ~Locked("gotsig")' /\ ~Locked("gotasync")'
      /\ scan = {} /\ found = {}
  <2>1. lat' \in {"gotsig_scan", "gotasync_scan", "gotasync", "invoke"}
    BY <1>1 DEF Lower
  <2> QED
    BY <1>1, <2>1 DEF Locked, AsyncPlaces, Quiet
<1>6. Owing' = Owing
  BY <1>2 DEF Owing
<1>7. \A i \in Owing : i \in active /\ i \in Item /\ FlagOf(i) \in Flag
  BY DEF Owing, AsyncTypes
<1>8. CASE mem[f] = 1
  <2>1. /\ Store(loop, f, 0)
        /\ scan' = {i \in Sig \cup active : FlagOf(i) = f}
        /\ lat' = IF f = "gotsig" THEN "gotsig_scan" ELSE "gotasync_scan"
    BY <1>1, <1>4, <1>8 DEF Lower
  <2>2. Buffers' /\ Sent' = Sent /\ Zeros' = Zeros \cup {f} /\ Ones' = Ones
    BY <1>1, <1>3, <2>1, LoopStores
  <2>3. AsyncTypes'
    BY <1>2, <2>1 DEF AsyncTypes
  <2>4. AsyncPlaces'
    BY <1>1, <1>2, <2>1 DEF AsyncPlaces, Quiet, AsyncTypes
  <2>5. FlagsSent'
    BY <1>2, <2>2 DEF FlagsSent
  <2>6. FlagsOfLoop'
    BY <1>1, <1>2, <1>3, <1>5, <1>8, <2>1, <2>2 DEF FlagsOfLoop
  <2>7. Marked'
    BY <1>2, <1>6, <1>7, <2>2 DEF Marked
  <2>8. \A g \in Flag : g # f => (Lowering(g)' <=> Lowering(g)) /\ (Up(g) <=> Up(g)')
    BY <1>2, <1>5, <2>2 DEF Up, Lowering
  <2>9. Noticed'
    <3>1. \A i \in Owing : FlagOf(i) = f => i \in scan'
      BY <1>7, <2>1
    <3> QED
      BY <1>2, <1>5, <1>6, <1>7, <2>2, <2>8, <3>1 DEF Noticed
  <2>10. Woken'
    <3>1. ~Up(f)'
      BY <1>5, <2>2 DEF Up
    <3>2. CASE f = "gotsig"
      BY <2>1, <3>1, <3>2 DEF Woken, Looks
    <3>3. CASE f = "gotasync"
      BY <1>1, <1>2, <2>8, <3>1, <3>3 DEF Woken, Looks, Quiet
    <3> QED
      BY <3>2, <3>3
  <2> QED
    BY <2>2, <2>3, <2>4, <2>5, <2>6, <2>7, <2>9, <2>10
<1>9. CASE mem[f] # 1
  <2>1. UNCHANGED <<buf, scan>> /\ lat' = IF f = "gotsig" THEN "gotasync" ELSE "invoke"
    BY <1>1, <1>4, <1>9 DEF Lower
  <2>2. Buffers' /\ Zeros' = Zeros /\ Ones' = Ones /\ Sent' = Sent
    BY <2>1, SameBuffers
  <2>3. AsyncTypes'
    BY <1>2, <2>1 DEF AsyncTypes
  <2>4. AsyncPlaces'
    BY <1>1, <1>2, <1>5, <2>1 DEF AsyncPlaces, Quiet
  <2>5. FlagsSent'
    BY <1>2, <2>2 DEF FlagsSent
  <2>6. FlagsOfLoop'
    BY <1>1, <1>2, <1>5, <2>1, <2>2 DEF FlagsOfLoop
  <2>7. Marked'
    BY <1>2, <1>6, <2>2, SameMarks
  <2>8. \A g \in Flag : (Lowering(g)' <=> Lowering(g)) /\ (Up(g) <=> Up(g)')
    BY <1>2, <1>5, <2>2 DEF Up, Lowering
  <2>9. Noticed'
    BY <1>2, <1>6, <1>7, <2>1, <2>2, <2>8 DEF Noticed
  <2>10. Woken'
    <3>1. ~Up(f)
      BY <1>5, <1>9 DEF Up
    <3>2. CASE f = "gotsig"
      BY <1>2, <2>1, <2>8, <3>1, <3>2 DEF Woken, Looks
    <3>3. CASE f = "gotasync"
      BY <1>1, <1>2, <2>8, <3>1, <3>3 DEF Woken, Looks, Quiet
    <3> QED
      BY <3>2, <3>3
  <2> QED
    BY <2>2, <2>3, <2>4, <2>5, <2>6, <2>7, <2>9, <2>10
<1> QED
  BY <1>8, <1>9

(* ... an item that is marked is found, and a mark that is still on its    *)
(* way when the item is looked at is a crossing.                           *)
LEMMA ScanKeeps ==
  ASSUME AsyncAssumption, AsyncIInv, Scan
  PROVE  AsyncIInv'
<1> USE Words DEF AsyncIInv
<1>1. UNCHANGED <<mem, buf, pipe, open, pc, item, fed, active, owed>>
  BY DEF Scan, senders
<1>2. Buffers' /\ Zeros' = Zeros /\ Ones' = Ones /\ Sent' = Sent
  BY <1>1, SameBuffers
<1>3. lat \in {"gotsig_scan", "gotasync_scan"} /\ found = {}
  BY DEF Scan, AsyncPlaces
<1>4. /\ scan' \subseteq scan /\ found' \subseteq scan
      /\ lat = "gotsig_scan" => lat' \in {"gotsig_scan", "sig_found", "gotasync"}
      /\ lat = "gotasync_scan" => lat' \in {"gotasync_scan", "async_found", "invoke"}
      /\ lat' \in {"gotasync", "invoke"} => scan' = {}
      /\ lat' \notin {"sig_found", "async_found"} => found' = {}
      /\ crossed \subseteq crossed'
      /\ \A i \in Owing : i \in scan => i \in scan' \cup found' \cup crossed'
  <2>1. CASE scan = {}
    BY <1>3, <2>1 DEF Scan
  <2>2. CASE scan # {}
    <3>1. PICK i \in scan :
            /\ scan' = scan \ {i}
            /\ IF Load(loop, i) = 1
                 THEN found' = {i} /\ lat' = IF i \in Sig THEN "sig_found" ELSE "async_found"
                 ELSE UNCHANGED <<found, lat>>
            /\ crossed' = IF Load(loop, i) = 0 /\ \E s \in Sender : Buffered(s, i)
                            THEN crossed \cup {i} ELSE crossed
      BY <2>2 DEF Scan
    <3>2. i \in Loc /\ (lat = "gotsig_scan" => i \in Sig) /\ (lat = "gotasync_scan" => i \in Async)
      BY DEF AsyncTypes, AsyncPlaces
    <3>3. i \in Owing => i \in found' \cup crossed'
      <4> SUFFICES ASSUME i \in Owing, Load(loop, i) # 1 PROVE i \in crossed'
        BY <3>1
      <4>1. i \notin Zeros \cup Ones /\ (mem[i] = 1 \/ \E s \in Sender : i \in Sent[s])
        BY DEF Marked
      <4>2. Load(loop, i) = mem[i]
        BY <3>2, <4>1, BufferedWords, LoadsMemory
      <4>3. mem[i] = 0
        BY <3>2, <4>2 DEF AsyncTypes
      <4>4. \E s \in Sender : Buffered(s, i)
        BY <3>2, <4>1, <4>3, BufferedWords
      <4> QED
        BY <3>1, <4>2, <4>3, <4>4
    <3> QED
      BY <1>3, <3>1, <3>2, <3>3
  <2> QED
    BY <2>1, <2>2
<1>5. Owing' \subseteq Owing
  BY <1>1, <1>4 DEF Owing
<1>6. AsyncTypes'
  BY <1>1, <1>4 DEF AsyncTypes
<1>7. AsyncPlaces'
  BY <1>1, <1>3, <1>4 DEF AsyncPlaces, Quiet
<1>8. FlagsSent'
  BY <1>1, <1>2 DEF FlagsSent
<1>9. FlagsOfLoop'
  BY <1>1, <1>2, <1>3, <1>4 DEF FlagsOfLoop, Locked
<1>10. Marked'
  BY <1>1, <1>2, <1>5, SameMarks
<1>11. \A g \in Flag : (Lowering(g)' <=> Lowering(g)) /\ (Up(g) <=> Up(g)')
  BY <1>1, <1>2, <1>3, <1>4 DEF Up, Lowering, Locked
<1>12. Noticed'
  <2>1. \A i \in Owing : FlagOf(i) \in Flag
    BY DEF Owing, AsyncTypes
  <2>2. \A i \in Owing' : i \notin crossed'
    BY DEF Owing
  <2> QED
    BY <1>1, <1>2, <1>3, <1>4, <1>5, <1>11, <2>1, <2>2 DEF Noticed
<1>13. Woken'
  <2>1. \A g \in Flag : Looks(g) => Looks(g)'
    BY <1>3, <1>4 DEF Looks, Quiet
  <2> QED
    BY <1>1, <1>11, <2>1 DEF Woken
<1> QED
  BY <1>2, <1>6, <1>7, <1>8, <1>9, <1>10, <1>12, <1>13

(* ... and its mark is removed as its watcher is made pending              *)
LEMMA FeedKeeps ==
  ASSUME AsyncAssumption, AsyncIInv, Feed
  PROVE  AsyncIInv'
<1> USE Words DEF AsyncIInv
<1>1. PICK i \in found : Store(loop, i, 0)
  BY DEF Feed
<1>2. /\ lat \in {"sig_found", "async_found"}
      /\ fed' = fed \cup (found \cap active) /\ found' = {}
      /\ lat' = IF lat = "sig_found" THEN "gotsig_scan" ELSE "gotasync_scan"
      /\ UNCHANGED <<mem, pipe, open, pc, item, scan, active, owed, crossed>>
  BY <1>1 DEF Feed, Store, senders
<1>3. i \in Item /\ i \in Loc /\ i \notin Flag
  BY <1>1 DEF AsyncTypes
<1>4. Buffers' /\ Sent' = Sent /\ Zeros' = Zeros \cup {i} /\ Ones' = Ones
  BY <1>1, <1>3, LoopStores
<1>5. Owing' \subseteq Owing \ found
  BY <1>2 DEF Owing, AsyncTypes
<1>6. AsyncTypes'
  BY <1>2 DEF AsyncTypes
<1>7. AsyncPlaces'
  BY <1>2 DEF AsyncPlaces, Quiet
<1>8. FlagsSent'
  BY <1>2, <1>4 DEF FlagsSent
<1>9. FlagsOfLoop'
  BY <1>2, <1>3, <1>4 DEF FlagsOfLoop, Locked
<1>10. Marked'
  <2>1. i \notin Owing'
    BY <1>5
  <2> QED
    BY <1>2, <1>4, <1>5, <2>1 DEF Marked
<1>11. \A g \in Flag : (Lowering(g)' <=> Lowering(g)) /\ (Up(g) <=> Up(g)')
  BY <1>2, <1>3, <1>4 DEF Up, Lowering, Locked
<1>12. Noticed'
  <2>1. \A j \in Owing : FlagOf(j) \in Flag
    BY DEF Owing, AsyncTypes
  <2> QED
    BY <1>2, <1>4, <1>5, <1>11, <2>1 DEF Noticed
<1>13. Woken'
  <2>1. \A g \in Flag : Looks(g) => Looks(g)'
    BY <1>2 DEF Looks, Quiet
  <2> QED
    BY <1>2, <1>11, <2>1 DEF Woken
<1> QED
  BY <1>4, <1>6, <1>7, <1>8, <1>9, <1>10, <1>12, <1>13

(* Callbacks, and the watchers they start and stop *)
LEMMA InvokeKeeps ==
  ASSUME AsyncAssumption, AsyncIInv,
         Invoke \/ \E i \in Item : Start(i) \/ Stop(i)
  PROVE  AsyncIInv'
<1> USE Words DEF AsyncIInv
<1>1. /\ UNCHANGED <<mem, buf, pipe, open, pc, item, scan, found>>
      /\ lat = "invoke" /\ lat' \in {"poll", "invoke"} /\ (lat' = "poll" => fed' = {})
  BY DEF Invoke, Start, Stop, senders
<1>2. Buffers' /\ Zeros' = Zeros /\ Ones' = Ones /\ Sent' = Sent
  BY <1>1, SameBuffers
<1>3. AsyncTypes' /\ Owing' \subseteq Owing
  <2>1. CASE Invoke
    BY <1>1, <2>1 DEF Invoke, AsyncTypes, Owing
  <2>2. CASE \E i \in Item : Start(i)
    BY <1>1, <2>2 DEF Start, AsyncTypes, Owing
  <2>3. CASE \E i \in Item : Stop(i)
    BY <1>1, <2>3 DEF Stop, AsyncTypes, Owing
  <2> QED
    BY <2>1, <2>2, <2>3
<1>4. AsyncPlaces'
  BY <1>1 DEF AsyncPlaces, Quiet
<1>5. FlagsSent'
  BY <1>1, <1>2 DEF FlagsSent
<1>6. FlagsOfLoop'
  BY <1>1, <1>2 DEF FlagsOfLoop, Locked
<1>7. Marked'
  BY <1>1, <1>2, <1>3, SameMarks
<1>8. \A g \in Flag : (Lowering(g)' <=> Lowering(g)) /\ (Up(g) <=> Up(g)')
  BY <1>1, <1>2 DEF Up, Lowering, Locked
<1>9. Noticed'
  <2>1. \A i \in Owing : FlagOf(i) \in Flag
    BY DEF Owing, AsyncTypes
  <2> QED
    BY <1>1, <1>2, <1>3, <1>8, <2>1 DEF Noticed
<1>10. Woken'
  BY <1>1, <1>8 DEF Woken, Looks, Quiet
<1> QED
  BY <1>2, <1>3, <1>4, <1>5, <1>6, <1>7, <1>9, <1>10

(* The strengthened invariant is inductive.                                *)
LEMMA AsyncInductive ==
  ASSUME AsyncAssumption, AsyncIInv, [AsyncNext]_async_vars
  PROVE  AsyncIInv'
<1>1. ASSUME NEW s \in Sender, Send(s) PROVE AsyncIInv'
  BY <1>1, SendKeeps
<1>2. ASSUME NEW s \in Sender, SenderStep(s) PROVE AsyncIInv'
  BY <1>2, TestFlagKeeps, RaiseFlagKeeps, WritePipeKeeps DEF SenderStep
<1>3. CASE LoopStep
  <2>1. CASE Poll \/ Reopen \/ Read
    BY <2>1, PipeKeeps
  <2>2. CASE Lower
    BY <2>2, LowerKeeps
  <2>3. CASE Scan
    BY <2>3, ScanKeeps
  <2>4. CASE Feed
    BY <2>4, FeedKeeps
  <2>5. CASE Invoke \/ \E i \in Item : Start(i) \/ Stop(i)
    BY <2>5, InvokeKeeps
  <2> QED
    BY <1>3, <2>1, <2>2, <2>3, <2>4, <2>5
    DEF LoopStep, SignalStart, SignalStop, AsyncStart, AsyncStop
<1>4. CASE Lock
  BY <1>4, LockKeeps
<1>5. ASSUME NEW t \in Thread, Drain(t) PROVE AsyncIInv'
  <2>1. t \in Sender \/ t = loop
    BY DEF Thread
  <2> QED
    BY <1>5, <2>1, SenderDrainKeeps, LoopDrainKeeps
<1>6. CASE UNCHANGED async_vars
  <2> USE DEF AsyncIInv
  <2>1. UNCHANGED <<mem, buf, pipe, open, pc, item, lat, scan, found, fed, active, owed, crossed>>
    BY <1>6 DEF async_vars
  <2>2. Buffers' /\ Zeros' = Zeros /\ Ones' = Ones /\ Sent' = Sent
    BY <2>1, SameBuffers
  <2>3. Owing' = Owing
    BY <2>1 DEF Owing
  <2>4. AsyncTypes' /\ AsyncPlaces'
    BY <2>1 DEF AsyncTypes, AsyncPlaces
  <2>5. FlagsSent' /\ FlagsOfLoop' /\ Marked'
    BY <2>1, <2>2, <2>3, SameMarks DEF FlagsSent, FlagsOfLoop, Locked
  <2>6. \A g : (Lowering(g)' <=> Lowering(g)) /\ (Up(g) <=> Up(g)') /\ (Looks(g) <=> Looks(g)')
    BY <2>1, <2>2 DEF Up, Lowering, Locked, Looks
  <2>7. Noticed' /\ Woken'
    BY <2>1, <2>2, <2>3, <2>6 DEF Noticed, Woken
  <2> QED
    BY <2>2, <2>4, <2>5, <2>7
<1> QED
  BY <1>1, <1>2, <1>3, <1>4, <1>5, <1>6 DEF AsyncNext

LEMMA AsyncBegins ==
  ASSUME AsyncAssumption, AsyncInit
  PROVE  AsyncIInv
<1> USE Words
<1>1. Buffers
  BY DEF AsyncInit, Buffers
<1>2. Zeros = {} /\ Ones = {} /\ \A s \in Sender : Sent[s] = {}
  BY <1>1, BufferedWords DEF AsyncInit
<1>3. AsyncTypes
  BY DEF AsyncInit, AsyncTypes, Loc
<1>4. AsyncPlaces
  BY DEF AsyncInit, AsyncPlaces, Quiet
<1>5. FlagsSent /\ FlagsOfLoop
  BY <1>2 DEF AsyncInit, FlagsSent, FlagsOfLoop, Locked
<1>6. Marked /\ Noticed
  BY DEF AsyncInit, Marked, Noticed, Owing
<1>7. Woken
  BY DEF AsyncInit, Woken, Up, Locked, Loc
<1> QED
  BY <1>1, <1>3, <1>4, <1>5, <1>6, <1>7 DEF AsyncIInv

(* Whatever the watchers and however many threads send and signals come,   *)
(* and however long stores take to reach memory: the loop sleeps on        *)
(* something that was sent only after one side looked at a word while the  *)
(* other's store to it was on its way (ev_async_send, evpipe_write, pipecb *)
(* and loop_fork).                                                         *)
THEOREM ForgottenOnlyByCrossing ==
  ASSUME AsyncAssumption
  PROVE  AsyncSpec => []ForgottenOnlyIfCrossed
<1>1. AsyncIInv => ForgottenOnlyIfCrossed
  <2> SUFFICES ASSUME AsyncIInv, Asleep, NEW i \in owed, i \notin crossed
               PROVE  FALSE
    BY DEF ForgottenOnlyIfCrossed
  <2> USE Words DEF AsyncIInv
  <2>1. /\ lat = "poll" /\ pipe = 0 /\ \A s \in Sender : pc[s] = "out" /\ buf[s] = <<>>
    BY DEF Asleep
  <2>2. \A s \in Sender : Sent[s] = {}
    BY <2>1, BufferedWords
  <2>3. i \in Owing /\ scan = {} /\ found = {} /\ FlagOf(i) \in Flag
    BY <2>1 DEF Owing, AsyncPlaces, Quiet, AsyncTypes
  <2>4. Up(FlagOf(i))
    BY <2>1, <2>2, <2>3 DEF Noticed
  <2> QED
    BY <2>1, <2>3, <2>4 DEF Woken, Looks
<1> QED
  BY <1>1, AsyncBegins, AsyncInductive, PTL DEF AsyncSpec
-----------------------------------------------------------------------------
(* Stat watchers (EvStat).  What a watcher knows of the path, what inotify *)
(* still has to tell it and what the running callback has still to do for  *)
(* it together cover every change, unless it is blind.                     *)
Attr == [ino : Nat, ver : Nat]
Again == {"IN_IGNORED", "IN_DELETE_SELF"}
Mask == Again \cup {"IN_MODIFY", "IN_MOVE_SELF", "IN_CREATE", "IN_Q_OVERFLOW"}
InotifyEvent == [wd : Nat \cup {-1}, mask : Mask]
Op == {"stat", "add", "del", "check"} \X StatWatcher

(* Variables keep their types *)
StatTypes ==
  /\ path \in Attr /\ inodes \in Nat
  /\ watch \subseteq [wd : Nat, on : Nat] /\ wds \in Nat /\ \A x \in watch : x.wd <= wds
  /\ queue \in Seq(InotifyEvent)
  /\ st \in [StatWatcher -> [active : BOOLEAN, attr : Attr, wd : Nat \cup {-2},
                         timer : BOOLEAN, fed : BOOLEAN]]
  /\ since \in [StatWatcher -> Attr]
  /\ ops \in Seq(Op)
  /\ blind \subseteq StatWatcher

(* A watch is for one file and a file has one watch *)
OneWatchEach == \A x, y \in watch : x.on = y.on \/ x.wd = y.wd => x = y

(* The queue is as long as it may be only with an overflow in it *)
OverflowTold(q) ==
  /\ Len(q) <= MaxQueued + 1
  /\ Len(q) = MaxQueued + 1 => \E k \in 1..Len(q) : q[k].wd = -1

(* What is remembered of the path lies in its past: it never comes back,   *)
(* unless there was no file.                                               *)
Past(a) ==
  /\ a.ino <= inodes /\ (a.ino = 0 => a.ver = 0)
  /\ a.ino = path.ino => a.ver <= path.ver
PathPast == Past(path) /\ \A w \in StatWatcher : Past(st[w].attr) /\ Past(since[w])

ToldIn(q, wd) == \E k \in 1..Len(q) : q[k].wd \in {wd, -1}
ReaddIn(q, wd) == \E k \in 1..Len(q) : q[k].wd = wd /\ q[k].mask \in Again
ToDo(op, w) == \E k \in 1..Len(ops) : ops[k] = <<op, w>>
Renewing(w) == ToDo("add", w) \/ ToDo("stat", w)
On(w) == [wd |-> st[w].wd, on |-> path.ino] \in watch

(* A watcher that is not blind, has no timer and is not being watched anew *)
(* knows the path and watches it, or will add its watch again, or knows    *)
(* another path and will look.                                             *)
Follows(w) ==
  /\ st[w].wd >= 0 /\ st[w].attr.ino # 0
  /\ \/ st[w].attr = path /\ On(w)
     \/ ReaddIn(queue, st[w].wd)
     \/ st[w].attr # path /\ (ToldIn(queue, st[w].wd) \/ ToDo("check", w))
Followed ==
  \A w \in StatWatcher :
    st[w].active /\ w \notin blind /\ ~st[w].timer /\ ~Renewing(w) => Follows(w)

(* In between, a watch was added for since, and while the path is that it  *)
(* is watched.                                                             *)
JustAdded(w) ==
  /\ st[w].wd >= 0
  /\ ~st[w].timer => since[w].ino # 0 /\ (since[w] = path => On(w))
InOrder ==
  \A k \in 1..Len(ops) : \A w \in StatWatcher :
    /\ ops[k] = <<"stat", w>> => \/ k < Len(ops) /\ ops[k + 1] = <<"add", w>>
                                 \/ k > 1 /\ ops[k - 1] = <<"add", w>>
                                 \/ k = 1 /\ JustAdded(w)
    /\ ops[k] = <<"del", w>> => k < Len(ops) /\ ops[k + 1] = <<"add", w>>

(* A watcher that is not active is not in any list *)
InactiveOut ==
  \A w \in StatWatcher : ~st[w].active =>
    st[w].wd = -2 /\ ~st[w].timer /\ \A k \in 1..Len(ops) : ops[k][2] # w

StatIInv ==
  /\ StatTypes /\ OneWatchEach /\ OverflowTold(queue) /\ PathPast
  /\ Followed /\ InOrder /\ InactiveOut

-----------------------------------------------------------------------------
(* The queue: nothing that was told is lost *)
LEMMA QueuedTells ==
  ASSUME NEW q \in Seq(InotifyEvent), OverflowTold(q), NEW e \in InotifyEvent
  PROVE  /\ Queued(q, e) \in Seq(InotifyEvent) /\ OverflowTold(Queued(q, e))
         /\ \A d \in Int : ToldIn(q, d) => ToldIn(Queued(q, e), d)
         /\ \A d \in Int : ReaddIn(q, d) => ReaddIn(Queued(q, e), d)
         /\ ToldIn(Queued(q, e), e.wd)
         /\ Len(q) < MaxQueued /\ e.mask \in Again => ReaddIn(Queued(q, e), e.wd)
  <1> DEFINE o == [wd |-> -1, mask |-> "IN_Q_OVERFLOW"]
  <1>1. o \in InotifyEvent /\ o.wd = -1
    BY DEF InotifyEvent, Mask
  <1> HIDE DEF o
  <1>2. Len(q) \in Nat /\ MaxQueued \in Nat
    BY StatAssumption
  <1>3. ASSUME NEW x \in InotifyEvent, Queued(q, e) = Append(q, x)
        PROVE  /\ Queued(q, e) \in Seq(InotifyEvent)
               /\ Len(Queued(q, e)) = Len(q) + 1
               /\ \A k \in 1..Len(q) : Queued(q, e)[k] = q[k]
               /\ Queued(q, e)[Len(q) + 1] = x
               /\ \A d \in Int : ToldIn(q, d) => ToldIn(Queued(q, e), d)
               /\ \A d \in Int : ReaddIn(q, d) => ReaddIn(Queued(q, e), d)
    <2>1. /\ Append(q, x) \in Seq(InotifyEvent)
          /\ Len(Append(q, x)) = Len(q) + 1
          /\ \A k \in 1..Len(q) : Append(q, x)[k] = q[k]
          /\ Append(q, x)[Len(q) + 1] = x
      BY <1>2, AppendProperties
    <2> QED
      BY <1>2, <1>3, <2>1 DEF ToldIn, ReaddIn
  <1>4. CASE q # <<>> /\ q[Len(q)] = e
    <2>1. Queued(q, e) = q
      BY <1>4 DEF Queued
    <2>2. Len(q) \in 1..Len(q) /\ q[Len(q)] = e
      BY <1>2, <1>4, EmptySeq
    <2> QED
      BY <2>1, <2>2 DEF ToldIn, ReaddIn
  <1>5. CASE ~(q # <<>> /\ q[Len(q)] = e) /\ Len(q) < MaxQueued
    <2>1. Queued(q, e) = Append(q, e)
      BY <1>5 DEF Queued
    <2> QED
      BY <1>2, <1>3, <1>5, <2>1 DEF ToldIn, ReaddIn, OverflowTold
  <1>6. CASE ~(q # <<>> /\ q[Len(q)] = e) /\ Len(q) = MaxQueued
    <2>1. Queued(q, e) = Append(q, o)
      BY <1>2, <1>6 DEF Queued, o
    <2>2. Len(q) + 1 \in 1..Len(Queued(q, e)) /\ Queued(q, e)[Len(q) + 1].wd = -1
      BY <1>1, <1>2, <1>3, <2>1
    <2> QED
      BY <1>1, <1>2, <1>3, <1>6, <2>1, <2>2 DEF ToldIn, OverflowTold
  <1>7. CASE ~(q # <<>> /\ q[Len(q)] = e) /\ Len(q) > MaxQueued
    <2>1. Queued(q, e) = q
      BY <1>2, <1>7 DEF Queued
    <2>2. \E k \in 1..Len(q) : q[k].wd = -1
      BY <1>2, <1>7 DEF OverflowTold
    <2> QED
      BY <1>2, <1>7, <2>1, <2>2 DEF ToldIn
  <1> QED
    BY <1>2, <1>4, <1>5, <1>6, <1>7

LEMMA ReportsTell ==
  ASSUME StatTypes, OneWatchEach, NEW q \in Seq(InotifyEvent), OverflowTold(q),
         NEW on \in Nat, NEW mask \in Mask
  PROVE  /\ Reports(q, on, mask) \in Seq(InotifyEvent) /\ OverflowTold(Reports(q, on, mask))
         /\ \A d \in Int : ToldIn(q, d) => ToldIn(Reports(q, on, mask), d)
         /\ \A d \in Int : ReaddIn(q, d) => ReaddIn(Reports(q, on, mask), d)
         /\ \A x \in watch : x.on = on => ToldIn(Reports(q, on, mask), x.wd)
  <1> DEFINE of == {x \in watch : x.on = on}
             y == CHOOSE x \in of : TRUE
             e == [wd |-> y.wd, mask |-> mask]
  <1>1. CASE of = {}
    BY <1>1 DEF Reports
  <1>2. CASE of # {}
    <2>1. y \in watch /\ y.on = on
      BY <1>2
    <2>2. e \in InotifyEvent /\ e.wd = y.wd
      BY <2>1 DEF InotifyEvent, StatTypes
    <2>3. Reports(q, on, mask) = Queued(q, e)
      BY <1>2 DEF Reports
    <2>4. \A x \in watch : x.on = on => x.wd = e.wd
      BY <2>1, <2>2 DEF OneWatchEach
    <2> HIDE DEF e, y
    <2> QED
      BY <2>2, <2>3, <2>4, QueuedTells
  <1> QED
    BY <1>1, <1>2

LEMMA HeadTold ==
  ASSUME NEW q \in Seq(InotifyEvent), OverflowTold(q), q # <<>>
  PROVE  /\ Tail(q) \in Seq(InotifyEvent) /\ OverflowTold(Tail(q))
         /\ \A d \in Int : ToldIn(q, d) => ToldIn(Tail(q), d) \/ Head(q).wd \in {d, -1}
         /\ \A d \in Int : ReaddIn(q, d) =>
              ReaddIn(Tail(q), d) \/ (Head(q).wd = d /\ Head(q).mask \in Again)
  <1>1. /\ Tail(q) \in Seq(InotifyEvent) /\ Len(Tail(q)) = Len(q) - 1 /\ Len(q) \in Nat
        /\ Len(q) > 0
        /\ \A k \in 1..Len(q) - 1 : Tail(q)[k] = q[k + 1]
        /\ Head(q) = q[1]
    BY HeadTailProperties, EmptySeq
  <1>2. \A k \in 1..Len(q) : k = 1 \/ (k - 1 \in 1..Len(Tail(q)) /\ Tail(q)[k - 1] = q[k])
    BY <1>1
  <1>3. MaxQueued \in Nat
    BY StatAssumption
  <1>4. OverflowTold(Tail(q))
    <2> DEFINE n == Len(Tail(q))
    <2>1. Len(q) <= MaxQueued + 1
      BY DEF OverflowTold
    <2>2. n = Len(q) - 1 /\ Len(q) \in Nat
      BY <1>1
    <2> HIDE DEF n
    <2>3. n <= MaxQueued + 1 /\ n # MaxQueued + 1
      BY <1>3, <2>1, <2>2
    <2> QED
      BY <2>3 DEF OverflowTold, n
  <1> QED
    BY <1>1, <1>2, <1>4 DEF ToldIn, ReaddIn

-----------------------------------------------------------------------------
(* The calls still to come: what is left after the first *)
LEMMA TailOps ==
  ASSUME StatTypes, ops # <<>>, NEW rest, rest = Tail(ops)
  PROVE  /\ rest \in Seq(Op) /\ Len(rest) = Len(ops) - 1 /\ Len(ops) \in Nat
         /\ \A k \in 1..Len(rest) : rest[k] = ops[k + 1] /\ k + 1 \in 1..Len(ops)
         /\ \A k \in 1..Len(ops) : k = 1 \/ (k - 1 \in 1..Len(rest) /\ rest[k - 1] = ops[k])
         /\ 1 \in 1..Len(ops) /\ Head(ops) = ops[1]
  <1>1. ops \in Seq(Op)
    BY DEF StatTypes
  <1>2. /\ rest \in Seq(Op) /\ Len(rest) = Len(ops) - 1 /\ Len(ops) \in Nat /\ Len(ops) > 0
        /\ \A k \in 1..Len(ops) - 1 : rest[k] = ops[k + 1]
        /\ Head(ops) = ops[1]
    BY <1>1, HeadTailProperties, EmptySeq
  <1> QED
    BY <1>2

(* A call is done and the others stay: what is still to do.                *)
LEMMA OneDone ==
  ASSUME StatTypes, NEW op \in {"stat", "add", "del", "check"}, NEW w \in StatWatcher,
         Call(op, w), ops' = Tail(ops)
  PROVE  /\ ops' \in Seq(Op)
         /\ \A o \in {"stat", "add", "del", "check"}, v \in StatWatcher :
              ToDo(o, v) <=> ToDo(o, v)' \/ (o = op /\ v = w)
         /\ InOrder /\ (\A v \in StatWatcher : op = "add" /\ v = w => JustAdded(v)') => InOrder'
  <1>1. ops # <<>> /\ Head(ops) = <<op, w>>
    BY DEF Call
  <1>2. /\ ops' \in Seq(Op) /\ Len(ops') = Len(ops) - 1 /\ Len(ops) \in Nat
        /\ \A k \in 1..Len(ops') : ops'[k] = ops[k + 1] /\ k + 1 \in 1..Len(ops)
        /\ \A k \in 1..Len(ops) : k = 1 \/ (k - 1 \in 1..Len(ops') /\ ops'[k - 1] = ops[k])
        /\ 1 \in 1..Len(ops) /\ ops[1] = <<op, w>>
    BY <1>1, TailOps
  <1>3. ASSUME NEW o \in {"stat", "add", "del", "check"}, NEW v \in StatWatcher
        PROVE  ToDo(o, v) <=> ToDo(o, v)' \/ (o = op /\ v = w)
    <2>1. ASSUME ToDo(o, v) PROVE ToDo(o, v)' \/ (o = op /\ v = w)
      <3>1. PICK k \in 1..Len(ops) : ops[k] = <<o, v>>
        BY <2>1 DEF ToDo
      <3>2. CASE k = 1
        BY <1>2, <3>1, <3>2
      <3>3. CASE k # 1
        <4>1. k - 1 \in 1..Len(ops') /\ ops'[k - 1] = <<o, v>>
          BY <1>2, <3>1, <3>3
        <4> QED
          BY <4>1 DEF ToDo
      <3> QED
        BY <3>2, <3>3
    <2>2. ASSUME ToDo(o, v)' PROVE ToDo(o, v)
      BY <1>2, <2>2 DEF ToDo
    <2>3. ASSUME o = op /\ v = w PROVE ToDo(o, v)
      BY <1>2, <2>3 DEF ToDo
    <2> QED
      BY <2>1, <2>2, <2>3
  <1>4. ASSUME InOrder, op = "add" => JustAdded(w)' PROVE InOrder'
    <2> SUFFICES ASSUME NEW k \in 1..Len(ops'), NEW v \in StatWatcher
                 PROVE  /\ ops'[k] = <<"stat", v>> => \/ k < Len(ops') /\ ops'[k + 1] = <<"add", v>>
                                                      \/ k > 1 /\ ops'[k - 1] = <<"add", v>>
                                                      \/ k = 1 /\ JustAdded(v)'
                        /\ ops'[k] = <<"del", v>> => k < Len(ops') /\ ops'[k + 1] = <<"add", v>>
      BY DEF InOrder
    <2>1. ops'[k] = ops[k + 1] /\ k + 1 \in 1..Len(ops)
      BY <1>2
    <2>2. /\ ops[k + 1] = <<"stat", v>> => \/ k + 1 < Len(ops) /\ ops[k + 2] = <<"add", v>>
                                           \/ ops[k] = <<"add", v>>
          /\ ops[k + 1] = <<"del", v>> => k + 1 < Len(ops) /\ ops[k + 2] = <<"add", v>>
      <3>1. k \in Nat /\ k + 1 > 1 /\ k + 1 # 1 /\ (k + 1) - 1 = k /\ (k + 1) + 1 = k + 2
        OBVIOUS
      <3> QED
        BY <1>4, <2>1, <3>1 DEF InOrder
    <2>3. k + 1 < Len(ops) => k < Len(ops') /\ ops'[k + 1] = ops[k + 2]
      BY <1>2
    <2>4. k > 1 => ops'[k - 1] = ops[k]
      BY <1>2
    <2>5. k = 1 /\ ops[k] = <<"add", v>> => JustAdded(v)'
      BY <1>2, <1>4
    <2>6. k = 1 \/ k > 1
      OBVIOUS
    <2> QED
      BY <2>1, <2>2, <2>3, <2>4, <2>5, <2>6
  <1> QED
    BY <1>2, <1>3, <1>4

-----------------------------------------------------------------------------
(* Other programs change the path *)
LEMMA PathMoves ==
  ASSUME StatIInv, Changing, path' \in Attr, inodes' \in Nat, Past(path)',
         \A a \in Attr : Past(a) => Past(a)' /\ (a.ino # 0 => a # path'),
         watch' \subseteq watch,
         queue' \in Seq(InotifyEvent), OverflowTold(queue'),
         \A d \in Int : ToldIn(queue, d) => ToldIn(queue', d),
         \A d \in Int : ReaddIn(queue, d) => ReaddIn(queue', d),
         \A x \in watch : x.on = path.ino => ToldIn(queue', x.wd)
  PROVE  StatIInv'
  <1>1. UNCHANGED <<wds, st, ops, since, blind>>
    BY DEF Changing
  <1>2. /\ StatTypes /\ OneWatchEach /\ PathPast /\ Followed /\ InOrder /\ InactiveOut
    BY DEF StatIInv
  <1>3. \A w \in StatWatcher : st[w].attr \in Attr /\ since[w] \in Attr /\ st[w].wd \in Int
    BY <1>2 DEF StatTypes
  <1>4. StatTypes' /\ OneWatchEach' /\ OverflowTold(queue)' /\ PathPast' /\ InactiveOut'
    <2>1. StatTypes'
      BY <1>1, <1>2 DEF StatTypes
    <2>2. OneWatchEach'
      BY <1>2 DEF OneWatchEach
    <2>3. PathPast'
      BY <1>1, <1>2, <1>3 DEF PathPast
    <2>4. InactiveOut'
      BY <1>1, <1>2 DEF InactiveOut
    <2> QED
      BY <2>1, <2>2, <2>3, <2>4
  <1>5. Followed'
    <2> SUFFICES ASSUME NEW w \in StatWatcher, st[w].active, w \notin blind, ~st[w].timer, ~Renewing(w)
                 PROVE  Follows(w)'
      BY <1>1 DEF Followed, Renewing, ToDo
    <2>1. Follows(w)
      BY <1>2 DEF Followed
    <2>2. st[w].wd >= 0 /\ st[w].attr.ino # 0 /\ st[w].attr # path'
      BY <1>2, <1>3, <2>1 DEF Follows, PathPast
    <2>3. CASE st[w].attr = path /\ On(w)
      <3>1. ToldIn(queue', st[w].wd)
        <4> DEFINE x == [wd |-> st[w].wd, on |-> path.ino]
        <4>1. x \in watch /\ x.on = path.ino /\ x.wd = st[w].wd
          BY <2>3 DEF On
        <4> HIDE DEF x
        <4> QED
          BY <4>1
      <3> QED
        BY <1>1, <2>2, <3>1 DEF Follows
    <2>4. CASE ReaddIn(queue, st[w].wd)
      BY <1>1, <1>3, <2>2, <2>4 DEF Follows
    <2>5. CASE ToldIn(queue, st[w].wd) \/ ToDo("check", w)
      BY <1>1, <1>3, <2>2, <2>5 DEF Follows, ToDo
    <2> QED
      BY <2>1, <2>3, <2>4, <2>5 DEF Follows
  <1>6. \A w \in StatWatcher : JustAdded(w) => JustAdded(w)'
    BY <1>1, <1>2, <1>3 DEF JustAdded, PathPast
  <1>7. InOrder'
    BY <1>1, <1>2, <1>6 DEF InOrder
  <1> QED
    BY <1>4, <1>5, <1>7 DEF StatIInv

LEMMA ChangeKeeps ==
  ASSUME StatIInv, Write \/ Delete \/ MoveAway \/ Create
  PROVE  StatIInv'
  <1>1. /\ StatTypes /\ OneWatchEach /\ OverflowTold(queue) /\ Past(path)
        /\ path \in Attr /\ path.ino \in Nat /\ path.ver \in Nat /\ inodes \in Nat
        /\ queue \in Seq(InotifyEvent)
    BY DEF StatIInv, StatTypes, PathPast, Attr
  <1>2. Changing
    BY DEF Write, Delete, MoveAway, Create
  <1>3. \A a \in Attr : a.ino \in Nat /\ a.ver \in Nat
    BY DEF Attr
  <1>4. Missing \in Attr /\ Missing.ino = 0 /\ Missing.ver = 0
    BY DEF Attr, Missing
  <1>5. CASE Write
    <2>1. /\ path.ino # 0 /\ path' = [path EXCEPT !.ver = @ + 1]
          /\ queue' = Reports(queue, path.ino, "IN_MODIFY") /\ UNCHANGED <<inodes, watch>>
      BY <1>5 DEF Write
    <2>2. path' \in Attr /\ path'.ino = path.ino /\ path'.ver = path.ver + 1
      BY <1>1, <2>1 DEF Attr
    <2>3. Past(path)' /\ \A a \in Attr : Past(a) => Past(a)' /\ (a.ino # 0 => a # path')
      <3>1. inodes' = inodes
        BY <2>1
      <3>2. Past(path)'
        BY <1>1, <2>1, <2>2, <3>1 DEF Past
      <3>3. ASSUME NEW a \in Attr, Past(a) PROVE Past(a)' /\ (a.ino # 0 => a # path')
        <4>1. a.ino \in Nat /\ a.ver \in Nat /\ (a.ino = path.ino => a.ver <= path.ver)
          BY <1>3, <3>3 DEF Past
        <4>2. a.ino = path'.ino => a.ver < path'.ver
          BY <1>1, <2>2, <4>1
        <4> QED
          BY <1>1, <2>2, <3>1, <3>3, <4>1, <4>2 DEF Past
      <3> QED
        BY <3>2, <3>3
    <2>4. "IN_MODIFY" \in Mask
      BY DEF Mask
    <2>5. /\ queue' \in Seq(InotifyEvent) /\ OverflowTold(queue')
          /\ \A d \in Int : ToldIn(queue, d) => ToldIn(queue', d)
          /\ \A d \in Int : ReaddIn(queue, d) => ReaddIn(queue', d)
          /\ \A x \in watch : x.on = path.ino => ToldIn(queue', x.wd)
      BY <1>1, <2>1, <2>4, ReportsTell
    <2> QED
      BY <1>1, <1>2, <2>1, <2>2, <2>3, <2>5, PathMoves
  <1>6. CASE Delete \/ MoveAway
    <2>1. /\ path.ino # 0 /\ path' = Missing
          /\ \/ queue' = Reports(queue, path.ino, "IN_DELETE_SELF")
             \/ queue' = Reports(queue, path.ino, "IN_MOVE_SELF")
          /\ UNCHANGED inodes /\ watch' \subseteq watch
      BY <1>6 DEF Delete, MoveAway, Ends
    <2>2. path' \in Attr /\ path'.ino = 0 /\ path'.ver = 0
      BY <1>4, <2>1
    <2>3. Past(path)' /\ \A a \in Attr : Past(a) => Past(a)' /\ (a.ino # 0 => a # path')
      BY <1>1, <1>3, <2>1, <2>2 DEF Past
    <2> QED
      BY <1>1, <1>2, <2>1, <2>2, <2>3, PathMoves, ReportsTell DEF Mask, Again
  <1>7. CASE Create
    <2> DEFINE q == IF path.ino = 0 THEN queue ELSE Reports(queue, path.ino, "IN_DELETE_SELF")
    <2>1. /\ path' = [ino |-> inodes + 1, ver |-> 0] /\ inodes' = inodes + 1
          /\ queue' = Reports(q, Dir, "IN_CREATE") /\ watch' \subseteq watch
      BY <1>7 DEF Create, Ends
    <2>2. path' \in Attr /\ path'.ino = inodes + 1 /\ path'.ver = 0
      BY <1>1, <2>1 DEF Attr
    <2>3. Past(path)' /\ \A a \in Attr : Past(a) => Past(a)' /\ (a.ino # 0 => a # path')
      BY <1>1, <1>3, <2>1, <2>2 DEF Past
    <2>4. /\ q \in Seq(InotifyEvent) /\ OverflowTold(q)
          /\ \A d \in Int : ToldIn(queue, d) => ToldIn(q, d)
          /\ \A d \in Int : ReaddIn(queue, d) => ReaddIn(q, d)
          /\ path.ino # 0 => \A x \in watch : x.on = path.ino => ToldIn(q, x.wd)
      BY <1>1, ReportsTell DEF Mask, Again
    <2> HIDE DEF q
    <2>5. /\ queue' \in Seq(InotifyEvent) /\ OverflowTold(queue')
          /\ \A d \in Int : ToldIn(q, d) => ToldIn(queue', d)
          /\ \A d \in Int : ReaddIn(q, d) => ReaddIn(queue', d)
          /\ \A x \in watch : x.on = Dir => ToldIn(queue', x.wd)
      BY <1>1, <2>1, <2>4, ReportsTell DEF Mask, Dir
    <2>6. \A x \in watch : x.wd \in Int
      BY <1>1 DEF StatTypes
    <2>7. \A x \in watch : x.on = path.ino => ToldIn(queue', x.wd)
      BY <2>4, <2>5, <2>6 DEF Dir
    <2> QED
      BY <1>1, <1>2, <2>1, <2>2, <2>3, <2>4, <2>5, <2>7, PathMoves
  <1> QED
    BY <1>5, <1>6, <1>7

-----------------------------------------------------------------------------
(* The calls of libev.  A watcher that keeps what it has goes on following *)
(* while the path, its watch and what is queued for it stay.               *)
LEMMA FollowsOn ==
  ASSUME StatTypes, NEW w \in StatWatcher, Follows(w), path' = path,
         st'[w].wd = st[w].wd, st'[w].attr = st[w].attr,
         On(w) => On(w)' \/ ReaddIn(queue', st[w].wd),
         ReaddIn(queue, st[w].wd) => ReaddIn(queue', st[w].wd),
         ToldIn(queue, st[w].wd) => ToldIn(queue', st[w].wd) \/ ToDo("check", w)',
         ToDo("check", w) => ToDo("check", w)'
  PROVE  Follows(w)'
  BY DEF Follows

LEMMA StatKeeps ==
  ASSUME StatIInv, NEW w \in StatWatcher, Stat(w)
  PROVE  StatIInv'
  <1>1. /\ StatTypes /\ OneWatchEach /\ OverflowTold(queue) /\ PathPast
        /\ Followed /\ InOrder /\ InactiveOut
    BY DEF StatIInv
  <1>2. /\ Call("stat", w) /\ ops' = Tail(ops) /\ UNCHANGED <<files, watch, queue, wds, since>>
        /\ st' = [st EXCEPT ![w].attr = path]
        /\ blind' = IF st[w].wd < 0 \/ path = since[w] THEN blind \ {w} ELSE blind \cup {w}
    BY DEF Stat
  <1>3. /\ ops' \in Seq(Op) /\ InOrder'
        /\ \A o \in {"stat", "add", "del", "check"}, v \in StatWatcher :
              ToDo(o, v) <=> ToDo(o, v)' \/ (o = "stat" /\ v = w)
    BY <1>1, <1>2, OneDone
  <1>4. /\ st' \in [StatWatcher -> [active : BOOLEAN, attr : Attr, wd : Nat \cup {-2},
                                timer : BOOLEAN, fed : BOOLEAN]]
        /\ st'[w].attr = path /\ st'[w].wd = st[w].wd /\ st'[w].timer = st[w].timer
        /\ st'[w].active = st[w].active
        /\ \A v \in StatWatcher \ {w} : st'[v] = st[v]
    BY <1>1, <1>2 DEF StatTypes
  <1>5. StatTypes' /\ OneWatchEach' /\ OverflowTold(queue)' /\ PathPast'
    BY <1>1, <1>2, <1>3, <1>4 DEF StatTypes, OneWatchEach, OverflowTold, PathPast, Past, files
  <1>6. InactiveOut'
    BY <1>1, <1>2, <1>4, TailOps DEF InactiveOut, Call
  <1>7. ASSUME NEW v \in StatWatcher, st'[v].active, v \notin blind', ~st'[v].timer, ~Renewing(v)'
        PROVE  Follows(v)'
    <2>1. CASE v # w
      <3>1. Follows(v)
        BY <1>1, <1>2, <1>3, <1>4, <1>7, <2>1 DEF Followed, Renewing
      <3> QED
        BY <1>1, <1>2, <1>3, <1>4, <2>1, <3>1, FollowsOn DEF files, On
    <2>2. CASE v = w
      <3>1. JustAdded(w)
        <4>1. 1 \in 1..Len(ops) /\ ops[1] = <<"stat", w>> /\ Len(ops) \in Nat
          BY <1>1, <1>2, TailOps DEF Call
        <4>2. ~(1 < Len(ops) /\ ops[1 + 1] = <<"add", w>>)
          <5>1. ASSUME 1 < Len(ops), ops[1 + 1] = <<"add", w>> PROVE ToDo("add", w)
            BY <4>1, <5>1 DEF ToDo
          <5> QED
            BY <1>3, <1>7, <2>2, <5>1 DEF Renewing
        <4> QED
          BY <1>1, <4>1, <4>2 DEF InOrder
      <3>2. st[w].wd >= 0 /\ path = since[w] /\ since[w].ino # 0 /\ On(w)
        BY <1>1, <1>2, <1>4, <1>7, <2>2, <3>1 DEF JustAdded, StatTypes
      <3> QED
        BY <1>2, <1>4, <2>2, <3>2 DEF Follows, On, files
    <2> QED
      BY <2>1, <2>2
  <1>8. Followed'
    BY <1>7 DEF Followed
  <1> QED
    BY <1>3, <1>5, <1>6, <1>8 DEF StatIInv

(* inotify_add_watch: the path has a watch, and w has its number *)
LEMMA AddWatches ==
  ASSUME StatTypes, OneWatchEach, NEW w \in StatWatcher, Becomes(w, Add(Kernel(w)))
  PROVE  /\ watch' \subseteq [wd : Nat, on : Nat] /\ wds' \in Nat /\ \A x \in watch' : x.wd <= wds'
         /\ OneWatchEach' /\ watch \subseteq watch' /\ queue' = queue
         /\ st' \in [StatWatcher -> [active : BOOLEAN, attr : Attr, wd : Nat \cup {-2},
                                timer : BOOLEAN, fed : BOOLEAN]]
         /\ [wd |-> st'[w].wd, on |-> path.ino] \in watch' /\ st'[w].wd \in Nat
         /\ st'[w].timer = (st[w].timer \/ path.ino = 0)
         /\ st'[w].active = st[w].active /\ st'[w].attr = st[w].attr
         /\ \A v \in StatWatcher \ {w} : st'[v] = st[v]
  <1> DEFINE of == {x \in watch : x.on = path.ino}
             y == CHOOSE x \in of : TRUE
             wd == IF of # {} THEN y.wd ELSE wds + 1
             timer == st[w].timer \/ path.ino = 0
  <1>1. /\ path.ino \in Nat /\ wds \in Nat
        /\ \A x \in watch : x.wd \in Nat /\ x.on \in Nat /\ x.wd <= wds
                            /\ x = [wd |-> x.wd, on |-> x.on]
    BY DEF StatTypes, Attr
  <1>2. CASE of # {}
    <2>1. y \in watch /\ y.on = path.ino /\ y = [wd |-> y.wd, on |-> path.ino]
      BY <1>1, <1>2
    <2>2. /\ watch' = watch /\ queue' = queue /\ wds' = wds
          /\ st' = [st EXCEPT ![w].wd = wd, ![w].timer = timer]
      BY <1>2, ZenonT(30) DEF Becomes, Add, Kernel, Dir
    <2>3. wd = y.wd /\ wd \in Nat /\ timer \in BOOLEAN
      BY <1>1, <1>2, <2>1 DEF StatTypes
    <2> HIDE DEF wd, timer, y, of
    <2>4. /\ st' \in [StatWatcher -> [active : BOOLEAN, attr : Attr, wd : Nat \cup {-2},
                                timer : BOOLEAN, fed : BOOLEAN]]
          /\ st'[w].wd = wd /\ st'[w].timer = timer
          /\ st'[w].active = st[w].active /\ st'[w].attr = st[w].attr
          /\ \A v \in StatWatcher \ {w} : st'[v] = st[v]
      BY <2>2, <2>3, ZenonT(30) DEF StatTypes
    <2> QED
      BY <1>1, <2>1, <2>2, <2>3, <2>4 DEF OneWatchEach, StatTypes, timer
  <1>3. CASE of = {}
    <2> DEFINE z == [wd |-> wd, on |-> path.ino]
    <2>1. /\ watch' = watch \cup {z} /\ queue' = queue /\ wds' = wds + 1
          /\ st' = [st EXCEPT ![w].wd = wd, ![w].timer = timer]
      BY <1>3 DEF Becomes, Add, Kernel, Dir
    <2>2. wd = wds + 1 /\ wd \in Nat /\ timer \in BOOLEAN
      BY <1>1, <1>3 DEF StatTypes
    <2>3. z \in [wd : Nat, on : Nat] /\ z.wd = wd /\ z.on = path.ino
      BY <1>1, <2>2
    <2>4. \A x \in watch : x.on # z.on /\ x.wd # z.wd /\ x.wd <= wds'
      BY <1>1, <1>3, <2>1, <2>2, <2>3
    <2> HIDE DEF wd, timer, y, of
    <2>5. /\ st' \in [StatWatcher -> [active : BOOLEAN, attr : Attr, wd : Nat \cup {-2},
                                timer : BOOLEAN, fed : BOOLEAN]]
          /\ st'[w].wd = wd /\ st'[w].timer = timer
          /\ st'[w].active = st[w].active /\ st'[w].attr = st[w].attr
          /\ \A v \in StatWatcher \ {w} : st'[v] = st[v]
      BY <2>1, <2>2, ZenonT(30) DEF StatTypes
    <2>6. z.wd <= wds' /\ wds' \in Nat
      BY <1>1, <2>1, <2>2, <2>3
    <2>7. [wd |-> st'[w].wd, on |-> path.ino] = z
      BY <2>5
    <2> HIDE DEF z
    <2>8. OneWatchEach'
      BY <2>1, <2>4 DEF OneWatchEach
    <2>9. watch' \subseteq [wd : Nat, on : Nat] /\ \A x \in watch' : x.wd <= wds'
      BY <2>1, <2>3, <2>4, <2>6 DEF StatTypes
    <2> QED
      BY <2>1, <2>2, <2>5, <2>6, <2>7, <2>8, <2>9 DEF timer
  <1> QED
    BY <1>2, <1>3

LEMMA InfyAddKeeps ==
  ASSUME StatIInv, NEW w \in StatWatcher, InfyAdd(w)
  PROVE  StatIInv'
  <1>1. /\ StatTypes /\ OneWatchEach /\ OverflowTold(queue) /\ PathPast
        /\ Followed /\ InOrder /\ InactiveOut
    BY DEF StatIInv
  <1>2. /\ Call("add", w) /\ ops' = Tail(ops) /\ UNCHANGED files
        /\ Becomes(w, Add(Kernel(w)))
        /\ since' = [since EXCEPT ![w] = path]
        /\ blind' = IF st[w].attr # path THEN blind \cup {w} ELSE blind \ {w}
    BY DEF InfyAdd
  <1>3. /\ watch' \subseteq [wd : Nat, on : Nat] /\ wds' \in Nat /\ \A x \in watch' : x.wd <= wds'
        /\ OneWatchEach' /\ watch \subseteq watch' /\ queue' = queue
        /\ st' \in [StatWatcher -> [active : BOOLEAN, attr : Attr, wd : Nat \cup {-2},
                                timer : BOOLEAN, fed : BOOLEAN]]
        /\ [wd |-> st'[w].wd, on |-> path.ino] \in watch' /\ st'[w].wd \in Nat
        /\ st'[w].timer = (st[w].timer \/ path.ino = 0)
        /\ st'[w].active = st[w].active /\ st'[w].attr = st[w].attr
        /\ \A v \in StatWatcher \ {w} : st'[v] = st[v]
    BY <1>1, <1>2, AddWatches
  <1>4. path' = path /\ inodes' = inodes /\ path \in Attr
    BY <1>1, <1>2 DEF files, StatTypes
  <1>5. since' \in [StatWatcher -> Attr] /\ since'[w] = path /\ \A v \in StatWatcher \ {w} : since'[v] = since[v]
    BY <1>1, <1>2, <1>4 DEF StatTypes
  <1>6. JustAdded(w)'
    BY <1>3, <1>4, <1>5 DEF JustAdded, On
  <1>7. /\ ops' \in Seq(Op) /\ InOrder'
        /\ \A o \in {"stat", "add", "del", "check"}, v \in StatWatcher :
              ToDo(o, v) <=> ToDo(o, v)' \/ (o = "add" /\ v = w)
    BY <1>1, <1>2, <1>6, OneDone
  <1>8. StatTypes' /\ OverflowTold(queue)' /\ PathPast'
    <2>1. StatTypes'
      BY <1>1, <1>2, <1>3, <1>4, <1>5, <1>7 DEF StatTypes
    <2>2. PathPast'
      BY <1>1, <1>3, <1>4, <1>5 DEF PathPast, Past
    <2>3. OverflowTold(queue)'
      BY <1>1, <1>3 DEF OverflowTold
    <2> QED
      BY <2>1, <2>2, <2>3
  <1>9. InactiveOut'
    <2>1. /\ ops # <<>> /\ Head(ops) = <<"add", w>>
          /\ 1 \in 1..Len(ops) /\ ops[1] = <<"add", w>>
          /\ \A k \in 1..Len(ops') : ops'[k] = ops[k + 1] /\ k + 1 \in 1..Len(ops)
      BY <1>1, <1>2, TailOps DEF Call
    <2>2. st[w].active
      BY <1>1, <2>1 DEF InactiveOut
    <2> QED
      <3> SUFFICES ASSUME NEW v \in StatWatcher, ~st'[v].active
                   PROVE  /\ st'[v].wd = -2 /\ ~st'[v].timer
                          /\ \A k \in 1..Len(ops') : ops'[k][2] # v
        BY DEF InactiveOut
      <3>1. v # w /\ st'[v] = st[v]
        BY <1>3, <2>2
      <3>2. st[v].wd = -2 /\ ~st[v].timer /\ \A k \in 1..Len(ops) : ops[k][2] # v
        BY <1>1, <3>1 DEF InactiveOut
      <3> QED
        BY <2>1, <3>1, <3>2
  <1>10. ASSUME NEW v \in StatWatcher, st'[v].active, v \notin blind', ~st'[v].timer, ~Renewing(v)'
         PROVE  Follows(v)'
    <2>1. CASE v # w
      <3>1. st'[v] = st[v] /\ v \notin blind
        BY <1>2, <1>3, <1>10, <2>1
      <3>2. ~Renewing(v)
        BY <1>7, <1>10, <2>1 DEF Renewing
      <3>3. Follows(v)
        BY <1>1, <1>10, <3>1, <3>2 DEF Followed
      <3>4. ToDo("check", v) => ToDo("check", v)'
        BY <1>7
      <3> QED
        BY <1>1, <1>3, <1>4, <3>1, <3>3, <3>4, FollowsOn DEF On
    <2>2. CASE v = w
      <3>1. st'[w].attr = path /\ path.ino # 0
        BY <1>2, <1>3, <1>10, <2>2
      <3> QED
        BY <1>3, <1>4, <2>2, <3>1 DEF Follows, On
    <2> QED
      BY <2>1, <2>2
  <1>11. Followed'
    BY <1>10 DEF Followed
  <1> QED
    BY <1>3, <1>7, <1>8, <1>9, <1>11 DEF StatIInv

(* inotify_rm_watch: those who share the watch are told, or are blind *)
LEMMA DelTells ==
  ASSUME StatTypes, OverflowTold(queue), NEW w \in StatWatcher, NEW d, d = Del(Kernel(w))
  PROVE  /\ d.wds = wds /\ d.wd = -2 /\ d.timer = st[w].timer
         /\ d.watch \subseteq watch
         /\ d.queue \in Seq(InotifyEvent) /\ OverflowTold(d.queue)
         /\ \A n \in Int : ToldIn(queue, n) => ToldIn(d.queue, n)
         /\ \A n \in Int : ReaddIn(queue, n) => ReaddIn(d.queue, n)
         /\ \A v \in StatWatcher \ Unheard(w) : v # w /\ On(v) =>
              [wd |-> st[v].wd, on |-> path.ino] \in d.watch \/ ReaddIn(d.queue, st[v].wd)
  <1> DEFINE of == {x \in watch : x.wd = st[w].wd}
             e == [wd |-> st[w].wd, mask |-> "IN_IGNORED"]
             q == IF of = {} THEN queue ELSE Queued(queue, e)
  <1>1. /\ d.wds = wds /\ d.wd = -2 /\ d.timer = st[w].timer
        /\ d.watch = watch \ of /\ d.queue = q
    BY DEF Del, Kernel
  <1>2. queue \in Seq(InotifyEvent) /\ \A x \in watch : x.wd \in Nat
    BY DEF StatTypes
  <1>3. CASE of = {}
    BY <1>1, <1>2, <1>3 DEF On
  <1>4. CASE of # {}
    <2>1. st[w].wd \in Nat
      BY <1>2, <1>4
    <2>2. e \in InotifyEvent /\ e.wd = st[w].wd /\ e.mask \in Again
      BY <2>1 DEF InotifyEvent, Mask, Again
    <2> HIDE DEF e
    <2>3. d.queue = Queued(queue, e)
      BY <1>1, <1>4
    <2>4. /\ d.queue \in Seq(InotifyEvent) /\ OverflowTold(d.queue)
          /\ \A n \in Int : ToldIn(queue, n) => ToldIn(d.queue, n)
          /\ \A n \in Int : ReaddIn(queue, n) => ReaddIn(d.queue, n)
          /\ Len(queue) < MaxQueued => ReaddIn(d.queue, st[w].wd)
      BY <1>2, <2>2, <2>3, QueuedTells
    <2>5. ASSUME NEW v \in StatWatcher \ Unheard(w), v # w, On(v),
                 [wd |-> st[v].wd, on |-> path.ino] \notin d.watch
          PROVE  ReaddIn(d.queue, st[v].wd)
      <3>1. st[v].wd = st[w].wd
        BY <1>1, <2>5 DEF On
      <3>2. Len(queue) < MaxQueued
        BY <2>1, <2>5, <3>1 DEF Unheard
      <3> QED
        BY <2>4, <3>1, <3>2
    <2> QED
      BY <1>1, <2>4, <2>5
  <1> QED
    BY <1>3, <1>4

LEMMA InfyDelKeeps ==
  ASSUME StatIInv, NEW w \in StatWatcher, InfyDel(w)
  PROVE  StatIInv'
  <1> DEFINE d == Del(Kernel(w))
  <1>1. /\ StatTypes /\ OneWatchEach /\ OverflowTold(queue) /\ PathPast
        /\ Followed /\ InOrder /\ InactiveOut
    BY DEF StatIInv
  <1>2. /\ Call("del", w) /\ ops' = Tail(ops) /\ UNCHANGED <<files, since>>
        /\ watch' = d.watch /\ queue' = d.queue /\ wds' = d.wds
        /\ st' = [st EXCEPT ![w].wd = d.wd, ![w].timer = d.timer]
        /\ blind' = blind \cup Unheard(w)
    BY DEF InfyDel, Becomes
  <1>3. /\ d.wds = wds /\ d.wd = -2 /\ d.timer = st[w].timer
        /\ d.watch \subseteq watch
        /\ d.queue \in Seq(InotifyEvent) /\ OverflowTold(d.queue)
        /\ \A n \in Int : ToldIn(queue, n) => ToldIn(d.queue, n)
        /\ \A n \in Int : ReaddIn(queue, n) => ReaddIn(d.queue, n)
        /\ \A v \in StatWatcher \ Unheard(w) : v # w /\ On(v) =>
             [wd |-> st[v].wd, on |-> path.ino] \in d.watch \/ ReaddIn(d.queue, st[v].wd)
    BY <1>1, DelTells
  <1> HIDE DEF d
  <1>4. /\ st' \in [StatWatcher -> [active : BOOLEAN, attr : Attr, wd : Nat \cup {-2},
                                timer : BOOLEAN, fed : BOOLEAN]]
        /\ st'[w].wd = -2 /\ st'[w].timer = st[w].timer
        /\ st'[w].active = st[w].active /\ st'[w].attr = st[w].attr
        /\ \A v \in StatWatcher \ {w} : st'[v] = st[v]
    BY <1>1, <1>2, <1>3, ZenonT(30) DEF StatTypes
  <1>5. path' = path /\ inodes' = inodes /\ since' = since
    BY <1>2 DEF files
  <1>6. /\ ops' \in Seq(Op) /\ InOrder'
        /\ \A o \in {"stat", "add", "del", "check"}, v \in StatWatcher :
              ToDo(o, v) <=> ToDo(o, v)' \/ (o = "del" /\ v = w)
    BY <1>1, <1>2, OneDone
  <1>7. StatTypes' /\ OverflowTold(queue)' /\ PathPast' /\ OneWatchEach'
    <2>1. blind' \subseteq StatWatcher
      BY <1>1, <1>2 DEF StatTypes, Unheard
    <2>2. StatTypes'
      BY <1>1, <1>2, <1>3, <1>4, <1>5, <1>6, <2>1 DEF StatTypes
    <2>3. PathPast'
      BY <1>1, <1>4, <1>5 DEF PathPast, Past
    <2> QED
      BY <1>1, <1>2, <1>3, <2>2, <2>3 DEF OneWatchEach
  <1>8. /\ 1 \in 1..Len(ops) /\ ops[1] = <<"del", w>> /\ Len(ops) \in Nat
        /\ \A k \in 1..Len(ops') : ops'[k] = ops[k + 1] /\ k + 1 \in 1..Len(ops)
    BY <1>1, <1>2, TailOps DEF Call
  <1>9. InactiveOut'
    <2> SUFFICES ASSUME NEW v \in StatWatcher, ~st'[v].active
                 PROVE  /\ st'[v].wd = -2 /\ ~st'[v].timer
                        /\ \A k \in 1..Len(ops') : ops'[k][2] # v
      BY DEF InactiveOut
    <2>1. ~st[v].active
      BY <1>4
    <2>2. st[v].wd = -2 /\ ~st[v].timer /\ \A k \in 1..Len(ops) : ops[k][2] # v
      BY <1>1, <2>1 DEF InactiveOut
    <2>3. v # w
      BY <1>8, <2>2
    <2> QED
      BY <1>4, <1>8, <2>2, <2>3
  <1>10. ToDo("add", w)
    <2>1. 1 < Len(ops) /\ ops[1 + 1] = <<"add", w>>
      BY <1>1, <1>8 DEF InOrder
    <2> QED
      BY <1>8, <2>1 DEF ToDo
  <1>11. ASSUME NEW v \in StatWatcher, st'[v].active, v \notin blind', ~st'[v].timer, ~Renewing(v)'
         PROVE  Follows(v)'
    <2>1. v # w
      BY <1>6, <1>10, <1>11 DEF Renewing
    <2>2. st'[v] = st[v] /\ v \notin blind /\ v \notin Unheard(w)
      BY <1>2, <1>4, <1>11, <2>1
    <2>3. ~Renewing(v)
      BY <1>6, <1>11 DEF Renewing
    <2>4. Follows(v)
      BY <1>1, <1>11, <2>2, <2>3 DEF Followed
    <2>5. ToDo("check", v) => ToDo("check", v)'
      BY <1>6
    <2>6. st[v].wd \in Int
      BY <1>1 DEF StatTypes
    <2>7. On(v) => On(v)' \/ ReaddIn(queue', st[v].wd)
      BY <1>2, <1>3, <1>5, <2>1, <2>2 DEF On
    <2> QED
      BY <1>1, <1>2, <1>3, <1>5, <2>2, <2>4, <2>5, <2>6, <2>7, FollowsOn
  <1>12. Followed'
    BY <1>11 DEF Followed
  <1> QED
    BY <1>2, <1>3, <1>6, <1>7, <1>9, <1>12 DEF StatIInv

LEMMA StopKeeps ==
  ASSUME StatIInv, NEW w \in StatWatcher, StatStop(w)
  PROVE  StatIInv'
  <1> DEFINE d == IF st[w].wd < 0 THEN Kernel(w) ELSE Del(Kernel(w))
  <1>1. /\ StatTypes /\ OneWatchEach /\ OverflowTold(queue) /\ PathPast
        /\ Followed /\ InOrder /\ InactiveOut
    BY DEF StatIInv
  <1>2. /\ ops = <<>> /\ ops' = ops /\ UNCHANGED <<files, since, wds>>
        /\ watch' = d.watch /\ queue' = d.queue
        /\ st' = [st EXCEPT ![w] = [@ EXCEPT !.active = FALSE, !.wd = d.wd,
                                             !.timer = FALSE, !.fed = FALSE]]
        /\ blind' = blind \cup Unheard(w)
    BY DEF StatStop, LoopFree
  <1>3. /\ d.wd = -2
        /\ d.watch \subseteq watch
        /\ d.queue \in Seq(InotifyEvent) /\ OverflowTold(d.queue)
        /\ \A n \in Int : ToldIn(queue, n) => ToldIn(d.queue, n)
        /\ \A n \in Int : ReaddIn(queue, n) => ReaddIn(d.queue, n)
        /\ \A v \in StatWatcher \ Unheard(w) : v # w /\ On(v) =>
             [wd |-> st[v].wd, on |-> path.ino] \in d.watch \/ ReaddIn(d.queue, st[v].wd)
    <2>1. CASE st[w].wd < 0
      <3>1. st[w].wd = -2 /\ queue \in Seq(InotifyEvent)
        BY <1>1, <2>1 DEF StatTypes
      <3>2. d.wd = -2 /\ d.watch = watch /\ d.queue = queue
        BY <2>1, <3>1 DEF Kernel
      <3> QED
        BY <1>1, <3>1, <3>2 DEF On
    <2>2. CASE ~(st[w].wd < 0)
      <3>1. d = Del(Kernel(w))
        BY <2>2
      <3> HIDE DEF d
      <3> QED
        BY <1>1, <3>1, DelTells
    <2> QED
      BY <2>1, <2>2
  <1> HIDE DEF d
  <1>4. /\ st' \in [StatWatcher -> [active : BOOLEAN, attr : Attr, wd : Nat \cup {-2},
                                timer : BOOLEAN, fed : BOOLEAN]]
        /\ st'[w].wd = -2 /\ ~st'[w].timer
        /\ ~st'[w].active /\ st'[w].attr = st[w].attr
        /\ \A v \in StatWatcher \ {w} : st'[v] = st[v]
    BY <1>1, <1>2, <1>3 DEF StatTypes
  <1>5. path' = path /\ inodes' = inodes /\ since' = since
    BY <1>2 DEF files
  <1>6. \A k : k \notin 1..Len(ops)
    BY <1>2
  <1>7. StatTypes' /\ OverflowTold(queue)' /\ PathPast' /\ OneWatchEach'
    <2>1. blind' \subseteq StatWatcher
      BY <1>1, <1>2 DEF StatTypes, Unheard
    <2>2. StatTypes'
      BY <1>1, <1>2, <1>3, <1>4, <1>5, <2>1 DEF StatTypes
    <2>3. PathPast'
      BY <1>1, <1>4, <1>5 DEF PathPast, Past
    <2> QED
      BY <1>1, <1>2, <1>3, <2>2, <2>3 DEF OneWatchEach
  <1>8. InactiveOut' /\ InOrder'
    BY <1>1, <1>2, <1>4, <1>6 DEF InactiveOut, InOrder
  <1>9. ASSUME NEW v \in StatWatcher, st'[v].active, v \notin blind', ~st'[v].timer, ~Renewing(v)'
        PROVE  Follows(v)'
    <2>1. v # w
      BY <1>4, <1>9
    <2>2. st'[v] = st[v] /\ v \notin blind /\ v \notin Unheard(w)
      BY <1>2, <1>4, <1>9, <2>1
    <2>3. Follows(v)
      BY <1>1, <1>6, <1>9, <2>2 DEF Followed, Renewing, ToDo
    <2>4. st[v].wd \in Int
      BY <1>1 DEF StatTypes
    <2>5. On(v) => On(v)' \/ ReaddIn(queue', st[v].wd)
      BY <1>2, <1>3, <1>5, <2>1, <2>2 DEF On
    <2>6. ToDo("check", v) => ToDo("check", v)'
      BY <1>2 DEF ToDo
    <2> QED
      BY <1>1, <1>2, <1>3, <1>5, <2>2, <2>3, <2>4, <2>5, <2>6, FollowsOn
  <1>10. Followed'
    BY <1>9 DEF Followed
  <1> QED
    BY <1>2, <1>3, <1>7, <1>8, <1>10 DEF StatIInv

(* stat_timer_cb, when the path is as known, and when it is not *)
LEMMA CheckKeeps ==
  ASSUME StatIInv, NEW w \in StatWatcher, Check(w)
  PROVE  StatIInv'
  <1>1. /\ StatTypes /\ OneWatchEach /\ OverflowTold(queue) /\ PathPast
        /\ Followed /\ InOrder /\ InactiveOut
    BY DEF StatIInv
  <1>2. /\ Call("check", w) /\ UNCHANGED <<files, watch, queue, wds, since>>
        /\ ops' = IF path = st[w].attr THEN Tail(ops) ELSE Rewatch(w) \o Tail(ops)
        /\ st' = [st EXCEPT ![w].attr = path, ![w].fed = (@ \/ path # st[w].attr)]
        /\ blind' = IF path # st[w].attr THEN blind \ {w} ELSE blind
    BY DEF Check
  <1>3. path' = path /\ inodes' = inodes /\ path \in Attr
    BY <1>1, <1>2 DEF files, StatTypes
  <1>4. /\ st' \in [StatWatcher -> [active : BOOLEAN, attr : Attr, wd : Nat \cup {-2},
                                timer : BOOLEAN, fed : BOOLEAN]]
        /\ st'[w].wd = st[w].wd /\ st'[w].timer = st[w].timer
        /\ st'[w].active = st[w].active /\ st'[w].attr = path
        /\ \A v \in StatWatcher \ {w} : st'[v] = st[v]
    BY <1>1, <1>2 DEF StatTypes
  <1> DEFINE rest == Tail(ops)
  <1>5. /\ rest \in Seq(Op) /\ Len(rest) = Len(ops) - 1 /\ Len(ops) \in Nat
        /\ \A k \in 1..Len(rest) : rest[k] = ops[k + 1] /\ k + 1 \in 1..Len(ops)
        /\ \A k \in 1..Len(ops) : k = 1 \/ (k - 1 \in 1..Len(rest) /\ rest[k - 1] = ops[k])
        /\ 1 \in 1..Len(ops) /\ ops[1] = <<"check", w>>
    BY <1>1, <1>2, TailOps DEF Call
  <1> HIDE DEF rest
  <1>6. st[w].active /\ \A v \in StatWatcher : ~st[v].active => \A k \in 1..Len(ops) : ops[k][2] # v
    BY <1>1, <1>5 DEF InactiveOut
  <1>7. OneWatchEach' /\ OverflowTold(queue)' /\ PathPast'
    BY <1>1, <1>2, <1>3, <1>4 DEF OneWatchEach, OverflowTold, PathPast, Past
  <1>8. ASSUME ops' \in Seq(Op), \A k \in 1..Len(ops') : ops'[k][2] = w \/ \E j \in 1..Len(ops) : ops'[k] = ops[j]
        PROVE  StatTypes' /\ InactiveOut'
    <2>1. StatTypes'
      BY <1>1, <1>2, <1>3, <1>4, <1>8 DEF StatTypes
    <2>2. ASSUME NEW v \in StatWatcher, ~st'[v].active
          PROVE  /\ st'[v].wd = -2 /\ ~st'[v].timer
                 /\ \A k \in 1..Len(ops') : ops'[k][2] # v
      <3>1. v # w /\ st'[v] = st[v]
        BY <1>4, <1>6, <2>2
      <3>2. st[v].wd = -2 /\ ~st[v].timer
        BY <1>1, <2>2, <3>1 DEF InactiveOut
      <3> QED
        BY <1>6, <1>8, <2>2, <3>1, <3>2
    <2> QED
      BY <2>1, <2>2 DEF InactiveOut
  <1>9. ASSUME NEW v \in StatWatcher, v # w, st'[v].active, v \notin blind', ~st'[v].timer,
               ~Renewing(v)', Renewing(v) => Renewing(v)', ToDo("check", v) => ToDo("check", v)'
        PROVE  Follows(v)'
    <2>1. st'[v] = st[v] /\ v \notin blind
      BY <1>2, <1>4, <1>9
    <2>2. Follows(v)
      BY <1>1, <1>9, <2>1 DEF Followed
    <2>3. st'[v].wd = st[v].wd /\ st'[v].attr = st[v].attr /\ queue' = queue
      BY <1>2, <2>1
    <2>4. On(v) => On(v)'
      BY <1>2, <1>3, <2>3 DEF On
    <2>5. ToldIn(queue, st[v].wd) => ToldIn(queue', st[v].wd)
      BY <2>3
    <2>6. ReaddIn(queue, st[v].wd) => ReaddIn(queue', st[v].wd)
      BY <2>3
    <2> QED
      BY <1>1, <1>3, <1>9, <2>2, <2>3, <2>4, <2>5, <2>6, FollowsOn
  <1>10. CASE path = st[w].attr
    <2>1. ops' = rest /\ ops' = Tail(ops)
      BY <1>2, <1>10 DEF rest
    <2>2. /\ ops' \in Seq(Op) /\ InOrder'
          /\ \A o \in {"stat", "add", "del", "check"}, v \in StatWatcher :
                ToDo(o, v) <=> ToDo(o, v)' \/ (o = "check" /\ v = w)
      BY <1>1, <1>2, <2>1, OneDone
    <2>3. StatTypes' /\ InactiveOut'
      BY <1>5, <1>8, <2>1
    <2>4. ASSUME NEW v \in StatWatcher, st'[v].active, v \notin blind', ~st'[v].timer, ~Renewing(v)'
          PROVE  Follows(v)'
      <3>1. CASE v # w
        BY <1>9, <2>2, <2>4, <3>1 DEF Renewing
      <3>2. CASE v = w
        <4>1. Follows(w) /\ st[w].attr = path
          BY <1>1, <1>2, <1>4, <1>10, <2>2, <2>4, <3>2 DEF Followed, Renewing
        <4> QED
          BY <1>2, <1>3, <1>4, <3>2, <4>1 DEF Follows, On
      <3> QED
        BY <3>1, <3>2
    <2> QED
      BY <1>7, <2>2, <2>3, <2>4 DEF StatIInv, Followed
  <1>11. CASE path # st[w].attr
    <2>1. ops' = Rewatch(w) \o rest
      BY <1>2, <1>11 DEF rest
    <2>2. Rewatch(w) \in Seq(Op) /\ Len(Rewatch(w)) = 3
      BY DEF Rewatch, Op
    <2>3. Rewatch(w)[1] = <<"del", w>> /\ Rewatch(w)[2] = <<"add", w>> /\ Rewatch(w)[3] = <<"stat", w>>
      BY DEF Rewatch
    <2>4. /\ ops' \in Seq(Op) /\ Len(ops') = Len(ops) + 2
          /\ ops'[1] = <<"del", w>> /\ ops'[2] = <<"add", w>> /\ ops'[3] = <<"stat", w>>
          /\ \A k \in 1..Len(rest) : ops'[k + 3] = rest[k]
      <3> DEFINE r == Rewatch(w)
      <3> HIDE DEF r
      <3>1. ops' = r \o rest /\ r \in Seq(Op) /\ Len(r) = 3 /\ rest \in Seq(Op) /\ Len(rest) \in Nat
        BY <1>5, <2>1, <2>2 DEF r
      <3>2. r[1] = <<"del", w>> /\ r[2] = <<"add", w>> /\ r[3] = <<"stat", w>>
        BY <2>3 DEF r
      <3>3. /\ ops' \in Seq(Op) /\ Len(ops') = 3 + Len(rest)
            /\ \A k \in 1..Len(r) + Len(rest) : ops'[k] = IF k <= Len(r) THEN r[k] ELSE rest[k - Len(r)]
        <4>1. /\ r \o rest \in Seq(Op) /\ Len(r \o rest) = Len(r) + Len(rest)
              /\ \A k \in 1..Len(r) + Len(rest) :
                   (r \o rest)[k] = IF k <= Len(r) THEN r[k] ELSE rest[k - Len(r)]
          BY <3>1, ConcatProperties
        <4> QED
          BY <3>1, <4>1
      <3>4. Len(ops') = Len(ops) + 2
        BY <1>5, <3>3
      <3>5. ops'[1] = <<"del", w>> /\ ops'[2] = <<"add", w>> /\ ops'[3] = <<"stat", w>>
        BY <3>1, <3>2, <3>3
      <3>6. ASSUME NEW k \in 1..Len(rest)
            PROVE  ops'[k + 3] = rest[k]
        <4>1. k + 3 \in 1..Len(r) + Len(rest) /\ ~(k + 3 <= Len(r)) /\ (k + 3) - Len(r) = k
          BY <3>1
        <4> QED
          BY <3>3, <4>1
      <3> QED
        BY <3>3, <3>4, <3>5, <3>6
    <2>5. ASSUME NEW k \in 2..Len(ops)
          PROVE  k + 2 \in 4..Len(ops') /\ ops'[k + 2] = ops[k]
      <3>1. k \in 1..Len(ops) /\ k # 1 /\ (k - 1) + 3 = k + 2 /\ k + 2 \in 4..Len(ops) + 2
        BY <1>5
      <3>2. k - 1 \in 1..Len(rest) /\ rest[k - 1] = ops[k]
        BY <1>5, <3>1
      <3>3. ops'[(k - 1) + 3] = rest[k - 1]
        BY <2>4, <3>2
      <3> QED
        BY <2>4, <3>1, <3>2, <3>3
    <2>6. ASSUME NEW k \in 4..Len(ops')
          PROVE  k - 2 \in 2..Len(ops) /\ ops'[k] = ops[k - 2]
      <3>1. k - 2 \in 2..Len(ops) /\ (k - 2) + 2 = k
        BY <1>5, <2>4
      <3> QED
        BY <2>5, <3>1
    <2>7. \A k \in 1..Len(ops') : k \in {1, 2, 3} \/ k \in 4..Len(ops')
      BY <1>5, <2>4
    <2>8. StatTypes' /\ InactiveOut'
      <3>1. \A k \in 1..Len(ops') : ops'[k][2] = w \/ \E j \in 1..Len(ops) : ops'[k] = ops[j]
        <4> SUFFICES ASSUME NEW k \in 1..Len(ops')
                     PROVE  ops'[k][2] = w \/ \E j \in 1..Len(ops) : ops'[k] = ops[j]
          OBVIOUS
        <4>1. CASE k \in {1, 2, 3}
          BY <2>4, <4>1
        <4>2. CASE k \in 4..Len(ops')
          <5>1. k - 2 \in 1..Len(ops) /\ ops'[k] = ops[k - 2]
            BY <1>5, <2>6, <4>2
          <5> QED
            BY <5>1
        <4> QED
          BY <2>7, <4>1, <4>2
      <3> QED
        BY <1>8, <2>4, <3>1
    <2>9. InOrder'
      <3> SUFFICES ASSUME NEW k \in 1..Len(ops'), NEW v \in StatWatcher
                   PROVE  /\ ops'[k] = <<"stat", v>> => \/ k < Len(ops') /\ ops'[k + 1] = <<"add", v>>
                                                        \/ k > 1 /\ ops'[k - 1] = <<"add", v>>
                          /\ ops'[k] = <<"del", v>> => k < Len(ops') /\ ops'[k + 1] = <<"add", v>>
        BY DEF InOrder
      <3>1. CASE k \in {1, 2, 3}
        BY <1>5, <2>4, <3>1
      <3>2. CASE k \in 4..Len(ops')
        <4> DEFINE j == k - 2
        <4>1. j \in 2..Len(ops) /\ ops'[k] = ops[j] /\ j \in 1..Len(ops) /\ j # 1
          BY <1>5, <2>6, <3>2
        <4>2. k = j + 2 /\ j \in Int
          BY <3>2
        <4> HIDE DEF j
        <4>3. /\ ops[j] = <<"stat", v>> => \/ j < Len(ops) /\ ops[j + 1] = <<"add", v>>
                                           \/ j > 1 /\ ops[j - 1] = <<"add", v>>
              /\ ops[j] = <<"del", v>> => j < Len(ops) /\ ops[j + 1] = <<"add", v>>
          BY <1>1, <4>1 DEF InOrder
        <4>4. j < Len(ops) => k < Len(ops') /\ ops'[k + 1] = ops[j + 1]
          BY <1>5, <2>4, <2>5, <4>1, <4>2
        <4>5. j > 1 /\ ops[j - 1] = <<"add", v>> => ops'[k - 1] = ops[j - 1]
          <5>1. CASE j = 2
            BY <1>5, <5>1
          <5>2. CASE j # 2
            <6>1. j - 1 \in 2..Len(ops) /\ (j - 1) + 2 = k - 1
              BY <4>1, <4>2, <5>2
            <6> QED
              BY <2>5, <6>1
          <5> QED
            BY <5>1, <5>2
        <4> QED
          BY <3>2, <4>1, <4>3, <4>4, <4>5
      <3> QED
        BY <2>7, <3>1, <3>2
    <2>10. Renewing(w)'
      BY <1>5, <2>4 DEF Renewing, ToDo
    <2>11. ASSUME NEW v \in StatWatcher, st'[v].active, v \notin blind', ~st'[v].timer, ~Renewing(v)'
           PROVE  Follows(v)'
      <3>1. v # w
        BY <2>10, <2>11
      <3>2. \A o \in {"stat", "add", "del", "check"} : ToDo(o, v) => ToDo(o, v)'
        <4> SUFFICES ASSUME NEW o \in {"stat", "add", "del", "check"}, NEW k \in 1..Len(ops), ops[k] = <<o, v>>
                     PROVE  \E j \in 1..Len(ops') : ops'[j] = <<o, v>>
          BY DEF ToDo
        <4>1. k # 1
          BY <1>5, <3>1
        <4>2. k \in 2..Len(ops)
          BY <4>1
        <4>3. k + 2 \in 1..Len(ops') /\ ops'[k + 2] = <<o, v>>
          BY <2>5, <4>2
        <4> QED
          BY <4>3
      <3> QED
        BY <1>9, <2>11, <3>1, <3>2 DEF Renewing
    <2> QED
      BY <1>7, <2>8, <2>9, <2>11 DEF StatIInv, Followed
  <1> QED
    BY <1>10, <1>11

-----------------------------------------------------------------------------
(* Between callbacks: nothing is to be done, and what begins is new *)
LEMMA NothingToDo ==
  ASSUME StatIInv, ops = <<>>
  PROVE  /\ \A o, w : ~ToDo(o, w)
         /\ \A w \in StatWatcher : st[w].active /\ w \notin blind /\ ~st[w].timer => Follows(w)
  <1>1. Len(ops) = 0
    OBVIOUS
  <1>2. \A o, w : ~ToDo(o, w)
    BY <1>1 DEF ToDo
  <1> QED
    BY <1>2 DEF StatIInv, Followed, Renewing

LEMMA StartKeeps ==
  ASSUME StatIInv, NEW w \in StatWatcher, StatStart(w)
  PROVE  StatIInv'
  <1>1. /\ StatTypes /\ OneWatchEach /\ OverflowTold(queue) /\ PathPast
        /\ Followed /\ InOrder /\ InactiveOut
    BY DEF StatIInv
  <1>2. /\ ops = <<>> /\ ~st[w].active /\ st' = [st EXCEPT ![w].active = TRUE]
        /\ ops' = <<<<"stat", w>>, <<"add", w>>>>
        /\ UNCHANGED <<files, watch, queue, wds, since, blind>>
    BY DEF StatStart, LoopFree
  <1>3. path' = path /\ inodes' = inodes
    BY <1>2 DEF files
  <1>4. /\ st' \in [StatWatcher -> [active : BOOLEAN, attr : Attr, wd : Nat \cup {-2},
                                timer : BOOLEAN, fed : BOOLEAN]]
        /\ st'[w].attr = st[w].attr /\ st'[w].active
        /\ \A v \in StatWatcher \ {w} : st'[v] = st[v]
    BY <1>1, <1>2 DEF StatTypes
  <1>5. <<"stat", w>> \in Op /\ <<"add", w>> \in Op
    BY DEF Op
  <1>6. ops' \in Seq(Op) /\ Len(ops') = 2 /\ ops'[1] = <<"stat", w>> /\ ops'[2] = <<"add", w>>
    BY <1>2, <1>5
  <1>7. StatTypes'
    BY <1>1, <1>2, <1>3, <1>4, <1>6 DEF StatTypes
  <1>8. OneWatchEach' /\ OverflowTold(queue)' /\ PathPast'
    BY <1>1, <1>2, <1>3, <1>4 DEF OneWatchEach, OverflowTold, PathPast, Past
  <1>9. InOrder'
    BY <1>6 DEF InOrder
  <1>10. InactiveOut'
    <2> SUFFICES ASSUME NEW v \in StatWatcher, ~st'[v].active
                 PROVE  st'[v].wd = -2 /\ ~st'[v].timer /\ \A k \in 1..Len(ops') : ops'[k][2] # v
      BY DEF InactiveOut
    <2>1. v # w /\ st'[v] = st[v]
      BY <1>4
    <2> QED
      BY <1>1, <1>6, <2>1 DEF InactiveOut
  <1>11. ASSUME NEW v \in StatWatcher, st'[v].active, v \notin blind', ~st'[v].timer, ~Renewing(v)'
         PROVE  Follows(v)'
    <2>1. v # w
      BY <1>6, <1>11 DEF Renewing, ToDo
    <2>2. st'[v] = st[v] /\ Follows(v)
      BY <1>2, <1>4, <1>11, <2>1, NothingToDo
    <2>3. ~ToDo("check", v)
      BY <1>2, NothingToDo
    <2> QED
      BY <1>2, <1>3, <2>2, <2>3 DEF Follows, On
  <1> QED
    BY <1>7, <1>8, <1>9, <1>10, <1>11 DEF StatIInv, Followed

(* Other callbacks change neither the files nor inotify, only what is to be done *)
LEMMA CallbackBegins ==
  ASSUME StatIInv, ops = <<>>, UNCHANGED <<files, watch, wds, st, since, blind>>,
         queue' \in Seq(InotifyEvent), OverflowTold(queue'),
         ops' \in Seq(Op), \A k \in 1..Len(ops') : ops'[k][1] \in {"add", "check"},
         \A k \in 1..Len(ops') : st[ops'[k][2]].active,
         \A w \in StatWatcher : Follows(w) /\ ~Renewing(w)' => Follows(w)'
  PROVE  StatIInv'
  <1>1. /\ StatTypes /\ OneWatchEach /\ PathPast /\ InactiveOut
    BY DEF StatIInv
  <1>2. path' = path /\ inodes' = inodes
    BY DEF files
  <1>3. StatTypes'
    BY <1>1, <1>2 DEF StatTypes
  <1>4. OneWatchEach' /\ PathPast'
    BY <1>1, <1>2 DEF OneWatchEach, PathPast, Past
  <1>5. InOrder'
    BY DEF InOrder
  <1>6. InactiveOut'
    BY <1>1 DEF InactiveOut
  <1>7. Followed'
    BY NothingToDo DEF Followed
  <1> QED
    BY <1>3, <1>4, <1>5, <1>6, <1>7 DEF StatIInv

LEMMA TimerCbKeeps ==
  ASSUME StatIInv, NEW w \in StatWatcher, TimerCb(w)
  PROVE  StatIInv'
  <1>1. StatTypes /\ OverflowTold(queue) /\ InactiveOut
    BY DEF StatIInv
  <1>2. /\ ops = <<>> /\ st[w].timer /\ ops' = <<<<"check", w>>>>
        /\ UNCHANGED <<files, watch, queue, wds, st, since, blind>>
    BY DEF TimerCb, LoopFree
  <1>3. <<"check", w>> \in Op
    BY DEF Op
  <1>4. ops' \in Seq(Op) /\ Len(ops') = 1 /\ ops'[1] = <<"check", w>>
    BY <1>2, <1>3
  <1>5. st[w].active
    BY <1>1, <1>2 DEF InactiveOut
  <1>6. queue' \in Seq(InotifyEvent) /\ OverflowTold(queue')
    BY <1>1, <1>2 DEF StatTypes
  <1>7. ASSUME NEW v \in StatWatcher, Follows(v)
        PROVE  Follows(v)'
    BY <1>2, <1>7, NothingToDo DEF Follows, On, files
  <1> QED
    BY <1>2, <1>4, <1>5, <1>6, <1>7, CallbackBegins

LEMMA CallbackKeeps ==
  ASSUME StatIInv, NEW w \in StatWatcher, Callback(w)
  PROVE  StatIInv'
  <1>1. /\ StatTypes /\ OneWatchEach /\ OverflowTold(queue) /\ PathPast
        /\ Followed /\ InOrder /\ InactiveOut
    BY DEF StatIInv
  <1>2. /\ ops = <<>> /\ ops' = ops /\ st' = [st EXCEPT ![w].fed = FALSE]
        /\ UNCHANGED <<files, watch, queue, wds, since, blind>>
    BY DEF Callback, LoopFree
  <1>3. path' = path /\ inodes' = inodes /\ Len(ops) = 0 /\ Len(ops') = 0
    BY <1>2 DEF files
  <1>4. /\ st' \in [StatWatcher -> [active : BOOLEAN, attr : Attr, wd : Nat \cup {-2},
                                timer : BOOLEAN, fed : BOOLEAN]]
        /\ \A v \in StatWatcher : /\ st'[v].wd = st[v].wd /\ st'[v].attr = st[v].attr
                              /\ st'[v].timer = st[v].timer /\ st'[v].active = st[v].active
    BY <1>1, <1>2 DEF StatTypes
  <1>5. StatTypes'
    BY <1>1, <1>2, <1>3, <1>4 DEF StatTypes
  <1>6. OneWatchEach' /\ OverflowTold(queue)' /\ PathPast'
    BY <1>1, <1>2, <1>3, <1>4 DEF OneWatchEach, OverflowTold, PathPast, Past
  <1>7. InOrder' /\ InactiveOut'
    BY <1>1, <1>3, <1>4 DEF InOrder, InactiveOut
  <1>8. ASSUME NEW v \in StatWatcher, st'[v].active, v \notin blind', ~st'[v].timer
        PROVE  Follows(v)'
    <2>1. Follows(v) /\ ~ToDo("check", v)
      BY <1>2, <1>4, <1>8, NothingToDo
    <2> QED
      BY <1>2, <1>3, <1>4, <2>1 DEF Follows, On
  <1> QED
    BY <1>5, <1>6, <1>7, <1>8 DEF StatIInv, Followed

(* A walk visits each watcher of the set *)
LEMMA WalkVisits ==
  ASSUME NEW ws \in SUBSET StatWatcher, NEW of \in Walks(ws)
  PROVE  /\ of \in Seq(ws) /\ Len(of) \in Nat
         /\ \A w \in ws : \E i \in 1..Len(of) : of[i] = w
  <1>1. Cardinality(ws) \in Nat
    BY StatAssumption, FS_Subset, FS_CardinalityType
  <1> DEFINE n == Cardinality(ws)
  <1>2. of \in [1..n -> ws] /\ \A w \in ws : \E i \in 1..n : of[i] = w
    BY DEF Walks, Bijection, Injection, Surjection, IsInjective
  <1>3. n \in Nat
    BY <1>1
  <1> HIDE DEF n
  <1>4. of \in Seq(ws) /\ Len(of) = n
    BY <1>2, <1>3, SeqDef, LenProperties
  <1> QED
    BY <1>2, <1>3, <1>4

(* What infy_cb and infy_fork list to be done for the watchers they walk *)
LEMMA EachListed ==
  ASSUME NEW ws \in SUBSET StatWatcher, NEW of \in Walks(ws), NEW op \in {"add", "check"}
  PROVE  /\ Each(op, of) \in Seq(Op)
         /\ \A k \in 1..Len(Each(op, of)) : Each(op, of)[k][1] = op /\ Each(op, of)[k][2] \in ws
         /\ \A w \in ws : \E k \in 1..Len(Each(op, of)) : Each(op, of)[k] = <<op, w>>
  <1>1. /\ of \in Seq(ws) /\ Len(of) \in Nat
        /\ \A w \in ws : \E i \in 1..Len(of) : of[i] = w
    BY WalkVisits
  <1> DEFINE n == Len(of)
             l == Each(op, of)
  <1>2. \A i \in 1..n : of[i] \in ws /\ <<op, of[i]>> \in Op
    BY <1>1 DEF Op
  <1>3. n \in Nat /\ l \in [1..n -> Op]
    BY <1>1, <1>2 DEF Each
  <1>5. \A i \in 1..n : l[i] = <<op, of[i]>> /\ l[i][1] = op /\ l[i][2] = of[i]
    BY DEF Each
  <1> HIDE DEF n, l
  <1>4. l \in Seq(Op) /\ Len(l) = n
    BY <1>3, SeqDef, LenProperties
  <1>6. \A k \in 1..Len(l) : l[k][1] = op /\ l[k][2] \in ws
    BY <1>2, <1>4, <1>5
  <1>7. \A w \in ws : \E k \in 1..Len(l) : l[k] = <<op, w>>
    BY <1>1, <1>4, <1>5 DEF n
  <1> QED
    BY <1>4, <1>6, <1>7 DEF l

LEMMA BothListed ==
  ASSUME NEW ws \in SUBSET StatWatcher, NEW of \in Walks(ws)
  PROVE  /\ AddAndCheck(of) \in Seq(Op)
         /\ \A k \in 1..Len(AddAndCheck(of)) : /\ AddAndCheck(of)[k][1] \in {"add", "check"}
                                               /\ AddAndCheck(of)[k][2] \in ws
         /\ \A w \in ws : \E k \in 1..Len(AddAndCheck(of)) : AddAndCheck(of)[k] = <<"add", w>>
  <1>1. /\ of \in Seq(ws) /\ Len(of) \in Nat
        /\ \A w \in ws : \E i \in 1..Len(of) : of[i] = w
    BY WalkVisits
  <1> DEFINE n == Len(of)
             l == AddAndCheck(of)
  <1>2. \A i \in 1..n : of[i] \in ws
    BY <1>1
  <1>3. n \in Nat /\ 2 * n \in Nat
    BY <1>1
  <1>4. l = [i \in 1..2 * n |-> IF i % 2 = 1 THEN <<"add", of[(i + 1) \div 2]>>
                                ELSE <<"check", of[i \div 2]>>]
    BY DEF AddAndCheck
  <1> HIDE DEF n, l
  <1>5. ASSUME NEW i \in 1..2 * n
        PROVE  l[i] \in Op /\ l[i][1] \in {"add", "check"} /\ l[i][2] \in ws
    <2>1. CASE i % 2 = 1
      <3>1. (i + 1) \div 2 \in 1..n
        BY <1>3, <2>1
      <3>2. l[i] = <<"add", of[(i + 1) \div 2]>> /\ of[(i + 1) \div 2] \in ws
        BY <1>2, <1>4, <2>1, <3>1
      <3> HIDE DEF n, l
      <3> QED
        BY <3>2 DEF Op
    <2>2. CASE i % 2 # 1
      <3>1. i \div 2 \in 1..n
        BY <1>3, <2>2
      <3>2. l[i] = <<"check", of[i \div 2]>> /\ of[i \div 2] \in ws
        BY <1>2, <1>4, <2>2, <3>1
      <3> QED
        BY <3>2 DEF Op
    <2> QED
      BY <2>1, <2>2
  <1>6. ASSUME NEW i \in 1..n
        PROVE  2 * i - 1 \in 1..2 * n /\ l[2 * i - 1] = <<"add", of[i]>>
    <2>1. /\ 2 * i - 1 \in 1..2 * n /\ (2 * i - 1) % 2 = 1
          /\ ((2 * i - 1) + 1) \div 2 = i
      BY <1>3
    <2> QED
      BY <1>4, <2>1
  <1>7. l \in [1..2 * n -> Op]
    BY <1>4, <1>5
  <1>8. l \in Seq(Op) /\ Len(l) = 2 * n
    <2> DEFINE m == 2 * n
    <2>1. m \in Nat /\ l \in [1..m -> Op]
      BY <1>3, <1>7
    <2> HIDE DEF m
    <2>2. l \in Seq(Op) /\ Len(l) = m
      BY <2>1, SeqDef, LenProperties
    <2> QED
      BY <2>2 DEF m
  <1>9. ASSUME NEW w \in ws
        PROVE  \E k \in 1..Len(l) : l[k] = <<"add", w>>
    <2>1. PICK i \in 1..n : of[i] = w
      BY <1>1 DEF n
    <2> QED
      BY <1>6, <1>8, <2>1
  <1>10. \A k \in 1..Len(l) : l[k][1] \in {"add", "check"} /\ l[k][2] \in ws
    BY <1>5, <1>8
  <1> QED
    BY <1>8, <1>9, <1>10 DEF l

LEMMA InfyCbKeeps ==
  ASSUME StatIInv, InfyCb
  PROVE  StatIInv'
  <1> DEFINE e == Head(queue)
             ws == {w \in StatWatcher : st[w].wd >= 0 /\ e.wd \in {st[w].wd, -1}}
  <1>1. StatTypes /\ OverflowTold(queue) /\ InactiveOut
    BY DEF StatIInv
  <1>2. /\ ops = <<>> /\ queue # <<>> /\ queue' = Tail(queue)
        /\ UNCHANGED <<files, watch, wds, st, since, blind>>
    BY DEF InfyCb
  <1>3. PICK of \in Walks(ws) :
          ops' = IF e.mask \in Again THEN AddAndCheck(of) ELSE Each("check", of)
    BY DEF InfyCb, Again
  <1>4. ws \in SUBSET StatWatcher
    OBVIOUS
  <1>5. \A w \in ws : st[w].active
    BY <1>1 DEF InactiveOut, StatTypes
  <1>6. \A w \in StatWatcher : w \notin ws /\ st[w].wd >= 0 => e.wd \notin {st[w].wd, -1}
    OBVIOUS
  <1>7. /\ queue' \in Seq(InotifyEvent) /\ OverflowTold(queue')
        /\ \A d \in Int : ToldIn(queue, d) => ToldIn(queue', d) \/ e.wd \in {d, -1}
        /\ \A d \in Int : ReaddIn(queue, d) => ReaddIn(queue', d) \/ (e.wd = d /\ e.mask \in Again)
    BY <1>1, <1>2, HeadTold DEF StatTypes
  <1> HIDE DEF ws, e
  <1>8. /\ ops' \in Seq(Op)
        /\ \A k \in 1..Len(ops') : ops'[k][1] \in {"add", "check"} /\ ops'[k][2] \in ws
        /\ \A w \in ws : IF e.mask \in Again THEN ToDo("add", w)' ELSE ToDo("check", w)'
    <2>1. CASE e.mask \in Again
      BY <1>3, <1>4, <2>1, BothListed DEF ToDo
    <2>2. CASE e.mask \notin Again
      <3> DEFINE l == Each("check", of)
      <3>1. ops' = l
        BY <1>3, <2>2
      <3>2. /\ l \in Seq(Op) /\ \A k \in 1..Len(l) : l[k][1] = "check" /\ l[k][2] \in ws
            /\ \A w \in ws : \E k \in 1..Len(l) : l[k] = <<"check", w>>
        BY <1>4, EachListed
      <3> HIDE DEF l
      <3>3. \A w \in ws : ToDo("check", w)'
        BY <3>1, <3>2 DEF ToDo
      <3> QED
        BY <2>2, <3>1, <3>2, <3>3
    <2> QED
      BY <2>1, <2>2
  <1>9. ASSUME NEW w \in StatWatcher, Follows(w), ~Renewing(w)'
        PROVE  Follows(w)'
    <2>1. st'[w] = st[w] /\ path' = path /\ st[w].wd >= 0 /\ st[w].wd \in Int
      BY <1>1, <1>2, <1>9 DEF files, Follows, StatTypes
    <2>2. On(w) => On(w)'
      BY <1>2, <2>1 DEF On
    <2>3. e.mask \in Again => w \notin ws
      BY <1>8, <1>9 DEF Renewing
    <2>4. ReaddIn(queue, st[w].wd) => ReaddIn(queue', st[w].wd)
      BY <1>6, <1>7, <2>1, <2>3
    <2>5. ToldIn(queue, st[w].wd) => ToldIn(queue', st[w].wd) \/ ToDo("check", w)'
      BY <1>6, <1>7, <1>8, <2>1, <2>3
    <2>6. ~ToDo("check", w)
      BY <1>2, NothingToDo
    <2> QED
      BY <1>1, <1>9, <2>1, <2>2, <2>4, <2>5, <2>6, FollowsOn
  <1> QED
    BY <1>2, <1>5, <1>7, <1>8, <1>9, CallbackBegins

LEMMA InfyForkKeeps ==
  ASSUME StatIInv, InfyFork
  PROVE  StatIInv'
  <1> DEFINE ws == {w \in StatWatcher : st[w].wd >= 0}
  <1>1. /\ StatTypes /\ PathPast /\ Followed /\ InactiveOut
    BY DEF StatIInv
  <1>2. /\ ops = <<>> /\ watch' = {} /\ queue' = <<>>
        /\ UNCHANGED <<files, wds, st, since, blind>>
    BY DEF InfyFork, LoopFree
  <1>3. PICK of \in Walks(ws) : ops' = Each("add", of)
    BY DEF InfyFork
  <1>4. ws \in SUBSET StatWatcher /\ \A w \in ws : st[w].active
    BY <1>1 DEF InactiveOut, StatTypes
  <1>5. \A w \in StatWatcher : st[w].wd >= 0 => w \in ws
    OBVIOUS
  <1> HIDE DEF ws
  <1>6. /\ ops' \in Seq(Op)
        /\ \A k \in 1..Len(ops') : ops'[k][1] = "add" /\ ops'[k][2] \in ws
        /\ \A w \in ws : ToDo("add", w)'
    <2> DEFINE l == Each("add", of)
    <2>1. /\ l \in Seq(Op) /\ \A k \in 1..Len(l) : l[k][1] = "add" /\ l[k][2] \in ws
          /\ \A w \in ws : \E k \in 1..Len(l) : l[k] = <<"add", w>>
      BY <1>4, EachListed
    <2>2. ops' = l
      BY <1>3
    <2> HIDE DEF l
    <2>3. \A w \in ws : ToDo("add", w)'
      BY <2>1, <2>2 DEF ToDo
    <2> QED
      BY <2>1, <2>2, <2>3
  <1>7. path' = path /\ inodes' = inodes
    BY <1>2 DEF files
  <1>8. queue' \in Seq(InotifyEvent) /\ Len(queue') = 0 /\ MaxQueued \in Nat
    BY <1>2, StatAssumption
  <1>9. StatTypes'
    BY <1>1, <1>2, <1>6, <1>7, <1>8 DEF StatTypes
  <1>10. OneWatchEach' /\ OverflowTold(queue)' /\ PathPast'
    BY <1>1, <1>2, <1>7, <1>8 DEF OneWatchEach, OverflowTold, PathPast, Past
  <1>11. InOrder' /\ InactiveOut'
    BY <1>1, <1>2, <1>4, <1>6 DEF InOrder, InactiveOut
  <1>12. ASSUME NEW w \in StatWatcher, st'[w].active, w \notin blind', ~st'[w].timer
         PROVE  Renewing(w)'
    <2>1. Follows(w)
      BY <1>2, <1>12, NothingToDo DEF StatIInv
    <2> QED
      BY <1>5, <1>6, <2>1 DEF Follows, Renewing
  <1>13. Followed'
    BY <1>12 DEF Followed
  <1> QED
    BY <1>9, <1>10, <1>11, <1>13 DEF StatIInv

-----------------------------------------------------------------------------
LEMMA StatStarts ==
  ASSUME StatInit
  PROVE  StatIInv
  <1>1. MaxQueued \in Nat
    BY StatAssumption
  <1>2. Missing \in Attr /\ Missing.ino = 0 /\ Missing.ver = 0 /\ path \in Attr /\ path.ino = 1 /\ path.ver = 0
    BY DEF StatInit, Missing, Attr
  <1>3. \A w \in StatWatcher : /\ ~st[w].active /\ st[w].wd = -2 /\ ~st[w].timer
                           /\ st[w].attr = Missing /\ since[w] = Missing
    BY DEF StatInit
  <1>4. Len(ops) = 0 /\ ops \in Seq(Op) /\ Len(queue) = 0 /\ queue \in Seq(InotifyEvent)
    BY DEF StatInit
  <1>5. StatTypes
    BY <1>2, <1>4 DEF StatTypes, StatInit
  <1>6. OneWatchEach /\ OverflowTold(queue)
    BY <1>1, <1>4 DEF StatInit, OneWatchEach, OverflowTold
  <1>7. inodes = 1
    BY DEF StatInit
  <1>8. PathPast
    BY <1>2, <1>3, <1>7 DEF PathPast, Past
  <1>9. Followed /\ InOrder /\ InactiveOut
    BY <1>3, <1>4 DEF Followed, InOrder, InactiveOut
  <1> QED
    BY <1>5, <1>6, <1>8, <1>9 DEF StatIInv

LEMMA StatInductive ==
  ASSUME StatIInv, [StatNext]_stat_vars
  PROVE  StatIInv'
  <1>1. CASE UNCHANGED stat_vars \/ InfyCbUnasked
    <2>1. UNCHANGED <<path, inodes, watch, queue, wds, st, ops, since, blind>>
      BY <1>1 DEF stat_vars, InfyCbUnasked, files
    <2>2. (StatTypes /\ OneWatchEach /\ OverflowTold(queue) /\ PathPast)'
      BY <2>1 DEF StatIInv, StatTypes, OneWatchEach, OverflowTold, PathPast, Past
    <2>3. Followed'
      BY <2>1 DEF StatIInv, Followed, Renewing, ToDo, Follows, On, ToldIn, ReaddIn
    <2>4. (InOrder /\ InactiveOut)'
      BY <2>1 DEF StatIInv, InOrder, JustAdded, On, InactiveOut
    <2> QED
      BY <2>2, <2>3, <2>4 DEF StatIInv
  <1>2. CASE Write \/ Delete \/ MoveAway \/ Create
    BY <1>2, ChangeKeeps
  <1>3. CASE \E w \in StatWatcher : \/ StatStart(w) \/ StatStop(w) \/ TimerCb(w) \/ Callback(w)
                                \/ Stat(w) \/ InfyAdd(w) \/ InfyDel(w) \/ Check(w)
    BY <1>3, StartKeeps, StopKeeps, TimerCbKeeps, CallbackKeeps, StatKeeps, InfyAddKeeps,
       InfyDelKeeps, CheckKeeps
  <1>4. CASE InfyCb \/ InfyFork
    BY <1>4, InfyCbKeeps, InfyForkKeeps
  <1> QED
    BY <1>1, <1>2, <1>3, <1>4 DEF StatNext

(* Once libev has nothing to do, every watcher that is not blind knows the *)
(* path as it is, or a timer will look again, as long as fs_w listens to   *)
(* the inotify there is: ev_stat misses no change that inotify could tell, *)
(* for any number of watchers and any length of inotify's queue.           *)
THEOREM ChangesNoticedAlways == StatSpec => []ChangesNoticedUnlessBlind
  <1>1. StatInit => StatIInv
    BY StatStarts
  <1>2. StatIInv /\ [StatNext]_stat_vars => StatIInv'
    BY StatInductive
  <1>3. StatIInv => ChangesNoticedUnlessBlind
    <2> SUFFICES ASSUME StatIInv, ops = <<>>, queue = <<>>, NEW w \in StatWatcher,
                        st[w].active, w \notin blind, ~st[w].timer
                 PROVE  st[w].attr = path
      BY DEF ChangesNoticedUnlessBlind, Idle, Knows
    <2>1. Follows(w) /\ ~ToDo("check", w)
      BY NothingToDo
    <2>2. Len(queue) = 0
      OBVIOUS
    <2>3. \A d : ~ToldIn(queue, d) /\ ~ReaddIn(queue, d)
      BY <2>2 DEF ToldIn, ReaddIn
    <2> QED
      BY <2>1, <2>3 DEF Follows
  <1> QED
    BY <1>1, <1>2, <1>3, PTL DEF StatSpec
=============================================================================
