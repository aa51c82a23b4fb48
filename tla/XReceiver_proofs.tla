--------------------------- MODULE XReceiver_proofs ---------------------------
(***************************************************************************)
(* Proofs about the receiver of election messages, for any messages and    *)
(* whatever the dispatcher, the manager and the scheduler do.              *)
(***************************************************************************)
EXTENDS XReceiver, SequenceTheorems, TLAPS

(* Notifying the receiver thread keeps it in get_front or out of it.       *)
LEMMA NotifyAllType ==
  ASSUME TypeOK
  PROVE  /\ Q!NotifyAll(call) \in [{receiver} -> {"out", "entry", "waiting", "woken"}]
         /\ Q!NotifyAll(call)[receiver] = "out" <=> call[receiver] = "out"
  <1>1. call[receiver] \in {"out", "entry", "waiting", "woken"}
    BY DEF TypeOK, Q!QueueTypeOK
  <1> QED
    BY <1>1 DEF Q!NotifyAll

(* push_back keeps the set of announcements a sequence of announcements.   *)
LEMMA WithAnnType ==
  ASSUME NEW anns \in Seq(Ann), NEW a \in Ann
  PROVE  WithAnn(anns, a) \in Seq(Ann)
  BY DEF WithAnn

-----------------------------------------------------------------------------
(* Variables keep their types.                                             *)
THEOREM TypeCorrect == Spec => []TypeOK
  <1>1. Init => TypeOK
    <2>1. <<>> \in Seq(Message) /\ <<>> \in Seq(Ann)
      OBVIOUS
    <2> QED
      BY <2>1, MessageAssumption DEF Init, Q!QueueInit, TypeOK, Q!QueueTypeOK
  <1>2. TypeOK /\ [Next]_vars => TypeOK'
    <2> SUFFICES ASSUME TypeOK, [Next]_vars PROVE TypeOK'
      OBVIOUS
    <2> USE DEF TypeOK, Q!QueueTypeOK
    <2>1. ASSUME NEW m \in Message, OnMessage(m) PROVE TypeOK'
      <3>1. Append(m_deq, m) \in Seq(Message) /\ Append(arrived, m) \in Seq(Message)
        OBVIOUS
      <3>2. m_deq' \in Seq(Message) /\ arrived' \in Seq(Message)
        BY <2>1, <3>1 DEF OnMessage, Q!PushBack
      <3>3. call' \in [{receiver} -> {"out", "entry", "waiting", "woken"}]
        BY <2>1, NotifyAllType DEF OnMessage, Q!PushBack
      <3>4. UNCHANGED <<setVars, ctlVars, lock, rpc, handled, q_running, got>>
        BY <2>1 DEF OnMessage, Q!PushBack
      <3> QED
        BY <3>2, <3>3, <3>4 DEF setVars, ctlVars
    <2>2. CASE Start
      BY <2>2 DEF Start, queueVars, setVars
    <2>3. CASE Register
      BY <2>3 DEF Register, queueVars, setVars
    <2>4. CASE StopBegin
      BY <2>4 DEF StopBegin, queueVars, setVars
    <2>5. CASE StopQueue
      <3>1. <<>> \in Seq(Message)
        OBVIOUS
      <3> QED
        BY <2>5, <3>1, NotifyAllType DEF StopQueue, Q!Stop, setVars
    <2>6. CASE StopThread \/ StopJoin
      BY <2>6 DEF StopThread, StopJoin, queueVars, setVars
    <2>7. CASE Swap
      <3>1. [res_index |-> m_res_index, anns |-> m_annset] \in [res_index : Index, anns : Seq(Ann)]
        OBVIOUS
      <3>2. <<>> \in Seq(Ann)
        OBVIOUS
      <3> QED
        BY <2>7, <3>1, <3>2 DEF Swap, queueVars, ctlVars
    <2>8. ASSUME NEW i \in Index, UpdateIndex(i) PROVE TypeOK'
      BY <2>8 DEF UpdateIndex, queueVars, ctlVars
    <2>9. CASE ThreadBegin
      BY <2>9 DEF ThreadBegin, queueVars, setVars, ctlVars
    <2>10. CASE Loop
      BY <2>10 DEF Loop, Q!CallGetFront, queueVars, setVars, ctlVars
    <2>11. CASE GetFront
      <3>1. m_deq # <<>> => Head(m_deq) \in Message /\ Tail(m_deq) \in Seq(Message)
        OBVIOUS
      <3>2. m_deq' \in Seq(Message)
        BY <2>11, <3>1 DEF GetFront, Q!GetFront
      <3>3. call' \in [{receiver} -> {"out", "entry", "waiting", "woken"}]
        BY <2>11 DEF GetFront, Q!GetFront
      <3>4. got' \in [{receiver} -> Message \cup {Null, None}]
        BY <2>11, <3>1 DEF GetFront, Q!GetFront
      <3>5. UNCHANGED <<setVars, ctlVars, lock, rpc, arrived, handled, q_running>>
        BY <2>11 DEF GetFront, Q!GetFront
      <3> QED
        BY <3>2, <3>3, <3>4, <3>5 DEF setVars, ctlVars
    <2>12. CASE HandleAnn
      <3>1. got[receiver] \in Ann /\ got[receiver] \in Message
        BY <2>12 DEF HandleAnn, Message
      <3>2. WithAnn(m_annset, got[receiver]) \in Seq(Ann)
        BY <3>1, WithAnnType
      <3>3. Append(handled, got[receiver]) \in Seq(Message)
        BY <3>1
      <3> QED
        BY <2>12, <3>2, <3>3 DEF HandleAnn, Finish, Q!Use, ctlVars
    <2>13. CASE HandleBlock \/ HandleGarbled
      <3>1. got[receiver] \in Message
        BY <2>13 DEF HandleBlock, HandleGarbled, Message
      <3>2. Append(handled, got[receiver]) \in Seq(Message)
        BY <3>1
      <3> QED
        BY <2>13, <3>2, ZenonT(30) DEF HandleBlock, HandleGarbled, Finish, Q!Use, ctlVars
    <2>14. CASE HandleNull
      BY <2>14 DEF HandleNull, Finish, Q!Use, ctlVars
    <2>15. CASE WakeSpuriously
      BY <2>15 DEF WakeSpuriously, Q!WakeFromWait, setVars, ctlVars
    <2>16. CASE UNCHANGED vars
      BY <2>16 DEF vars, queueVars, setVars, ctlVars
    <2> QED
      BY <2>1, <2>2, <2>3, <2>4, <2>5, <2>6, <2>7, <2>8, <2>9, <2>10, <2>11, <2>12,
         <2>13, <2>14, <2>15, <2>16 DEF Next, StopSteps, ReceiverThread
  <1> QED
    BY <1>1, <1>2, PTL DEF Spec

-----------------------------------------------------------------------------
(* Where the manager is tells where the thread may be: there is no thread  *)
(* before start, the callback is set from before the thread exists until   *)
(* after its join, and the thread holds a message only inside run_once.    *)
Phases ==
  /\ ctl = "created" <=> rpc = "none"
  /\ ctl = "stopped" => rpc = "exit"
  /\ ctl \notin {"created", "stopped"} => m_on_net_block
  /\ rpc # "run_once" => call[receiver] = "out" /\ got[receiver] = None
  /\ call[receiver] # "out" => got[receiver] = None

LEMMA PhasesInvariant == Spec => []Phases
  <1>1. Init => Phases
    BY DEF Init, Q!QueueInit, Phases
  <1>2. TypeOK /\ Phases /\ [Next]_vars => Phases'
    <2> SUFFICES ASSUME TypeOK, Phases, [Next]_vars PROVE Phases'
      OBVIOUS
    <2> USE DEF Phases
    <2>1. ASSUME NEW m \in Message, OnMessage(m) PROVE Phases'
      BY <2>1, NotifyAllType DEF OnMessage, Q!PushBack, setVars, ctlVars
    <2>2. CASE Start
      BY <2>2 DEF Start, queueVars
    <2>3. CASE Register
      BY <2>3 DEF Register, queueVars
    <2>4. CASE StopBegin
      BY <2>4 DEF StopBegin, queueVars
    <2>5. CASE StopQueue
      BY <2>5, NotifyAllType DEF StopQueue, Q!Stop
    <2>6. CASE StopThread
      BY <2>6 DEF StopThread, queueVars
    <2>7. CASE StopJoin
      BY <2>7 DEF StopJoin, queueVars
    <2>8. CASE Swap
      BY <2>8 DEF Swap, queueVars, ctlVars
    <2>9. ASSUME NEW i \in Index, UpdateIndex(i) PROVE Phases'
      BY <2>9 DEF UpdateIndex, queueVars, ctlVars
    <2>10. CASE ThreadBegin
      BY <2>10 DEF ThreadBegin, queueVars, ctlVars
    <2>11. CASE Loop
      BY <2>11 DEF Loop, Q!CallGetFront, queueVars, ctlVars, TypeOK, Q!QueueTypeOK
    <2>12. CASE GetFront
      BY <2>12 DEF GetFront, Q!GetFront, ctlVars, TypeOK, Q!QueueTypeOK
    <2>13. CASE HandleAnn \/ HandleBlock \/ HandleGarbled \/ HandleNull
      <3>1. /\ got[receiver] # None /\ got' = [got EXCEPT ![receiver] = None]
            /\ rpc' = "loop"
            /\ UNCHANGED <<ctlVars, call>>
        BY <2>13 DEF HandleAnn, HandleBlock, HandleGarbled, HandleNull, Finish, Q!Use
      <3> QED
        BY <3>1 DEF ctlVars, TypeOK, Q!QueueTypeOK
    <2>14. CASE WakeSpuriously
      BY <2>14 DEF WakeSpuriously, Q!WakeFromWait, ctlVars, TypeOK, Q!QueueTypeOK
    <2>15. CASE UNCHANGED vars
      BY <2>15 DEF vars, queueVars, ctlVars
    <2> QED
      BY <2>1, <2>2, <2>3, <2>4, <2>5, <2>6, <2>7, <2>8, <2>9, <2>10, <2>11, <2>12,
         <2>13, <2>14, <2>15 DEF Next, StopSteps, ReceiverThread
  <1> QED
    BY <1>1, <1>2, TypeCorrect, PTL DEF Spec

(* The callback is set whenever the receiver thread is about to call it,   *)
(* which it does without m_mutex.                                          *)
THEOREM CallbackAlwaysValid == Spec => []CallbackValid
  <1>1. Phases => CallbackValid
    BY DEF Phases, CallbackValid
  <1> QED
    BY <1>1, PhasesInvariant, PTL

(* After stop the thread has ended with nothing in hand, and nothing is    *)
(* handled or added any more.                                              *)
THEOREM StopSilences == Spec => SilentAfterStop
  <1> DEFINE Silent == ctl = "stopped" => handled' = handled /\ m_annset' \in {m_annset, <<>>}
  <1>1. Phases /\ [Next]_vars => [Silent]_vars
    <2> SUFFICES ASSUME Phases, Next, ctl = "stopped"
                 PROVE  handled' = handled /\ m_annset' \in {m_annset, <<>>}
      OBVIOUS
    <2>1. ~(HandleAnn \/ HandleBlock \/ HandleGarbled \/ HandleNull)
      BY DEF Phases, HandleAnn, HandleBlock, HandleGarbled, HandleNull, Finish, Q!Use
    <2>2. ASSUME NEW m \in Message, OnMessage(m)
          PROVE  UNCHANGED <<handled, m_annset>>
      BY <2>2 DEF OnMessage, setVars
    <2>3. CASE Start \/ Register \/ StopBegin \/ StopSteps
      BY <2>3 DEF Start, Register, StopBegin, StopSteps, StopQueue, StopThread, StopJoin, setVars
    <2>4. CASE Swap
      BY <2>4 DEF Swap
    <2>5. ASSUME NEW i \in Index, UpdateIndex(i)
          PROVE  UNCHANGED <<handled, m_annset>>
      BY <2>5 DEF UpdateIndex
    <2>6. CASE ThreadBegin \/ Loop \/ GetFront \/ WakeSpuriously
      BY <2>6 DEF ThreadBegin, Loop, GetFront, WakeSpuriously, setVars
    <2> QED
      BY <2>1, <2>2, <2>3, <2>4, <2>5, <2>6 DEF Next, ReceiverThread
  <1> QED
    BY <1>1, PhasesInvariant, PTL DEF Spec, SilentAfterStop

-----------------------------------------------------------------------------
(* Sequences.  What was put together from two parts begins with the first, *)
(* and goes on doing so when it gets longer at the end.                    *)
LEMMA PrefixOfConcat ==
  ASSUME NEW S, NEW s \in Seq(S), NEW t \in Seq(S)
  PROVE  IsPrefix(s, s \o t)
  <1>1. Len(s \o t) = Len(s) + Len(t)
    BY ConcatProperties
  <1>2. s \o t \in Seq(S)
    BY ConcatProperties
  <1>3. SubSeq(s, 1, Len(s)) = s
    BY SubSeqFull
  <1>4. SubSeq(s \o t, 1, Len(s)) = s
    <2>1. CASE Len(s) = 0
      BY <2>1, SubSeqEmpty, <1>3
    <2>2. CASE Len(s) # 0
      BY <2>2, <1>3, SubSeqOfConcat1
    <2> QED
      BY <2>1, <2>2
  <1> QED
    BY <1>1, <1>3, <1>4 DEF IsPrefix

(* The first of what is queued becomes what is in hand.                    *)
LEMMA TakeFirst ==
  ASSUME NEW S, NEW s \in Seq(S), NEW t \in Seq(S), t # <<>>
  PROVE  (s \o <<>>) \o t = (s \o <<Head(t)>>) \o Tail(t)
  <1>1. Head(t) \in S /\ Tail(t) \in Seq(S) /\ <<Head(t)>> \in Seq(S)
    BY HeadTailProperties
  <1>2. t = <<Head(t)>> \o Tail(t)
    BY <1>1
  <1>3. s \o <<>> = s
    BY ConcatEmptySeq
  <1> QED
    BY <1>1, <1>2, <1>3, ConcatAssociative

LEMMA InHandType ==
  ASSUME TypeOK
  PROVE  /\ InHand \in Seq(Message)
         /\ handled \o InHand \in Seq(Message)
         /\ (handled \o InHand) \o m_deq \in Seq(Message)
  <1>1. InHand \in Seq(Message)
    BY DEF InHand
  <1> QED
    BY <1>1, ConcatProperties DEF TypeOK, Q!QueueTypeOK

(* No message is lost, doubled or overtaken between on_message and the end *)
(* of run_once; only stop drops messages, those still queued.              *)
THEOREM OrderKept == Spec => []HandledInOrder
  <1>1. Init => HandledInOrder
    BY MessageAssumption DEF Init, Q!QueueInit, HandledInOrder, InHand
  <1>2. TypeOK /\ Phases /\ HandledInOrder /\ [Next]_vars => HandledInOrder'
    <2> SUFFICES ASSUME TypeOK, Phases, HandledInOrder, [Next]_vars PROVE HandledInOrder'
      OBVIOUS
    <2>1. ASSUME UNCHANGED <<m_deq, q_running, got, arrived, handled>>
          PROVE  HandledInOrder'
      BY <2>1 DEF HandledInOrder, InHand
    <2>2. ASSUME NEW m \in Message, OnMessage(m) PROVE HandledInOrder'
      <3>1. CASE q_running
        <4>1. /\ m_deq' = Append(m_deq, m) /\ arrived' = Append(arrived, m)
              /\ UNCHANGED <<q_running, handled, InHand>>
          BY <2>2, <3>1 DEF OnMessage, Q!PushBack, InHand
        <4>2. Append(m_deq, m) = m_deq \o <<m>> /\ Append(arrived, m) = arrived \o <<m>>
          BY AppendIsConcat DEF TypeOK, Q!QueueTypeOK
        <4>3. arrived = (handled \o InHand) \o m_deq
          BY <3>1 DEF HandledInOrder
        <4>4. ((handled \o InHand) \o m_deq) \o <<m>> = (handled \o InHand) \o (m_deq \o <<m>>)
          <5>1. <<m>> \in Seq(Message) /\ m_deq \in Seq(Message)
            BY DEF TypeOK, Q!QueueTypeOK
          <5> QED
            BY <5>1, InHandType, ConcatAssociative
        <4> QED
          BY <3>1, <4>1, <4>2, <4>3, <4>4 DEF HandledInOrder
      <3>2. CASE ~q_running
        BY <2>1, <2>2, <3>2 DEF OnMessage, Q!PushBack
      <3> QED
        BY <3>1, <3>2 DEF TypeOK, Q!QueueTypeOK
    <2>3. CASE Start \/ Register \/ StopBegin \/ StopThread \/ StopJoin
      BY <2>1, <2>3 DEF Start, Register, StopBegin, StopThread, StopJoin, queueVars
    <2>4. CASE StopQueue
      <3>1. CASE q_running
        <4>1. q_running' = FALSE /\ UNCHANGED <<arrived, handled, InHand>>
          BY <2>4, <3>1 DEF StopQueue, Q!Stop, InHand
        <4>2. IsPrefix(handled \o InHand, (handled \o InHand) \o m_deq)
          BY InHandType, PrefixOfConcat DEF TypeOK, Q!QueueTypeOK
        <4> QED
          BY <3>1, <4>1, <4>2 DEF HandledInOrder
      <3>2. CASE ~q_running
        BY <2>1, <2>4, <3>2 DEF StopQueue, Q!Stop
      <3> QED
        BY <3>1, <3>2 DEF TypeOK, Q!QueueTypeOK
    <2>5. CASE Swap
      BY <2>1, <2>5 DEF Swap, queueVars
    <2>6. ASSUME NEW i \in Index, UpdateIndex(i) PROVE HandledInOrder'
      BY <2>1, <2>6 DEF UpdateIndex, queueVars
    <2>7. CASE ThreadBegin \/ Loop \/ WakeSpuriously
      BY <2>1, <2>7 DEF ThreadBegin, Loop, WakeSpuriously, Q!WakeFromWait,
                        Q!CallGetFront, queueVars
    <2>8. CASE GetFront
      <3>1. got[receiver] = None /\ InHand = <<>>
        BY <2>8, MessageAssumption DEF GetFront, Q!GetFront, Phases, InHand
      <3>2. CASE ~q_running
        <4>1. got'[receiver] = Null /\ UNCHANGED <<m_deq, q_running, arrived, handled>>
          BY <2>8, <3>2 DEF GetFront, Q!GetFront, TypeOK, Q!QueueTypeOK
        <4>2. InHand' = InHand
          BY <3>1, <4>1, MessageAssumption DEF InHand
        <4> QED
          BY <3>2, <4>1, <4>2 DEF HandledInOrder
      <3>3. CASE q_running /\ m_deq = <<>>
        BY <2>1, <2>8, <3>3 DEF GetFront, Q!GetFront
      <3>4. CASE q_running /\ m_deq # <<>>
        <4>1. /\ got'[receiver] = Head(m_deq) /\ m_deq' = Tail(m_deq)
              /\ UNCHANGED <<q_running, arrived, handled>>
          BY <2>8, <3>4 DEF GetFront, Q!GetFront, TypeOK, Q!QueueTypeOK
        <4>2. InHand' = <<Head(m_deq)>>
          BY <3>4, <4>1, HeadTailProperties DEF InHand, TypeOK, Q!QueueTypeOK
        <4>3. (handled \o <<>>) \o m_deq = (handled \o <<Head(m_deq)>>) \o Tail(m_deq)
          BY <3>4, TakeFirst DEF TypeOK, Q!QueueTypeOK
        <4> QED
          BY <3>1, <3>4, <4>1, <4>2, <4>3 DEF HandledInOrder
      <3> QED
        BY <3>2, <3>3, <3>4 DEF TypeOK, Q!QueueTypeOK
    <2>9. CASE HandleAnn \/ HandleBlock \/ HandleGarbled
      <3>1. /\ got[receiver] \in Message /\ got'[receiver] = None
            /\ handled' = Append(handled, got[receiver])
            /\ UNCHANGED <<m_deq, q_running, arrived>>
        BY <2>9 DEF HandleAnn, HandleBlock, HandleGarbled, Finish, Q!Use, Message,
                    TypeOK, Q!QueueTypeOK
      <3>2. InHand = <<got[receiver]>> /\ InHand' = <<>>
        BY <3>1, MessageAssumption DEF InHand
      <3>3. handled' = handled \o InHand /\ handled' \in Seq(Message)
        BY <3>1, <3>2, AppendIsConcat, AppendProperties DEF TypeOK
      <3>4. handled' \o InHand' = handled \o InHand
        BY <3>2, <3>3, ConcatEmptySeq
      <3> QED
        BY <3>1, <3>4 DEF HandledInOrder
    <2>10. CASE HandleNull
      <3>1. InHand' = InHand /\ UNCHANGED <<m_deq, q_running, arrived, handled>>
        BY <2>10, MessageAssumption DEF HandleNull, Finish, Q!Use, InHand, TypeOK, Q!QueueTypeOK
      <3> QED
        BY <3>1 DEF HandledInOrder
    <2>11. CASE UNCHANGED vars
      BY <2>1, <2>11 DEF vars, queueVars
    <2> QED
      BY <2>2, <2>3, <2>4, <2>5, <2>6, <2>7, <2>8, <2>9, <2>10, <2>11
      DEF Next, StopSteps, ReceiverThread
  <1> QED
    BY <1>1, <1>2, TypeCorrect, PhasesInvariant, PTL DEF Spec
-----------------------------------------------------------------------------
(* push_back leaves what is in the set where it is, and afterwards the     *)
(* announcement is there, itself or the one it repeats.                    *)
LEMMA WithAnnKeeps ==
  ASSUME NEW anns \in Seq(Ann), NEW a \in Ann
  PROVE  /\ \A i \in DOMAIN anns : /\ i \in DOMAIN WithAnn(anns, a)
                                  /\ WithAnn(anns, a)[i] = anns[i]
         /\ \E i \in DOMAIN WithAnn(anns, a) : SameAnn(WithAnn(anns, a)[i], a)
  <1>1. CASE \E i \in DOMAIN anns : SameAnn(anns[i], a)
    BY <1>1 DEF WithAnn
  <1>2. CASE ~\E i \in DOMAIN anns : SameAnn(anns[i], a)
    <2>1. WithAnn(anns, a) = Append(anns, a)
      BY <1>2 DEF WithAnn
    <2>2. /\ DOMAIN Append(anns, a) = 1..(Len(anns) + 1)
          /\ Append(anns, a)[Len(anns) + 1] = a
          /\ \A i \in DOMAIN anns : Append(anns, a)[i] = anns[i]
      OBVIOUS
    <2>3. DOMAIN anns = 1..Len(anns) /\ Len(anns) \in Nat
      OBVIOUS
    <2>4. SameAnn(a, a)
      BY DEF SameAnn
    <2> QED
      BY <2>1, <2>2, <2>3, <2>4
  <1> QED
    BY <1>1, <1>2

(* No announcement is lost between the receiver thread and the manager: a  *)
(* handled one is in the current set or in one that swap gave away, in     *)
(* whatever order the threads add, swap and stop.                          *)
THEOREM NothingLost == Spec => []NoAnnLost
  <1> DEFINE Sets == {m_annset} \cup {s.anns : s \in handed}
             In(a, anns) == \E i \in DOMAIN anns : SameAnn(anns[i], a)
  <1>1. Init => NoAnnLost
    BY DEF Init, NoAnnLost
  <1>2. TypeOK /\ NoAnnLost /\ [Next]_vars => NoAnnLost'
    <2> SUFFICES ASSUME TypeOK, NoAnnLost, [Next]_vars PROVE NoAnnLost'
      OBVIOUS
    <2>1. ASSUME UNCHANGED <<handled, m_annset, handed>> PROVE NoAnnLost'
      BY <2>1 DEF NoAnnLost
    <2>2. ASSUME NEW m \in Message, OnMessage(m) PROVE NoAnnLost'
      BY <2>1, <2>2 DEF OnMessage, setVars
    <2>3. CASE Start \/ Register \/ StopBegin \/ StopSteps
      BY <2>1, <2>3 DEF Start, Register, StopBegin, StopSteps, StopQueue, StopThread,
                        StopJoin, setVars
    <2>4. CASE Swap
      <3>1. handled' = handled
        BY <2>4 DEF Swap
      <3> DEFINE given == [res_index |-> m_res_index, anns |-> m_annset]
      <3>2. handed' = handed \cup {given} /\ given.anns = m_annset
        BY <2>4 DEF Swap
      <3> HIDE DEF given
      <3>3. \A anns \in Sets : \E s \in handed' : s.anns = anns
        BY <3>2
      <3> QED
        BY <3>1, <3>3 DEF NoAnnLost
    <2>5. ASSUME NEW i \in Index, UpdateIndex(i) PROVE NoAnnLost'
      BY <2>1, <2>5 DEF UpdateIndex
    <2>6. CASE ThreadBegin \/ Loop \/ GetFront \/ HandleNull \/ WakeSpuriously
      BY <2>1, <2>6 DEF ThreadBegin, Loop, GetFront, HandleNull, WakeSpuriously, Finish, setVars
    <2>7. ASSUME NEW m \in Message, handled' = Append(handled, m)
          PROVE  /\ DOMAIN handled' = DOMAIN handled \cup {Len(handled) + 1}
                 /\ \A k \in DOMAIN handled : handled'[k] = handled[k]
                 /\ handled'[Len(handled) + 1] = m
      <3>1. handled \in Seq(Message)
        BY DEF TypeOK
      <3>2. /\ DOMAIN handled = 1..Len(handled) /\ Len(handled) \in Nat
            /\ DOMAIN Append(handled, m) = 1..(Len(handled) + 1)
        BY <3>1
      <3>3. /\ \A k \in 1..Len(handled) : Append(handled, m)[k] = handled[k]
            /\ Append(handled, m)[Len(handled) + 1] = m
        BY <3>1
      <3> QED
        BY <2>7, <3>2, <3>3
    <2>8. CASE HandleAnn
      <3> DEFINE a == got[receiver]
      <3>1. /\ a \in Ann /\ m_annset' = WithAnn(m_annset, a)
            /\ handled' = Append(handled, a) /\ handed' = handed
        BY <2>8 DEF HandleAnn, Finish
      <3>2. In(a, m_annset') /\ \A b \in Ann : In(b, m_annset) => In(b, m_annset')
        BY <3>1, WithAnnKeeps DEF TypeOK
      <3>3. \A b \in Ann : (\E anns \in Sets : In(b, anns)) => \E anns \in Sets' : In(b, anns)
        BY <3>1, <3>2
      <3>4. \E anns \in Sets' : In(a, anns)
        BY <3>2
      <3>5. ASSUME NEW k \in DOMAIN handled', handled'[k] \in Ann
            PROVE  \E anns \in Sets' : In(handled'[k], anns)
        BY <2>7, <3>1, <3>3, <3>4, <3>5 DEF NoAnnLost, Message
      <3> QED
        BY <3>5 DEF NoAnnLost
    <2>9. CASE HandleBlock \/ HandleGarbled
      <3>1. /\ got[receiver] \in Message \ Ann
            /\ handled' = Append(handled, got[receiver])
            /\ UNCHANGED <<m_annset, handed>>
        BY <2>9, MessageAssumption DEF HandleBlock, HandleGarbled, Finish, Message
      <3> QED
        BY <2>7, <3>1 DEF NoAnnLost
    <2>10. CASE UNCHANGED vars
      BY <2>1, <2>10 DEF vars, setVars
    <2> QED
      BY <2>2, <2>3, <2>4, <2>5, <2>6, <2>8, <2>9, <2>10 DEF Next, ReceiverThread
  <1> QED
    BY <1>1, <1>2, TypeCorrect, PTL DEF Spec

(* No set holds two announcements of one account for one index, the        *)
(* current set or any that was handed out, however often the network       *)
(* repeats them.  (What was handed out is forgotten: a repetition that     *)
(* comes after the swap is in the next set as well.)                       *)
THEOREM NoneTwice == Spec => []AnnsDistinct
  <1>1. Init => AnnsDistinct
    BY DEF Init, AnnsDistinct, Distinct
  <1>2. TypeOK /\ AnnsDistinct /\ [Next]_vars => AnnsDistinct'
    <2> SUFFICES ASSUME TypeOK, AnnsDistinct, [Next]_vars PROVE AnnsDistinct'
      OBVIOUS
    <2>0. Distinct(m_annset) /\ \A s \in handed : Distinct(s.anns)
      BY DEF AnnsDistinct
    <2>1. ASSUME m_annset' = m_annset, handed' = handed PROVE AnnsDistinct'
      BY <2>0, <2>1 DEF AnnsDistinct
    <2>2. CASE HandleAnn
      <3> DEFINE a == got[receiver]
      <3>1. /\ a \in Ann /\ m_annset' = WithAnn(m_annset, a) /\ m_annset \in Seq(Ann)
            /\ handed' = handed
        BY <2>2 DEF HandleAnn, Finish, TypeOK
      <3>2. CASE \E i \in DOMAIN m_annset : SameAnn(m_annset[i], a)
        BY <2>1, <3>1, <3>2 DEF WithAnn
      <3>3. CASE ~\E i \in DOMAIN m_annset : SameAnn(m_annset[i], a)
        <4>1. m_annset' = Append(m_annset, a)
          BY <3>1, <3>3 DEF WithAnn
        <4>2. /\ DOMAIN m_annset = 1..Len(m_annset) /\ Len(m_annset) \in Nat
              /\ DOMAIN m_annset' = 1..(Len(m_annset) + 1)
              /\ m_annset'[Len(m_annset) + 1] = a
              /\ \A i \in DOMAIN m_annset : m_annset'[i] = m_annset[i]
          BY <3>1, <4>1
        <4>3. Distinct(m_annset')
          BY <2>0, <3>3, <4>2 DEF Distinct, SameAnn
        <4> QED
          BY <2>0, <3>1, <4>3 DEF AnnsDistinct
      <3> QED
        BY <3>2, <3>3
    <2>3. CASE Swap
      <3> DEFINE given == [res_index |-> m_res_index, anns |-> m_annset]
      <3>1. handed' = handed \cup {given} /\ given.anns = m_annset /\ m_annset' = <<>>
        BY <2>3 DEF Swap
      <3> HIDE DEF given
      <3>2. Distinct(m_annset')
        BY <3>1 DEF Distinct
      <3> QED
        BY <2>0, <3>1, <3>2 DEF AnnsDistinct
    <2>4. ASSUME NEW m \in Message, OnMessage(m) PROVE AnnsDistinct'
      BY <2>1, <2>4 DEF OnMessage, setVars
    <2>5. CASE Start \/ Register \/ StopBegin \/ StopSteps
      BY <2>1, <2>5 DEF Start, Register, StopBegin, StopSteps, StopQueue, StopThread,
                        StopJoin, setVars
    <2>6. ASSUME NEW i \in Index, UpdateIndex(i) PROVE AnnsDistinct'
      BY <2>1, <2>6 DEF UpdateIndex
    <2>7. CASE ThreadBegin \/ Loop \/ GetFront \/ WakeSpuriously
      BY <2>1, <2>7 DEF ThreadBegin, Loop, GetFront, WakeSpuriously, setVars
    <2>8. CASE HandleBlock \/ HandleGarbled \/ HandleNull
      BY <2>1, <2>8 DEF HandleBlock, HandleGarbled, HandleNull, Finish
    <2>9. CASE UNCHANGED vars
      BY <2>1, <2>9 DEF vars, setVars
    <2> QED
      BY <2>2, <2>3, <2>4, <2>5, <2>6, <2>7, <2>8, <2>9 DEF Next, ReceiverThread
  <1> QED
    BY <1>1, <1>2, TypeCorrect, PTL DEF Spec

-----------------------------------------------------------------------------
(* While the queue runs, what waits in it arrived and was not handled.     *)
LEMMA QueueWithinArrived ==
  ASSUME TypeOK, HandledInOrder, q_running
  PROVE  Len(m_deq) <= Len(arrived)
  <1>1. arrived = (handled \o InHand) \o m_deq
    BY DEF HandledInOrder
  <1>2. handled \o InHand \in Seq(Message) /\ m_deq \in Seq(Message)
    BY InHandType DEF TypeOK, Q!QueueTypeOK
  <1>3. Len(arrived) = Len(handled \o InHand) + Len(m_deq)
    BY <1>1, <1>2, ConcatProperties
  <1> QED
    BY <1>2, <1>3

(* The receiver uses its queue as the queue expects: every step of the     *)
(* dispatcher, the manager and the receiver thread is a step of            *)
(* xqueue_condv or leaves it alone, so what is proved of the queue holds   *)
(* inside the receiver.                                                    *)
THEOREM ReceiverUsesQueue == Spec => Q!QueueInit /\ [][Q!QueueNext]_(Q!queue_vars)
  <1>1. Init => Q!QueueInit
    BY DEF Init
  <1>2. TypeOK /\ HandledInOrder /\ [Next]_vars => [Q!QueueNext]_(Q!queue_vars)
    <2> SUFFICES ASSUME TypeOK, HandledInOrder, [Next]_vars
                 PROVE  Q!QueueNext \/ UNCHANGED Q!queue_vars
      OBVIOUS
    <2>1. ASSUME NEW m \in Message, OnMessage(m), q_running => Len(arrived) < MaxArrived
          PROVE  Q!QueueNext \/ UNCHANGED Q!queue_vars
      <3>1. CASE q_running
        <4>1. Len(m_deq) < MaxArrived
          <5>1. Len(m_deq) \in Nat /\ Len(arrived) \in Nat
            BY DEF TypeOK, Q!QueueTypeOK
          <5> QED
            BY <2>1, <3>1, <5>1, QueueWithinArrived, MessageAssumption
        <4>2. Q!PushBack(m)
          BY <2>1 DEF OnMessage
        <4> QED
          BY <4>1, <4>2 DEF Q!QueueNext
      <3>2. CASE ~q_running
        BY <2>1, <3>2 DEF OnMessage, Q!PushBack, Q!queue_vars
      <3> QED
        BY <3>1, <3>2
    <2>2. CASE StopQueue
      BY <2>2 DEF StopQueue, Q!QueueNext
    <2>3. CASE Loop
      BY <2>3 DEF Loop, queueVars, Q!queue_vars, Q!QueueNext, Q!ConsumerNext
    <2>4. CASE GetFront
      BY <2>4 DEF GetFront, Q!QueueNext, Q!ConsumerNext
    <2>5. CASE HandleAnn \/ HandleBlock \/ HandleGarbled \/ HandleNull
      BY <2>5 DEF HandleAnn, HandleBlock, HandleGarbled, HandleNull, Finish, Q!QueueNext,
                  Q!ConsumerNext
    <2>6. CASE WakeSpuriously
      BY <2>6 DEF WakeSpuriously, Q!QueueNext, Q!ConsumerNext
    <2>7. CASE \/ Start \/ Register \/ StopBegin \/ StopThread \/ StopJoin
               \/ Swap \/ ThreadBegin \/ UNCHANGED vars
      BY <2>7 DEF Start, Register, StopBegin, StopThread, StopJoin, Swap, ThreadBegin,
                  vars, queueVars, Q!queue_vars
    <2>8. ASSUME NEW i \in Index, UpdateIndex(i) PROVE UNCHANGED Q!queue_vars
      BY <2>8 DEF UpdateIndex, queueVars, Q!queue_vars
    <2> QED
      BY <2>1, <2>2, <2>3, <2>4, <2>5, <2>6, <2>7, <2>8 DEF Next, StopSteps, ReceiverThread
  <1> QED
    BY <1>1, <1>2, TypeCorrect, OrderKept, PTL DEF Spec
=============================================================================
