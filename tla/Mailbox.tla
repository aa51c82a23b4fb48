------------------------------ MODULE Mailbox ------------------------------
(***************************************************************************)
(* What a closable queue shared by threads promises: items are taken in    *)
(* the order they were put, each by one thread; a closed box is empty,     *)
(* refuses items and answers Null; and nobody asks forever while there is  *)
(* an answer.                                                              *)
(***************************************************************************)
EXTENDS Integers, Sequences

CONSTANTS Item,      \* what is put into the box
          Consumer,  \* the threads that take
          Null,      \* the answer of a closed box
          None       \* no answer yet, or the last one is used up

VARIABLES box,     \* items put and not yet taken
          open,    \* whether the box still takes and gives items
          asking,  \* which consumers wait for an answer
          got      \* the answer a consumer has and has not used up

vars == <<box, open, asking, got>>

Init ==
  /\ box = <<>>
  /\ open = TRUE
  /\ asking = [c \in Consumer |-> FALSE]
  /\ got = [c \in Consumer |-> None]

Put(t) ==
  /\ open
  /\ box' = Append(box, t)
  /\ UNCHANGED <<open, asking, got>>

Close ==
  /\ open
  /\ open' = FALSE
  /\ box' = <<>>
  /\ UNCHANGED <<asking, got>>

Ask(c) ==
  /\ ~asking[c] /\ got[c] = None
  /\ asking' = [asking EXCEPT ![c] = TRUE]
  /\ UNCHANGED <<box, open, got>>

Answer(c) ==
  /\ asking[c]
  /\ \/ /\ open /\ box # <<>>
        /\ got' = [got EXCEPT ![c] = Head(box)]
        /\ box' = Tail(box)
     \/ /\ ~open
        /\ got' = [got EXCEPT ![c] = Null]
        /\ UNCHANGED box
  /\ asking' = [asking EXCEPT ![c] = FALSE]
  /\ UNCHANGED open

Use(c) ==
  /\ got[c] # None
  /\ got' = [got EXCEPT ![c] = None]
  /\ UNCHANGED <<box, open, asking>>

Next ==
  \/ \E t \in Item : Put(t)
  \/ Close
  \/ \E c \in Consumer : Ask(c) \/ Answer(c) \/ Use(c)

SafeSpec == Init /\ [][Next]_vars

(* Somebody is answered whenever an answer is there *)
Spec == SafeSpec /\ WF_vars(\E c \in Consumer : Answer(c))
=============================================================================
