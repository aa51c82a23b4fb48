------------------------------- MODULE EvAsync -------------------------------
(***************************************************************************)
(* How libev's loop learns of signals and of ev_async_send from other      *)
(* threads: evpipe_write, pipecb, ev_sighandler, ev_async_send, the part   *)
(* of loop_fork that makes a new pipe, and the start and stop of signal    *)
(* and async watchers, one for each signal (net/libev-3.7/ev.c).  There is *)
(* one loop, the default loop: gotsig and the marks of signals belong to   *)
(* the process, and another loop's loop_fork raises them too.              *)
(*                                                                         *)
(* The threads share plain volatile words without a fence: one word for    *)
(* each watched signal (gotsig) or async watcher (sent), and one flag for  *)
(* all of a kind, so every load and store is an action.  A store may stay  *)
(* in the buffer of its thread for a while before the others see it, as on *)
(* x86.  System calls empty the buffer.                                    *)
(***************************************************************************)
EXTENDS Naturals, Sequences, FiniteSets

CONSTANTS Sig, Async,    \* watchers: of a signal each, and async
          Sender,        \* threads (or signal handlers)
          EventFd,       \* the pipe is an eventfd
          MaxSends,      \* bound of the model: sends altogether
          MaxChanges     \* bound of the model: calls of loop_fork, and watchers stopped

Item == Sig \cup Async
Flag == {"gotsig", "gotasync"}
FlagOf(i) == IF i \in Sig THEN "gotsig" ELSE "gotasync"
loop == "loop"
Thread == Sender \cup {loop}

(* What is asked of the constants *)
AsyncAssumption ==
  /\ Sig \cap Async = {} /\ Item \cap Flag = {} /\ loop \notin Sender
  /\ EventFd \in BOOLEAN

VARIABLES mem,     \* the shared words
          buf,     \* stores a thread has made and memory has not
          pipe,    \* bytes in the pipe, or the eventfd's counter
          open,    \* the pipe exists (not between close and evpipe_init)
          pc,      \* what a sender does next
          item,    \* what it sends
          lat,     \* what the loop does next
          scan,    \* items the loop has yet to look at
          found,   \* the item it found marked
          fed,     \* watchers made pending
          active,  \* watchers that are started
          owed,    \* history: items sent and not yet answered by a callback
          crossed, \* history: items one side looked at while a store of the other
                   \* to the same word was still in its buffer
          sends, changes

async_vars == <<mem, buf, pipe, open, pc, item, lat, scan, found, fed, active, owed,
          crossed, sends, changes>>
senders == <<pc, item, sends>>
loopvars == <<lat, scan, found, fed, active, changes>>

AsyncInit ==
  /\ mem = [l \in Item \cup Flag |-> 0]
  /\ buf = [t \in Thread |-> <<>>]
  /\ pipe = 0 /\ open = TRUE
  /\ pc = [s \in Sender |-> "out"] /\ item \in [Sender -> Item]
  /\ lat = "poll" /\ scan = {} /\ found = {} /\ fed = {}
  /\ owed = {} /\ crossed = {}
  /\ active = Item
  /\ sends = 0 /\ changes = 0

Store(t, l, v) == buf' = [buf EXCEPT ![t] = Append(@, <<l, v>>)] /\ UNCHANGED mem

\* A thread sees its own last store, else memory.
Load(t, l) ==
  LET own == {k \in DOMAIN buf[t] : buf[t][k][1] = l}
  IN  IF own = {} THEN mem[l] ELSE buf[t][CHOOSE k \in own : \A j \in own : j <= k][2]

Buffered(t, l) == \E k \in DOMAIN buf[t] : buf[t][k][1] = l

Drain(t) ==
  /\ buf[t] # <<>>
  /\ mem' = [mem EXCEPT ![Head(buf[t])[1]] = Head(buf[t])[2]]
  /\ buf' = [buf EXCEPT ![t] = Tail(@)]
  /\ UNCHANGED <<pipe, open, senders, loopvars, owed, crossed>>

-----------------------------------------------------------------------------
(* ev_async_send and ev_sighandler: the item is marked.  A signal without  *)
(* a watcher has its default action; an async watcher may be sent to when  *)
(* it is not started.                                                      *)
Send(s) ==
  /\ pc[s] = "out" /\ sends < MaxSends
  /\ \E i \in active \cup Async :
       /\ item' = [item EXCEPT ![s] = i]
       /\ Store(s, i, 1)
       /\ owed' = owed \cup ({i} \cap active)
       /\ crossed' = IF Buffered(loop, i) THEN crossed \cup {i} ELSE crossed
  /\ pc' = [pc EXCEPT ![s] = "test"]
  /\ sends' = sends + 1
  /\ UNCHANGED <<pipe, open, loopvars>>

(* ... evpipe_write: nothing to do if the flag is up, else it is raised ... *)
TestFlag(s) ==
  /\ pc[s] = "test"
  /\ LET f == FlagOf(item[s])
     IN  IF Load(s, f) = 1
           THEN /\ pc' = [pc EXCEPT ![s] = "out"]
                /\ crossed' = IF Buffered(loop, f) THEN crossed \cup {item[s]} ELSE crossed
           ELSE pc' = [pc EXCEPT ![s] = "raise"] /\ UNCHANGED crossed
  /\ UNCHANGED <<mem, buf, pipe, open, item, sends, loopvars, owed>>

RaiseFlag(s) ==
  /\ pc[s] = "raise"
  /\ Store(s, FlagOf(item[s]), 1)
  /\ pc' = [pc EXCEPT ![s] = "write"]
  /\ UNCHANGED <<pipe, open, item, sends, loopvars, owed, crossed>>

(* ... and the loop is woken *)
WritePipe(s) ==
  /\ pc[s] = "write" /\ buf[s] = <<>>
  /\ pipe' = IF open THEN pipe + 1 ELSE pipe
  /\ pc' = [pc EXCEPT ![s] = "out"]
  /\ UNCHANGED <<mem, buf, open, item, sends, loopvars, owed, crossed>>

-----------------------------------------------------------------------------
(* The backend reports the pipe, and pipecb is called                      *)
Poll ==
  /\ lat = "poll" /\ pipe > 0
  /\ lat' = "read"
  /\ UNCHANGED <<mem, buf, pipe, open, senders, scan, found, fed, active, changes, owed, crossed>>

(* loop_fork (an iteration in which postfork is set): "this locks the      *)
(* handlers against writing to the pipe", one flag after the other, ...    *)
Lock ==
  /\ \/ lat = "poll" /\ changes < MaxChanges /\ Store(loop, "gotsig", 1)
        /\ lat' = "lock" /\ changes' = changes + 1
     \/ lat = "lock" /\ Store(loop, "gotasync", 1)
        /\ lat' = "close" /\ UNCHANGED changes
  /\ UNCHANGED <<pipe, open, senders, scan, found, fed, active, owed, crossed>>

(* ... the pipe is closed and a new one made, and pipecb is called *)
Reopen ==
  /\ lat \in {"close", "init"} /\ buf[loop] = <<>>
  /\ pipe' = 0
  /\ open' = (lat = "init")
  /\ lat' = IF lat = "close" THEN "init" ELSE "read"
  /\ UNCHANGED <<mem, buf, senders, scan, found, fed, active, changes, owed, crossed>>

(* pipecb: the read, which does not block *)
Read ==
  /\ lat = "read" /\ buf[loop] = <<>>
  /\ pipe' = IF EventFd \/ pipe = 0 THEN 0 ELSE pipe - 1
  /\ lat' = "gotsig"
  /\ UNCHANGED <<mem, buf, open, senders, scan, found, fed, active, changes, owed, crossed>>

\* A variant that takes both flags down when it finds the first one up.
LowerBoth ==
  /\ lat \in Flag
  /\ IF Load(loop, lat) = 1
       THEN /\ buf' = [buf EXCEPT ![loop] = @ \o <<<<"gotsig", 0>>, <<"gotasync", 0>>>>]
            /\ scan' = {i \in Sig \cup active : FlagOf(i) = lat}
            /\ lat' = IF lat = "gotsig" THEN "gotsig_scan" ELSE "gotasync_scan"
       ELSE /\ lat' = IF lat = "gotsig" THEN "gotasync" ELSE "invoke"
            /\ UNCHANGED <<buf, scan>>
  /\ UNCHANGED <<mem, pipe, open, senders, found, fed, active, changes, owed, crossed>>

(* pipecb: is the flag of this kind up? then it is lowered, and ... (Of    *)
(* signals only in the default loop, which the loop here is.)              *)
Lower ==
  /\ lat \in Flag
  /\ IF Load(loop, lat) = 1
       THEN /\ Store(loop, lat, 0)
            /\ scan' = {i \in Sig \cup active : FlagOf(i) = lat}
            /\ lat' = IF lat = "gotsig" THEN "gotsig_scan" ELSE "gotasync_scan"
       ELSE /\ lat' = IF lat = "gotsig" THEN "gotasync" ELSE "invoke"
            /\ UNCHANGED <<mem, buf, scan>>
  /\ UNCHANGED <<pipe, open, senders, found, fed, active, changes, owed, crossed>>

(* ... each item is looked at, of the async watchers those that are        *)
(* started; if it is marked, ...  (In which order the array is walked      *)
(* makes no difference here.)                                              *)
Scan ==
  /\ lat \in {"gotsig_scan", "gotasync_scan"}
  /\ IF scan # {}
       THEN \E i \in scan :
              /\ scan' = scan \ {i}
              /\ IF Load(loop, i) = 1
                   THEN found' = {i} /\ lat' = IF i \in Sig THEN "sig_found" ELSE "async_found"
                   ELSE UNCHANGED <<found, lat>>
              /\ crossed' = IF Load(loop, i) = 0 /\ \E s \in Sender : Buffered(s, i)
                             THEN crossed \cup {i} ELSE crossed
       ELSE /\ lat' = IF lat = "gotsig_scan" THEN "gotasync" ELSE "invoke"
            /\ UNCHANGED <<scan, found, crossed>>
  /\ UNCHANGED <<mem, buf, pipe, open, senders, fed, active, changes, owed>>

(* ... the mark is removed and the watcher fed.  A send in between is      *)
(* answered by the same callback.                                          *)
Feed ==
  /\ lat \in {"sig_found", "async_found"}
  /\ \E i \in found : Store(loop, i, 0)
  /\ fed' = fed \cup (found \cap active)
  /\ found' = {}
  /\ lat' = IF lat = "sig_found" THEN "gotsig_scan" ELSE "gotasync_scan"
  /\ UNCHANGED <<pipe, open, senders, scan, active, changes, owed, crossed>>

(* ev_invoke_pending, and back to the poll *)
Invoke ==
  /\ lat = "invoke"
  /\ IF fed # {}
       THEN /\ \E i \in fed : fed' = fed \ {i} /\ owed' = owed \ {i} /\ crossed' = crossed \ {i}
            /\ UNCHANGED lat
       ELSE lat' = "poll" /\ UNCHANGED <<fed, owed, crossed>>
  /\ UNCHANGED <<mem, buf, pipe, open, senders, scan, found, active, changes>>

(* ev_signal_start, ev_async_start, ev_signal_stop and ev_async_stop in a  *)
(* callback.  A mark that is there stays there.                            *)
Start(i) ==
  /\ lat = "invoke" /\ i \notin active
  /\ active' = active \cup {i}
  /\ UNCHANGED <<mem, buf, pipe, open, senders, lat, scan, found, fed, changes, owed, crossed>>
Stop(i) ==
  /\ lat = "invoke" /\ i \in active /\ changes < MaxChanges
  /\ active' = active \ {i} /\ fed' = fed \ {i} /\ changes' = changes + 1
  /\ owed' = owed \ {i}
  /\ UNCHANGED <<mem, buf, pipe, open, senders, lat, scan, found, crossed>>
SignalStart(i) == i \in Sig /\ Start(i)
SignalStop(i) == i \in Sig /\ Stop(i)
AsyncStart(i) == i \in Async /\ Start(i)
AsyncStop(i) == i \in Async /\ Stop(i)

SenderStep(s) == TestFlag(s) \/ RaiseFlag(s) \/ WritePipe(s)
LoopStep ==
  \/ Poll \/ Reopen \/ Read \/ Lower \/ Scan \/ Feed \/ Invoke
  \/ \E i \in Item : SignalStart(i) \/ SignalStop(i) \/ AsyncStart(i) \/ AsyncStop(i)

AsyncNext ==
  \/ \E s \in Sender : Send(s) \/ SenderStep(s)
  \/ LoopStep
  \/ Lock
  \/ \E t \in Thread : Drain(t)

AsyncSpec == AsyncInit /\ [][AsyncNext]_async_vars

-----------------------------------------------------------------------------
(* Nobody is on the way to wake the loop, and it is about to sleep.        *)
Asleep == lat = "poll" /\ pipe = 0 /\ (\A s \in Sender : pc[s] = "out")
            /\ (\A t \in Thread : buf[t] = <<>>)

(* What the manual says of ev_async_send and of signals: the loop does not *)
(* sleep on something that was sent.                                       *)
NothingForgotten == Asleep => owed = {}

(* It does not though the loop lowers the flag while senders look at it,   *)
(* handlers write to a closed pipe, the pipe is made anew, and watchers    *)
(* are stopped and started between a mark and the look at it; unless one   *)
(* side looked while the store of the other was on its way.                *)
ForgottenOnlyIfCrossed == Asleep => owed \subseteq crossed
=============================================================================
