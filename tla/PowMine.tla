------------------------------- MODULE PowMine -------------------------------
(***************************************************************************)
(* Proof-of-work mining: POW::PoWMine, MineLight, MineFull, MineFullGPU    *)
(* with its threads, and StopMining (consensus/pow.h and pow.cpp).         *)
(*                                                                         *)
(* PoWMine runs under m_mutexPoWMine, so there is one job at a time and    *)
(* jobs are counted by job.  StopMining takes no mutex and may be called   *)
(* at any time.  A hash is abstracted to whether it meets the difficulty,  *)
(* a solution to the job it was found for.  PowLight has the light client  *)
(* the hashes are computed with.                                           *)
(***************************************************************************)
EXTENDS Integers, FiniteSets

CONSTANTS N,         \* m_miners.size()
          GPU_MINE,  \* OPENCL_GPU_MINE || CUDA_GPU_MINE
          MaxJobs    \* bound of the model: calls of PoWMine

ASSUME MinersAssumption == N \in Nat
ASSUME ModeAssumption == GPU_MINE \in BOOLEAN

VARIABLES
  at,                 \* where the call of PoWMine that holds the mutex is
  job,                \* the number of that call
  answer,             \* what the last call returned
  m_shouldMine,
  m_minerIndex,
  m_vecMiningResult,
  tpc,                \* where the threads of MineFullGPU are
  index,              \* their local variables
  pending,            \* what they are about to store
  found               \* history: some hash met the difficulty in this call

threads == <<tpc, index, pending>>
vars == <<at, job, answer, m_shouldMine, m_minerIndex, m_vecMiningResult,
          tpc, index, pending, found>>

Thread == 0 .. N - 1

Success(j) == [success |-> TRUE, job |-> j]
Failure == [success |-> FALSE, job |-> 0]
Torn == [success |-> TRUE, job |-> -1]  \* two threads wrote it at once
Result == [success : BOOLEAN, job : Int]

Running == {"load", "bump", "loop", "mine", "store"}

Init ==
  /\ at = "out"
  /\ job = 0
  /\ answer = Failure
  /\ m_shouldMine = FALSE
  /\ m_minerIndex = 0
  /\ m_vecMiningResult = [i \in Thread |-> Failure]
  /\ tpc = [t \in Thread |-> "none"]
  /\ index = [t \in Thread |-> 0]
  /\ pending = [t \in Thread |-> Failure]
  /\ found = FALSE

-----------------------------------------------------------------------------
(* PoWMine has the mutex and prepares the hash *)
PoWMine ==
  /\ at = "out" /\ job < MaxJobs
  /\ at' = "prepare"
  /\ job' = job + 1
  /\ found' = FALSE
  /\ UNCHANGED <<answer, m_shouldMine, m_minerIndex, m_vecMiningResult, threads>>

(* m_shouldMine = true, and on to the GPUs or to the loop on the CPU *)
StartMining ==
  /\ at = "prepare"
  /\ m_shouldMine' = TRUE
  /\ \E fullDataset \in BOOLEAN :
       at' = IF fullDataset /\ GPU_MINE THEN "spawn" ELSE "mine"
  /\ UNCHANGED <<job, answer, m_minerIndex, m_vecMiningResult, threads, found>>

\* A variant: the same call starts and stops.
StopMiningToggles ==
  /\ m_shouldMine' = ~m_shouldMine
  /\ UNCHANGED <<at, job, answer, m_minerIndex, m_vecMiningResult, threads, found>>

(* At any time, from any thread, without a mutex *)
StopMining ==
  /\ m_shouldMine' = FALSE
  /\ UNCHANGED <<at, job, answer, m_minerIndex, m_vecMiningResult, threads, found>>

(* PoWMine returns and gives the mutex back *)
Return(r) ==
  /\ at' = "out"
  /\ answer' = r
  /\ UNCHANGED <<job, m_shouldMine, m_minerIndex, m_vecMiningResult, threads>>

-----------------------------------------------------------------------------
(* MineLight, MineFull: the hash of one nonce meets the difficulty *)
CpuFinds ==
  /\ at = "mine" /\ m_shouldMine
  /\ found' = TRUE
  /\ Return(Success(job))

(* MineLight, MineFull: the loop ends without a solution *)
CpuGivesUp ==
  /\ at = "mine" /\ ~m_shouldMine
  /\ UNCHANGED found
  /\ Return(Failure)

-----------------------------------------------------------------------------
\* Variants of MineFullGPU with a slip of the kind this code invites.
SpawnKeepsIndex ==
  /\ at = "spawn"
  /\ m_vecMiningResult' = [i \in Thread |-> Failure]
  /\ tpc' = [t \in Thread |-> "load"]
  /\ at' = "sleep"
  /\ UNCHANGED <<job, answer, m_shouldMine, m_minerIndex, index, pending, found>>

SpawnKeepsResults ==
  /\ at = "spawn"
  /\ m_minerIndex' = 0
  /\ tpc' = [t \in Thread |-> "load"]
  /\ at' = "sleep"
  /\ UNCHANGED <<job, answer, m_shouldMine, m_vecMiningResult, index, pending, found>>

(* MineFullGPU: index and results are cleared and the threads are made.    *)
(* One that is not made yet is one that has not been scheduled yet.        *)
Spawn ==
  /\ at = "spawn"
  /\ m_minerIndex' = 0
  /\ m_vecMiningResult' = [i \in Thread |-> Failure]
  /\ tpc' = [t \in Thread |-> "load"]
  /\ at' = "sleep"
  /\ UNCHANGED <<job, answer, m_shouldMine, index, pending, found>>

(* The 5 ms are over; lock, and wait without a predicate *)
Wait ==
  /\ at = "sleep"
  /\ at' = "wait"
  /\ UNCHANGED <<job, answer, m_shouldMine, m_minerIndex, m_vecMiningResult, threads, found>>

(* wait returns on a notification, or spuriously: m_shouldMine = false *)
Woken ==
  /\ at = "woken"
  /\ m_shouldMine' = FALSE
  /\ at' = "join"
  /\ UNCHANGED <<job, answer, m_minerIndex, m_vecMiningResult, threads, found>>

WakeSpuriously ==
  /\ at = "wait"
  /\ at' = "woken"
  /\ UNCHANGED <<job, answer, m_shouldMine, m_minerIndex, m_vecMiningResult, threads, found>>

\* Variants: the threads are left alone; only the first result is looked at.
CollectNoJoin ==
  /\ at = "join"
  /\ UNCHANGED found
  /\ \/ \E i \in Thread : m_vecMiningResult[i].success /\ Return(m_vecMiningResult[i])
     \/ (\A i \in Thread : ~m_vecMiningResult[i].success) /\ Return(Failure)

CollectFirst ==
  /\ at = "join"
  /\ \A t \in Thread : tpc[t] \notin Running
  /\ UNCHANGED found
  /\ Return(IF N > 0 THEN m_vecMiningResult[0] ELSE Failure)

(* All threads are joined; the first success is returned, or a failure *)
Collect ==
  /\ at = "join"
  /\ \A t \in Thread : tpc[t] \notin Running
  /\ UNCHANGED found
  /\ \/ \E i \in Thread :
          /\ m_vecMiningResult[i].success
          /\ \A k \in 0 .. i - 1 : ~m_vecMiningResult[k].success
          /\ Return(m_vecMiningResult[i])
     \/ /\ \A i \in Thread : ~m_vecMiningResult[i].success
        /\ Return(Failure)

-----------------------------------------------------------------------------
(* MineFullGPUThread: index = m_minerIndex.load *)
LoadIndex(t) ==
  /\ tpc[t] = "load"
  /\ index' = [index EXCEPT ![t] = m_minerIndex]
  /\ tpc' = [tpc EXCEPT ![t] = "bump"]
  /\ UNCHANGED <<at, job, answer, m_shouldMine, m_minerIndex, m_vecMiningResult, pending, found>>

(* ++m_minerIndex *)
BumpIndex(t) ==
  /\ tpc[t] = "bump"
  /\ m_minerIndex' = m_minerIndex + 1
  /\ tpc' = [tpc EXCEPT ![t] = "loop"]
  /\ UNCHANGED <<at, job, answer, m_shouldMine, m_vecMiningResult, index, pending, found>>

(* while (m_shouldMine) *)
Loop(t) ==
  /\ tpc[t] = "loop"
  /\ tpc' = [tpc EXCEPT ![t] = IF m_shouldMine THEN "mine" ELSE "store"]
  /\ pending' = [pending EXCEPT ![t] = Failure]
  /\ UNCHANGED <<at, job, answer, m_shouldMine, m_minerIndex, m_vecMiningResult, index, found>>

(* The GPU fails, finds a hash that meets the difficulty, or one that does *)
(* not when it is computed again.                                          *)
GpuFails(t) ==
  /\ tpc[t] = "mine"
  /\ tpc' = [tpc EXCEPT ![t] = "store"]
  /\ pending' = [pending EXCEPT ![t] = Failure]
  /\ UNCHANGED <<at, job, answer, m_shouldMine, m_minerIndex, m_vecMiningResult, index, found>>

GpuFinds(t) ==
  /\ tpc[t] = "mine"
  /\ tpc' = [tpc EXCEPT ![t] = "store"]
  /\ pending' = [pending EXCEPT ![t] = Success(job)]
  /\ found' = TRUE
  /\ UNCHANGED <<at, job, answer, m_shouldMine, m_minerIndex, m_vecMiningResult, index>>

GpuMisses(t) ==
  /\ tpc[t] = "mine"
  /\ tpc' = [tpc EXCEPT ![t] = "loop"]
  /\ UNCHANGED <<at, job, answer, m_shouldMine, m_minerIndex, m_vecMiningResult, index, pending, found>>

(* What is in the slot after t stored: threads that took the same index    *)
(* and store at the same time may leave a mixture behind.                  *)
Stored(t) ==
  IF \/ m_vecMiningResult[index[t]] = Torn
     \/ \E u \in Thread \ {t} : tpc[u] = "store" /\ index[u] = index[t]
    THEN {pending[t], Torn}
    ELSE {pending[t]}

\* A variant without the notification at the end of the thread.
StoreSilently(t) ==
  /\ tpc[t] = "store"
  /\ \E r \in Stored(t) : m_vecMiningResult' = [m_vecMiningResult EXCEPT ![index[t]] = r]
  /\ tpc' = [tpc EXCEPT ![t] = "end"]
  /\ at' = IF at = "wait" /\ pending[t].success THEN "woken" ELSE at
  /\ UNCHANGED <<job, answer, m_shouldMine, m_minerIndex, index, pending, found>>

(* The thread stores its result, calls notify_one and ends.  Nobody hears  *)
(* the notification unless MineFullGPU waits already.                      *)
Store(t) ==
  /\ tpc[t] = "store"
  /\ \E r \in Stored(t) : m_vecMiningResult' = [m_vecMiningResult EXCEPT ![index[t]] = r]
  /\ tpc' = [tpc EXCEPT ![t] = "end"]
  /\ at' = IF at = "wait" THEN "woken" ELSE at
  /\ UNCHANGED <<job, answer, m_shouldMine, m_minerIndex, index, pending, found>>

ThreadStep(t) ==
  \/ LoadIndex(t)
  \/ BumpIndex(t)
  \/ Loop(t)
  \/ GpuFails(t)
  \/ GpuFinds(t)
  \/ GpuMisses(t)
  \/ Store(t)

CallerStep ==
  \/ StartMining
  \/ CpuFinds
  \/ CpuGivesUp
  \/ Spawn
  \/ Wait
  \/ Woken
  \/ Collect

Next ==
  \/ PoWMine
  \/ StopMining
  \/ CallerStep
  \/ WakeSpuriously
  \/ \E t \in Thread : ThreadStep(t)

(* Threads run, and a GPU's mine returns; nobody has to call PoWMine or    *)
(* StopMining, no hash has to meet the difficulty, no wakeup is spurious.  *)
Fairness ==
  /\ WF_vars(StartMining) /\ WF_vars(CpuGivesUp)
  /\ WF_vars(Spawn) /\ WF_vars(Wait) /\ WF_vars(Woken) /\ WF_vars(Collect)
  /\ \A t \in Thread : WF_vars(ThreadStep(t))

Spec == Init /\ [][Next]_vars /\ Fairness

-----------------------------------------------------------------------------
(* Two threads took the same index, between load and increment *)
IndexShared ==
  \E t, u \in Thread :
    t # u /\ index[t] = index[u] /\ {tpc[t], tpc[u]} \cap {"none", "load"} = {}

(* Variables keep their types; the index counts the threads of one job.    *)
TypeOK ==
  /\ at \in {"out", "prepare", "mine", "spawn", "sleep", "wait", "woken", "join"}
  /\ job \in Nat
  /\ answer \in Result
  /\ m_shouldMine \in BOOLEAN
  /\ m_minerIndex \in 0..N
  /\ m_vecMiningResult \in [Thread -> Result]
  /\ tpc \in [Thread -> Running \cup {"none", "end"}]
  /\ index \in [Thread -> Nat]
  /\ pending \in [Thread -> Result]
  /\ found \in BOOLEAN

(* m_miners[index] and m_vecMiningResult[index] are never out of bounds,   *)
(* although the index is read and incremented in two steps.                *)
IndexInRange == \A t \in Thread : tpc[t] \in Running \ {"load"} => index[t] \in Thread

(* A new mining does not begin before the previous one has ended (pow.cpp, *)
(* comment in PoWMine): while no call mines on GPUs, no thread runs that   *)
(* could read what the next call sets.                                     *)
NothingRunsBetweenJobs ==
  at \in {"out", "prepare", "mine", "spawn"} => \A t \in Thread : tpc[t] \notin Running

(* A solution that PoWMine returns was found in this call, and is not one  *)
(* that an earlier call left in m_vecMiningResult.                         *)
ReturnsOwnResult ==
  at = "out" /\ answer.success => answer.job = job \/ answer = Torn

(* PoWMine reports success when a solution was found, whichever thread     *)
(* found it and however many failed before or after, unless two threads    *)
(* took the same index and one overwrote the result of the other.          *)
FoundUnlessShared == at = "out" /\ found => answer.success \/ IndexShared

(* StopMining "terminates proof-of-work mining" (pow.h): a call that began *)
(* to mine returns once m_shouldMine is false.                             *)
StopEndsMining ==
  at \in {"mine", "spawn", "sleep", "wait", "woken", "join"} /\ ~m_shouldMine
    ~> at = "out"

(* The same for a call that mines on the CPU.                              *)
StopEndsCpuMining == at = "mine" /\ ~m_shouldMine ~> at = "out"

(* The same for a call that waits while one of its threads still runs.     *)
StopReachesWaiter ==
  at = "wait" /\ ~m_shouldMine /\ (\E t \in Thread : tpc[t] \in Running)
    ~> at = "out"
=============================================================================
