------------------------------ MODULE Pow_proofs ------------------------------
(***************************************************************************)
(* Proofs about class POW: mining (PowMine), for any number of mining      *)
(* threads, the shared light client (PowLight), for any number of callers  *)
(* and blocks, and the difficulty (PowDifficulty), for hashes of any       *)
(* length; about the blocks that carry its results (LedgerBlocks), for any *)
(* numbers and hashes in them; and about the owners of the keys that sign  *)
(* (KeyHandles), for any number of objects.  Then about objects that       *)
(* threads share: the queue of messages (XQueueCondv), for any number of   *)
(* consumers and any items, the queue of tasks (XQueueTask), for any tasks *)
(* and any number of calls of stop, and the sender (XSender), for any      *)
(* blocks and indices.                                                     *)
(***************************************************************************)
EXTENDS PowMine, PowCalls, PowDifficulty, LedgerBlocks, KeyHandles, XQueueCondv, XTaskCalls,
        SequenceTheorems, FiniteSetTheorems, WellFoundedInduction, TLAPS

VARIABLES kind, blockNum, disturbed, holder, ethash_light_client, currentBlockNum

L == INSTANCE PowLight

Gpu == {"sleep", "wait", "woken", "join"}

(* The threads that have incremented the index *)
Bumped == {t \in Thread : tpc[t] \in {"loop", "mine", "store", "end"}}

(* Whatever two threads read in between, the index counts the increments,  *)
(* so a thread that has not incremented it yet reads less than N.          *)
IndexCounts == m_minerIndex = Cardinality(Bumped)

LoadedInRange == \A t \in Thread : tpc[t] \notin {"none", "load"} => index[t] \in Thread

(* Only solutions to this call are stored or about to be stored *)
ResultsOwn ==
  at \in Gpu =>
    \A t \in Thread :
      /\ m_vecMiningResult[t].success => m_vecMiningResult[t] \in {Success(job), Torn}
      /\ tpc[t] = "store" /\ pending[t].success => pending[t] = Success(job)

(* A solution is with the thread that found it, and stays in its slot      *)
(* unless another thread shares the slot.                                  *)
FoundHeld ==
  /\ at \in {"prepare", "mine", "spawn"} => ~found
  /\ at \in Gpu /\ found =>
       \E t \in Thread : tpc[t] \in {"store", "end"} /\ pending[t].success
  /\ at \in Gpu =>
       \A t \in Thread :
         tpc[t] = "end" /\ pending[t].success
           => m_vecMiningResult[index[t]].success \/ IndexShared

(* The inductive invariant *)
IInv ==
  /\ TypeOK
  /\ IndexCounts
  /\ LoadedInRange
  /\ NothingRunsBetweenJobs
  /\ ResultsOwn
  /\ FoundHeld
  /\ ReturnsOwnResult
  /\ FoundUnlessShared

-----------------------------------------------------------------------------
(* There are N threads, and not all of them are counted while one has not  *)
(* incremented the index.                                                  *)
LEMMA BumpedCount ==
  /\ IsFiniteSet(Bumped)
  /\ Cardinality(Bumped) \in 0..N
  /\ \A t \in Thread \ Bumped : Cardinality(Bumped) \in 0 .. N - 1
  <1>1. IsFiniteSet(Thread) /\ Cardinality(Thread) = N
    BY FS_Interval, MinersAssumption DEF Thread
  <1>2. Bumped \subseteq Thread
    BY DEF Bumped
  <1>3. /\ IsFiniteSet(Bumped)
        /\ Cardinality(Bumped) <= N
        /\ Cardinality(Bumped) = N => Bumped = Thread
    BY <1>1, <1>2, FS_Subset
  <1>4. Cardinality(Bumped) \in Nat
    BY <1>3, FS_CardinalityType
  <1> QED
    BY <1>2, <1>3, <1>4, MinersAssumption

LEMMA ResultType ==
  /\ Failure \in Result /\ ~Failure.success
  /\ Torn \in Result /\ Torn.success
  /\ \A j \in Int : /\ Success(j) \in Result
                   /\ Success(j).success /\ Success(j).job = j
  <1>1. FALSE \in BOOLEAN /\ TRUE \in BOOLEAN /\ 0 \in Int /\ -1 \in Int
    OBVIOUS
  <1> QED
    BY <1>1 DEF Failure, Torn, Success, Result

LEMMA InitIInv == Init => IInv
  <1> SUFFICES ASSUME Init PROVE IInv
    OBVIOUS
  <1>1. IndexCounts
    <2>1. Bumped = {}
      BY DEF Init, Bumped
    <2> QED
      BY <2>1, FS_EmptySet DEF Init, IndexCounts
  <1>2. TypeOK
    <2>1. 0 \in 0..N /\ 0 \in Nat /\ FALSE \in BOOLEAN
      BY MinersAssumption
    <2>2. tpc \in [Thread -> Running \cup {"none", "end"}]
      BY DEF Init
    <2>3. m_vecMiningResult \in [Thread -> Result] /\ pending \in [Thread -> Result]
      BY ResultType DEF Init
    <2> QED
      BY <2>1, <2>2, <2>3, ResultType DEF Init, TypeOK
  <1>3. LoadedInRange /\ NothingRunsBetweenJobs /\ ResultsOwn /\ FoundHeld
    BY DEF Init, LoadedInRange, NothingRunsBetweenJobs, ResultsOwn, FoundHeld, Gpu, Running
  <1>4. ReturnsOwnResult /\ FoundUnlessShared
    BY DEF Init, ReturnsOwnResult, FoundUnlessShared, Failure
  <1> QED
    BY <1>1, <1>2, <1>3, <1>4 DEF IInv

(* A step that leaves the threads, their index and their results alone     *)
LEMMA ThreadsAlone ==
  ASSUME IInv, UNCHANGED <<threads, m_minerIndex, m_vecMiningResult>>
  PROVE  IndexCounts' /\ LoadedInRange' /\ (IndexShared' <=> IndexShared)
  BY DEF IInv, threads, IndexCounts, Bumped, LoadedInRange, IndexShared

(* The steps of the caller that do no more than go on *)
LEMMA CallerStepIInv ==
  ASSUME IInv,
         \/ PoWMine \/ StartMining \/ StopMining \/ Wait \/ Woken \/ WakeSpuriously
  PROVE  IInv'
  <1>1. UNCHANGED <<threads, m_minerIndex, m_vecMiningResult, answer>>
    BY DEF PoWMine, StartMining, StopMining, Wait, Woken, WakeSpuriously
  <1>2. IndexCounts' /\ LoadedInRange' /\ (IndexShared' <=> IndexShared)
    BY <1>1, ThreadsAlone
  <1>3. TypeOK'
    <2>1. job' \in Nat
      BY DEF IInv, TypeOK, PoWMine, StartMining, StopMining, Wait, Woken, WakeSpuriously
    <2>2. m_shouldMine' \in BOOLEAN /\ found' \in BOOLEAN
      BY Zenon DEF IInv, TypeOK, PoWMine, StartMining, StopMining, Wait, Woken, WakeSpuriously
    <2>3. at' \in {"out", "prepare", "mine", "spawn", "sleep", "wait", "woken", "join"}
      BY DEF IInv, TypeOK, PoWMine, StartMining, StopMining, Wait, Woken, WakeSpuriously
    <2> QED
      BY <1>1, <2>1, <2>2, <2>3 DEF IInv, TypeOK, threads
  <1>4. NothingRunsBetweenJobs'
    BY DEF IInv, NothingRunsBetweenJobs, threads, PoWMine, StartMining, StopMining, Wait,
           Woken, WakeSpuriously
  <1>5. ResultsOwn'
    BY <1>1 DEF IInv, ResultsOwn, Gpu, threads, PoWMine, StartMining, StopMining, Wait,
           Woken, WakeSpuriously
  <1>6. FoundHeld'
    BY <1>1, <1>2 DEF IInv, FoundHeld, Gpu, threads, PoWMine, StartMining, StopMining, Wait,
           Woken, WakeSpuriously
  <1>7. ReturnsOwnResult' /\ FoundUnlessShared'
    BY <1>1, <1>2 DEF IInv, ReturnsOwnResult, FoundUnlessShared, PoWMine, StartMining,
           StopMining, Wait, Woken, WakeSpuriously
  <1> QED
    BY <1>2, <1>3, <1>4, <1>5, <1>6, <1>7 DEF IInv

(* The steps in which PoWMine returns *)
LEMMA ReturnStepIInv ==
  ASSUME IInv, CpuFinds \/ CpuGivesUp \/ Collect
  PROVE  IInv'
  <1>1. /\ UNCHANGED <<threads, m_minerIndex, m_vecMiningResult, job>>
        /\ m_shouldMine' = m_shouldMine
        /\ at' = "out"
    BY DEF CpuFinds, CpuGivesUp, Collect, Return
  <1>2. IndexCounts' /\ LoadedInRange' /\ (IndexShared' <=> IndexShared)
    BY <1>1, ThreadsAlone
  <1>3. answer' \in Result /\ found' \in BOOLEAN
    <2>1. answer' \in Result
      BY ResultType DEF IInv, TypeOK, CpuFinds, CpuGivesUp, Collect, Return
    <2>2. found' \in BOOLEAN
      BY Zenon DEF IInv, TypeOK, CpuFinds, CpuGivesUp, Collect
    <2> QED
      BY <2>1, <2>2
  <1>4. TypeOK'
    BY <1>1, <1>3 DEF IInv, TypeOK, threads
  <1>5. NothingRunsBetweenJobs'
    BY <1>1 DEF IInv, NothingRunsBetweenJobs, threads, CpuFinds, CpuGivesUp, Collect
  <1>6. ResultsOwn' /\ FoundHeld'
    BY <1>1 DEF ResultsOwn, FoundHeld, Gpu
  <1>7. ReturnsOwnResult'
    BY <1>1 DEF IInv, ReturnsOwnResult, ResultsOwn, Gpu, CpuFinds, CpuGivesUp, Collect,
                Return, Success, Failure
  <1>8. FoundUnlessShared'
    <2>1. CASE CpuFinds \/ CpuGivesUp
      <3>1. CASE CpuFinds
        BY <3>1 DEF FoundUnlessShared, CpuFinds, Return, Success
      <3>2. CASE CpuGivesUp
        BY <3>2 DEF IInv, FoundHeld, FoundUnlessShared, CpuGivesUp
      <3> QED
        BY <2>1, <3>1, <3>2
    <2>2. CASE Collect
      <3>1. SUFFICES ASSUME found, ~answer'.success PROVE IndexShared
        BY <2>2, <1>2 DEF FoundUnlessShared, Collect
      <3>2. at \in Gpu /\ \A i \in Thread : ~m_vecMiningResult[i].success
        BY <2>2, <3>1 DEF Collect, Return, Gpu
      <3>3. PICK t \in Thread : tpc[t] = "end" /\ pending[t].success
        BY <2>2, <3>1, <3>2 DEF IInv, FoundHeld, Collect, Running
      <3>4. index[t] \in Thread
        BY <3>3 DEF IInv, LoadedInRange
      <3> QED
        BY <3>2, <3>3, <3>4 DEF IInv, FoundHeld
    <2> QED
      BY <2>1, <2>2
  <1> QED
    BY <1>2, <1>4, <1>5, <1>6, <1>7, <1>8 DEF IInv

(* New threads: nothing is counted, loaded or found yet.                   *)
LEMMA SpawnIInv ==
  ASSUME IInv, Spawn
  PROVE  IInv'
  <1>1. /\ at' = "sleep" /\ m_minerIndex' = 0 /\ ~found /\ found' = found
        /\ \A t \in Thread : tpc'[t] = "load" /\ m_vecMiningResult'[t] = Failure
    BY DEF IInv, FoundHeld, Spawn
  <1>2. IndexCounts'
    <2>1. Bumped' = {}
      BY <1>1 DEF Bumped
    <2> QED
      BY <1>1, <2>1, FS_EmptySet DEF IndexCounts
  <1>3. TypeOK'
    <2>1. 0 \in 0..N
      BY MinersAssumption
    <2>2. tpc' \in [Thread -> Running \cup {"none", "end"}]
      BY DEF Spawn, Running
    <2>3. m_vecMiningResult' \in [Thread -> Result]
      BY ResultType DEF Spawn
    <2> QED
      BY <1>1, <2>1, <2>2, <2>3 DEF IInv, TypeOK, Spawn
  <1>4. LoadedInRange' /\ NothingRunsBetweenJobs' /\ ResultsOwn' /\ FoundHeld'
    BY <1>1, ResultType DEF LoadedInRange, NothingRunsBetweenJobs, ResultsOwn, FoundHeld, Gpu
  <1>5. ReturnsOwnResult' /\ FoundUnlessShared'
    BY <1>1 DEF ReturnsOwnResult, FoundUnlessShared
  <1> QED
    BY <1>2, <1>3, <1>4, <1>5 DEF IInv

-----------------------------------------------------------------------------
(* A thread that runs belongs to the call that waits or will wait for it.  *)
LEMMA RunsInGpu ==
  ASSUME IInv, NEW t \in Thread, tpc[t] \in Running
  PROVE  at \in Gpu
  BY DEF IInv, TypeOK, NothingRunsBetweenJobs, Gpu

(* Slots that are shared stay shared as long as threads only go on.        *)
LEMMA SharedStays ==
  ASSUME NEW t \in Thread, IndexShared, tpc[t] \notin {"none", "load"},
         \A u \in Thread : index'[u] = index[u],
         \A u \in Thread \ {t} : tpc'[u] = tpc[u],
         tpc'[t] \notin {"none", "load"}
  PROVE  IndexShared'
  BY DEF IndexShared

LEMMA LoadIndexIInv ==
  ASSUME IInv, NEW t \in Thread, LoadIndex(t)
  PROVE  IInv'
  <1>1. at \in Gpu
    BY RunsInGpu DEF LoadIndex, Running
  <1>2. /\ index'[t] = m_minerIndex /\ tpc'[t] = "bump" /\ tpc[t] = "load"
        /\ \A u \in Thread \ {t} : index'[u] = index[u] /\ tpc'[u] = tpc[u]
        /\ UNCHANGED <<at, job, answer, m_shouldMine, m_minerIndex, m_vecMiningResult,
                       pending, found>>
    BY DEF IInv, TypeOK, LoadIndex
  <1>3. m_minerIndex \in Thread
    <2>1. t \in Thread \ Bumped
      BY <1>2 DEF Bumped
    <2> QED
      BY <2>1, BumpedCount DEF IInv, IndexCounts, Thread
  <1>4. IndexCounts'
    <2>1. Bumped' = Bumped
      BY <1>2 DEF Bumped
    <2> QED
      BY <1>2, <2>1 DEF IInv, IndexCounts
  <1>5. TypeOK'
    BY <1>3, MinersAssumption DEF IInv, TypeOK, LoadIndex, Running, Thread
  <1>6. LoadedInRange'
    BY <1>2, <1>3 DEF IInv, LoadedInRange
  <1>7. NothingRunsBetweenJobs' /\ ReturnsOwnResult' /\ FoundUnlessShared'
    BY <1>1, <1>2 DEF NothingRunsBetweenJobs, ReturnsOwnResult, FoundUnlessShared, Gpu
  <1>8. ResultsOwn'
    BY <1>2 DEF IInv, ResultsOwn
  <1>9. FoundHeld'
    <2>1. IndexShared => IndexShared'
      BY <1>2 DEF IndexShared
    <2> QED
      BY <1>1, <1>2, <2>1 DEF IInv, FoundHeld
  <1> QED
    BY <1>4, <1>5, <1>6, <1>7, <1>8, <1>9 DEF IInv

LEMMA BumpIndexIInv ==
  ASSUME IInv, NEW t \in Thread, BumpIndex(t)
  PROVE  IInv'
  <1>1. at \in Gpu
    BY RunsInGpu DEF BumpIndex, Running
  <1>2. /\ m_minerIndex' = m_minerIndex + 1 /\ tpc'[t] = "loop" /\ tpc[t] = "bump"
        /\ \A u \in Thread \ {t} : tpc'[u] = tpc[u]
        /\ UNCHANGED <<at, job, answer, m_shouldMine, m_vecMiningResult, index, pending, found>>
    BY DEF IInv, TypeOK, BumpIndex
  <1>3. IndexCounts'
    <2>1. Bumped' = Bumped \cup {t} /\ t \notin Bumped
      BY <1>2 DEF Bumped
    <2>2. Cardinality(Bumped \cup {t}) = Cardinality(Bumped) + 1
      BY <2>1, BumpedCount, FS_AddElement
    <2> QED
      BY <1>2, <2>1, <2>2 DEF IInv, IndexCounts
  <1>4. TypeOK'
    <2>1. t \in Thread \ Bumped
      BY <1>2 DEF Bumped
    <2>2. m_minerIndex' \in 0..N
      BY <1>2, <2>1, BumpedCount, MinersAssumption DEF IInv, IndexCounts
    <2>3. tpc' \in [Thread -> Running \cup {"none", "end"}]
      BY DEF IInv, TypeOK, BumpIndex, Running
    <2> QED
      BY <1>2, <2>2, <2>3 DEF IInv, TypeOK
  <1>5. LoadedInRange'
    BY <1>2 DEF IInv, LoadedInRange
  <1>6. NothingRunsBetweenJobs' /\ ReturnsOwnResult' /\ FoundUnlessShared'
    BY <1>1, <1>2 DEF NothingRunsBetweenJobs, ReturnsOwnResult, FoundUnlessShared, Gpu
  <1>7. ResultsOwn'
    BY <1>2 DEF IInv, ResultsOwn
  <1>8. FoundHeld'
    <2>1. IndexShared => IndexShared'
      BY <1>2, SharedStays
    <2> QED
      BY <1>1, <1>2, <2>1 DEF IInv, FoundHeld
  <1> QED
    BY <1>3, <1>4, <1>5, <1>6, <1>7, <1>8 DEF IInv

(* The loop and the GPU: the thread goes on to mine or to store.           *)
LEMMA MineIInv ==
  ASSUME IInv, NEW t \in Thread,
         Loop(t) \/ GpuFails(t) \/ GpuFinds(t) \/ GpuMisses(t)
  PROVE  IInv'
  <1>1. at \in Gpu
    BY RunsInGpu DEF Loop, GpuFails, GpuFinds, GpuMisses, Running
  <1>2. /\ tpc[t] \in {"loop", "mine"} /\ tpc'[t] \in {"loop", "mine", "store"}
        /\ \A u \in Thread \ {t} : tpc'[u] = tpc[u] /\ pending'[u] = pending[u]
        /\ tpc' \in [Thread -> Running \cup {"none", "end"}]
        /\ UNCHANGED <<at, job, answer, m_shouldMine, m_minerIndex, m_vecMiningResult, index>>
    BY DEF IInv, TypeOK, Loop, GpuFails, GpuFinds, GpuMisses, Running
  <1>3. \/ tpc'[t] # "store" /\ (found' => found)
        \/ pending'[t] = Failure /\ (found' => found)
        \/ tpc'[t] = "store" /\ pending'[t] = Success(job) /\ found'
    BY DEF IInv, TypeOK, Loop, GpuFails, GpuFinds, GpuMisses
  <1>4. IndexCounts'
    <2>1. Bumped' = Bumped
      BY <1>2 DEF Bumped
    <2> QED
      BY <1>2, <2>1 DEF IInv, IndexCounts
  <1>5. TypeOK'
    <2>1. job \in Int
      BY DEF IInv, TypeOK
    <2>2. pending' \in [Thread -> Result]
      BY <2>1, ResultType DEF IInv, TypeOK, Loop, GpuFails, GpuFinds, GpuMisses
    <2>3. found' \in BOOLEAN
      BY Zenon DEF IInv, TypeOK, Loop, GpuFails, GpuFinds, GpuMisses
    <2> QED
      BY <1>2, <2>2, <2>3 DEF IInv, TypeOK
  <1>6. LoadedInRange'
    BY <1>2 DEF IInv, LoadedInRange
  <1>7. NothingRunsBetweenJobs' /\ ReturnsOwnResult' /\ FoundUnlessShared'
    BY <1>1, <1>2 DEF NothingRunsBetweenJobs, ReturnsOwnResult, FoundUnlessShared, Gpu
  <1>8. ResultsOwn'
    BY <1>2, <1>3, ResultType DEF IInv, ResultsOwn
  <1>9. FoundHeld'
    <2>1. IndexShared => IndexShared'
      BY <1>2, SharedStays
    <2>2. found' => \E u \in Thread : tpc'[u] \in {"store", "end"} /\ pending'[u].success
      <3>1. ASSUME found
            PROVE  \E u \in Thread : tpc'[u] \in {"store", "end"} /\ pending'[u].success
        <4>1. PICK u \in Thread : tpc[u] \in {"store", "end"} /\ pending[u].success
          BY <3>1, <1>1 DEF IInv, FoundHeld
        <4>2. u # t
          BY <4>1, <1>2
        <4> QED
          BY <4>1, <4>2, <1>2
      <3>2. ASSUME found', ~found
            PROVE  tpc'[t] = "store" /\ pending'[t].success
        BY <3>2, <1>3 DEF Success
      <3> QED
        BY <3>1, <3>2
    <2> QED
      BY <1>1, <1>2, <2>1, <2>2 DEF IInv, FoundHeld, Gpu
  <1> QED
    BY <1>4, <1>5, <1>6, <1>7, <1>8, <1>9 DEF IInv

(* A thread stores its result.  A solution that was in the slot can only   *)
(* be gone if two threads share the slot.                                  *)
LEMMA StoreIInv ==
  ASSUME IInv, NEW t \in Thread, Store(t)
  PROVE  IInv'
  <1>1. at \in Gpu /\ at' \in Gpu
    <2>1. at \in Gpu
      BY RunsInGpu DEF Store, Running
    <2> QED
      BY <2>1 DEF Store, Gpu
  <1>2. PICK r \in {pending[t], Torn} :
          m_vecMiningResult' = [m_vecMiningResult EXCEPT ![index[t]] = r]
    BY DEF Store, Stored
  <1>3. /\ tpc[t] = "store" /\ tpc'[t] = "end"
        /\ \A u \in Thread \ {t} : tpc'[u] = tpc[u]
        /\ tpc' \in [Thread -> Running \cup {"none", "end"}]
        /\ UNCHANGED <<job, answer, m_shouldMine, m_minerIndex, index, pending, found>>
    BY DEF IInv, TypeOK, Store
  <1>4. /\ index[t] \in Thread
        /\ m_vecMiningResult'[index[t]] = r
        /\ \A i \in Thread \ {index[t]} : m_vecMiningResult'[i] = m_vecMiningResult[i]
    BY <1>2, <1>3 DEF IInv, TypeOK, LoadedInRange
  <1>5. IndexCounts'
    <2>1. Bumped' = Bumped
      BY <1>3 DEF Bumped
    <2> QED
      BY <1>3, <2>1 DEF IInv, IndexCounts
  <1>6. TypeOK'
    <2>1. r \in Result
      BY ResultType DEF IInv, TypeOK
    <2>2. m_vecMiningResult' \in [Thread -> Result]
      BY <1>2, <2>1 DEF IInv, TypeOK
    <2> QED
      BY <1>1, <1>3, <2>2 DEF IInv, TypeOK, Gpu
  <1>7. LoadedInRange'
    BY <1>3 DEF IInv, LoadedInRange
  <1>8. NothingRunsBetweenJobs' /\ ReturnsOwnResult' /\ FoundUnlessShared'
    BY <1>1 DEF NothingRunsBetweenJobs, ReturnsOwnResult, FoundUnlessShared, Gpu
  <1>9. ResultsOwn'
    <2>1. r.success => r \in {Success(job), Torn}
      BY <1>1, <1>3 DEF IInv, ResultsOwn
    <2> QED
      BY <1>1, <1>3, <1>4, <2>1 DEF IInv, ResultsOwn
  <1>10. FoundHeld'
    <2>1. IndexShared => IndexShared'
      BY <1>3, SharedStays
    <2>2. found' => \E u \in Thread : tpc'[u] \in {"store", "end"} /\ pending'[u].success
      BY <1>1, <1>3 DEF IInv, FoundHeld
    <2>3. ASSUME NEW u \in Thread, tpc'[u] = "end", pending'[u].success
          PROVE  m_vecMiningResult'[index'[u]].success \/ IndexShared'
      <3>1. CASE u = t
        BY <3>1, <2>3, <1>3, <1>4, ResultType
      <3>2. CASE u # t /\ index[u] = index[t]
        BY <3>2, <2>3, <1>3 DEF IndexShared
      <3>3. CASE u # t /\ index[u] # index[t]
        <4>1. tpc[u] = "end" /\ index[u] \in Thread
          BY <3>3, <2>3, <1>3 DEF IInv, LoadedInRange
        <4>2. m_vecMiningResult[index[u]].success \/ IndexShared
          BY <4>1, <2>3, <1>1, <1>3 DEF IInv, FoundHeld
        <4> QED
          BY <4>1, <4>2, <3>3, <2>1, <1>3, <1>4
      <3> QED
        BY <3>1, <3>2, <3>3
    <2> QED
      BY <1>1, <2>2, <2>3 DEF FoundHeld, Gpu
  <1> QED
    BY <1>5, <1>6, <1>7, <1>8, <1>9, <1>10 DEF IInv

-----------------------------------------------------------------------------
LEMMA NextIInv == IInv /\ [Next]_vars => IInv'
  <1> SUFFICES ASSUME IInv, [Next]_vars PROVE IInv'
    OBVIOUS
  <1>1. CASE UNCHANGED vars
    BY <1>1 DEF vars, threads, IInv, TypeOK, IndexCounts, Bumped, LoadedInRange, NothingRunsBetweenJobs,
           ResultsOwn, FoundHeld, IndexShared, ReturnsOwnResult, FoundUnlessShared
  <1>2. CASE PoWMine \/ StopMining \/ WakeSpuriously
    BY <1>2, CallerStepIInv
  <1>3. CASE CallerStep
    BY <1>3, CallerStepIInv, ReturnStepIInv, SpawnIInv DEF CallerStep
  <1>4. CASE \E t \in Thread : ThreadStep(t)
    BY <1>4, LoadIndexIInv, BumpIndexIInv, MineIInv, StoreIInv DEF ThreadStep
  <1> QED
    BY <1>1, <1>2, <1>3, <1>4 DEF Next

LEMMA SpecIInv == Spec => []IInv
  BY InitIInv, NextIInv, PTL DEF Spec

-----------------------------------------------------------------------------
(* Variables keep their types for any number of GPUs; in particular the    *)
(* index never passes the number of miners.                                *)
THEOREM TypeCorrect == Spec => []TypeOK
  BY SpecIInv, PTL DEF IInv

(* No thread of MineFullGPU reads or writes a slot that does not exist,    *)
(* although it reads the index and increments it in two steps.             *)
THEOREM NoSlotOutOfBounds == Spec => []IndexInRange
  <1>1. IInv => IndexInRange
    BY DEF IInv, LoadedInRange, IndexInRange, Running
  <1> QED
    BY <1>1, SpecIInv, PTL

(* No thread outlives the call of PoWMine that made it.                    *)
THEOREM NoThreadOutlivesItsJob == Spec => []NothingRunsBetweenJobs
  BY SpecIInv, PTL DEF IInv

(* No solution of an earlier call is returned as one of this call.         *)
THEOREM OwnResult == Spec => []ReturnsOwnResult
  BY SpecIInv, PTL DEF IInv

(* A solution that was found is returned, unless two threads took one      *)
(* index: the two-step increment is the only way to lose it.               *)
THEOREM LostOnlyWhenShared == Spec => []FoundUnlessShared
  BY SpecIInv, PTL DEF IInv

-----------------------------------------------------------------------------
(* The light client is safe to share, for any number of threads, as long   *)
(* as all calls in progress are for one block number: the obligation that  *)
(* POW leaves to its callers.                                              *)
Configured == {"ready", "compute", "checked"}

(* All calls in progress are for one block number.                         *)
OneBlock ==
  \A c, d \in Caller : pc[c] # "out" /\ pc[d] # "out" => blockNum[c] = blockNum[d]

(* A call that has configured the client keeps it: every other call in     *)
(* progress finds its own number noted and does not renew.                 *)
ClientKept ==
  \A c \in Caller :
    /\ pc[c] \in Configured => holder = None /\ currentBlockNum = blockNum[c]
    /\ pc[c] = "compute" => ~disturbed[c]

(* The inductive invariant.  Types and NumberMatchesClient need no          *)
(* assumption on the callers.                                              *)
LightInv == L!TypeOK /\ L!NumberMatchesClient

LightIInv == LightInv /\ OneBlock /\ ClientKept /\ AnswersRight

-----------------------------------------------------------------------------
LEMMA InitLightInv == L!Init => LightInv
  BY BlockNumAssumption, NoneAssumption DEF L!Init, LightInv, L!TypeOK, L!Kind, L!NumberMatchesClient

LEMMA ConfigureLightInv ==
  ASSUME LightInv, NEW c \in Caller, L!Configure(c)
  PROVE  LightInv'
  <1>1. /\ holder = None
        /\ \A d \in Caller : pc[d] # "renew"
    BY NoneAssumption DEF L!Configure, LightInv, L!TypeOK
  <1>2. /\ pc[c] = "configure"
        /\ \A d \in Caller \ {c} : pc'[d] = pc[d]
        /\ UNCHANGED <<kind, blockNum, meets, verdict, currentBlockNum>>
    BY DEF L!Configure, LightInv, L!TypeOK, L!call
  <1>3. CASE blockNum[c] # currentBlockNum
    <2>1. /\ pc' = [pc EXCEPT ![c] = "renew"]
          /\ holder' = c
          /\ ethash_light_client' = None
          /\ disturbed' = [d \in Caller |-> disturbed[d] \/ pc[d] = "compute"]
      BY <1>3 DEF L!Configure
    <2>2. disturbed' \in [Caller -> BOOLEAN]
      BY <2>1
    <2>3. L!TypeOK'
      BY <1>1, <1>2, <2>1, <2>2 DEF LightInv, L!TypeOK
    <2>4. L!NumberMatchesClient'
      BY <2>1, NoneAssumption DEF L!NumberMatchesClient
    <2> QED
      BY <2>3, <2>4 DEF LightInv
  <1>4. CASE blockNum[c] = currentBlockNum
    <2>1. /\ pc' = [pc EXCEPT ![c] = L!AfterConfigure(c)]
          /\ L!AfterConfigure(c) \in {"done", "ready"}
          /\ UNCHANGED <<holder, ethash_light_client, disturbed>>
      BY <1>4 DEF L!Configure, L!AfterConfigure
    <2> QED
      BY <1>1, <1>2, <2>1 DEF LightInv, L!TypeOK, L!NumberMatchesClient
  <1> QED
    BY <1>3, <1>4

LEMMA RenewedLightInv ==
  ASSUME LightInv, NEW c \in Caller, L!Renewed(c)
  PROVE  LightInv'
  <1>1. /\ pc' = [pc EXCEPT ![c] = L!AfterConfigure(c)]
        /\ L!AfterConfigure(c) \in {"done", "ready"}
        /\ pc[c] = "renew" /\ holder = c
        /\ holder' = None
        /\ ethash_light_client' = blockNum[c] /\ currentBlockNum' = blockNum[c]
        /\ UNCHANGED <<kind, blockNum, meets, verdict, disturbed>>
    BY DEF L!Renewed, L!AfterConfigure, LightInv, L!TypeOK, L!call
  <1>2. \A d \in Caller \ {c} : pc'[d] # "renew"
    BY <1>1 DEF LightInv, L!TypeOK
  <1> QED
    BY <1>1, <1>2 DEF LightInv, L!TypeOK, L!NumberMatchesClient

LEMMA OtherLightInv ==
  ASSUME LightInv, NEW c \in Caller,
         \/ \E k \in L!Kind, b \in BlockNum : L!Call(c, k, b)
         \/ \E m \in BOOLEAN : L!BeginCompute(c, m)
         \/ L!EndCompute(c)
         \/ L!NextNonce(c)
         \/ L!Return(c)
  PROVE  LightInv'
  <1>1. UNCHANGED <<holder, ethash_light_client, currentBlockNum>>
    BY DEF L!Call, L!BeginCompute, L!EndCompute, L!NextNonce, L!Return, L!client
  <1>2. /\ pc' \in [Caller -> {"out", "configure", "renew", "ready", "compute", "checked", "done"}]
        /\ \A d \in Caller : pc'[d] = "renew" => pc[d] = "renew"
    BY DEF LightInv, L!TypeOK, L!Call, L!BeginCompute, L!EndCompute, L!NextNonce, L!Return
  <1>3. kind' \in [Caller -> L!Kind] /\ blockNum' \in [Caller -> BlockNum]
    BY DEF LightInv, L!TypeOK, L!Call, L!BeginCompute, L!EndCompute, L!NextNonce, L!Return, L!call
  <1>4. meets' \in [Caller -> BOOLEAN] /\ disturbed' \in [Caller -> BOOLEAN]
    <2>1. (ethash_light_client # blockNum[c]) \in BOOLEAN /\ FALSE \in BOOLEAN
      OBVIOUS
    <2> QED
      BY <2>1 DEF LightInv, L!TypeOK, L!Call, L!BeginCompute, L!EndCompute, L!NextNonce, L!Return, L!call
  <1>5. verdict' \in [Caller -> BOOLEAN]
    BY DEF LightInv, L!TypeOK, L!Call, L!BeginCompute, L!EndCompute, L!NextNonce, L!Return
  <1> QED
    BY <1>1, <1>2, <1>3, <1>4, <1>5 DEF LightInv, L!TypeOK, L!NumberMatchesClient

LEMMA NextLightInv == LightInv /\ [L!Next]_(L!vars) => LightInv'
  <1> SUFFICES ASSUME LightInv, [L!Next]_(L!vars) PROVE LightInv'
    OBVIOUS
  <1>1. CASE UNCHANGED L!vars
    BY <1>1 DEF L!vars, L!call, L!client, LightInv, L!TypeOK, L!NumberMatchesClient
  <1>2. CASE L!Next
    BY <1>2, ConfigureLightInv, RenewedLightInv, OtherLightInv DEF L!Next
  <1> QED
    BY <1>1, <1>2

LEMMA SpecLightInv == L!Spec => []LightInv
  BY InitLightInv, NextLightInv, PTL DEF L!Spec

-----------------------------------------------------------------------------
(* The steps of calls that are all for one block number                    *)
LEMMA InitLightIInv == L!Init => LightIInv
  BY InitLightInv DEF L!Init, LightIInv, OneBlock, ClientKept, AnswersRight, Configured

LEMMA CallIInv ==
  ASSUME OneBlockAtATime, LightIInv, NEW c \in Caller, NEW k \in L!Kind, NEW b \in BlockNum,
         L!Call(c, k, b)
  PROVE  (OneBlock /\ ClientKept /\ AnswersRight)'
  <1>1. /\ pc'[c] = "configure" /\ blockNum'[c] = b
        /\ \A d \in Caller \ {c} :
             /\ pc'[d] = pc[d] /\ blockNum'[d] = blockNum[d] /\ meets'[d] = meets[d]
             /\ verdict'[d] = verdict[d] /\ disturbed'[d] = disturbed[d]
             /\ pc[d] # "out" => blockNum[d] = b
        /\ UNCHANGED <<holder, ethash_light_client, currentBlockNum>>
    BY DEF LightIInv, LightInv, L!TypeOK, L!Call, L!client
  <1> QED
    BY <1>1 DEF LightIInv, OneBlock, ClientKept, AnswersRight, Configured

LEMMA ConfigureIInv ==
  ASSUME LightIInv, NEW c \in Caller, L!Configure(c)
  PROVE  (OneBlock /\ ClientKept /\ AnswersRight)'
  <1>1. /\ pc[c] = "configure"
        /\ pc'[c] \in {"renew", "done", "ready"}
        /\ \A d \in Caller \ {c} : pc'[d] = pc[d]
        /\ UNCHANGED <<kind, blockNum, meets, verdict, currentBlockNum>>
    BY DEF LightIInv, LightInv, L!TypeOK, L!Configure, L!AfterConfigure, L!call
  <1>2. OneBlock' /\ AnswersRight'
    BY <1>1 DEF LightIInv, OneBlock, AnswersRight
  <1>3. CASE blockNum[c] # currentBlockNum
    <2>1. \A d \in Caller : pc[d] \notin Configured
      BY <1>1, <1>3 DEF LightIInv, OneBlock, ClientKept, Configured
    <2>2. pc'[c] = "renew"
      BY <1>3 DEF L!Configure, LightIInv, LightInv, L!TypeOK
    <2>3. \A d \in Caller : pc'[d] \notin Configured /\ pc'[d] # "compute"
      BY <1>1, <2>1, <2>2 DEF Configured
    <2> QED
      BY <1>2, <2>3 DEF ClientKept
  <1>4. CASE blockNum[c] = currentBlockNum
    BY <1>1, <1>2, <1>4 DEF L!Configure, LightIInv, ClientKept, Configured
  <1> QED
    BY <1>3, <1>4

LEMMA RenewedIInv ==
  ASSUME LightIInv, NEW c \in Caller, L!Renewed(c)
  PROVE  (OneBlock /\ ClientKept /\ AnswersRight)'
  <1>1. /\ pc[c] = "renew" /\ holder = c /\ holder' = None
        /\ pc'[c] \in {"done", "ready"}
        /\ \A d \in Caller \ {c} : pc'[d] = pc[d]
        /\ currentBlockNum' = blockNum[c]
        /\ UNCHANGED <<kind, blockNum, meets, verdict, disturbed>>
    BY DEF LightIInv, LightInv, L!TypeOK, L!Renewed, L!AfterConfigure, L!call
  <1>2. \A d \in Caller : pc[d] \notin Configured
    BY <1>1, NoneAssumption DEF LightIInv, ClientKept
  <1> QED
    BY <1>1, <1>2 DEF LightIInv, OneBlock, ClientKept, AnswersRight, Configured

LEMMA ComputeIInv ==
  ASSUME LightIInv, NEW c \in Caller,
         (\E m \in BOOLEAN : L!BeginCompute(c, m)) \/ L!EndCompute(c)
  PROVE  (OneBlock /\ ClientKept /\ AnswersRight)'
  <1>1. /\ pc[c] \in Configured /\ pc'[c] \in {"compute", "checked"}
        /\ \A d \in Caller \ {c} :
             /\ pc'[d] = pc[d] /\ meets'[d] = meets[d]
             /\ verdict'[d] = verdict[d] /\ disturbed'[d] = disturbed[d]
        /\ UNCHANGED <<kind, blockNum, holder, ethash_light_client, currentBlockNum>>
    BY DEF LightIInv, LightInv, L!TypeOK, L!BeginCompute, L!EndCompute, L!call, L!client, Configured
  <1>2. ethash_light_client = blockNum[c]
    BY <1>1 DEF LightIInv, LightInv, L!NumberMatchesClient, ClientKept
  <1>3. CASE \E m \in BOOLEAN : L!BeginCompute(c, m)
    <2>1. pc'[c] = "compute" /\ ~disturbed'[c]
      BY <1>2, <1>3 DEF LightIInv, LightInv, L!TypeOK, L!BeginCompute
    <2> QED
      BY <1>1, <2>1 DEF LightIInv, OneBlock, ClientKept, AnswersRight, Configured
  <1>4. CASE L!EndCompute(c)
    <2>1. pc[c] = "compute" /\ ~disturbed[c]
      BY <1>4 DEF LightIInv, ClientKept, L!EndCompute
    <2>2. verdict'[c] = meets[c] /\ meets' = meets /\ pc'[c] = "checked"
      BY <1>4, <2>1 DEF LightIInv, LightInv, L!TypeOK, L!EndCompute, L!call
    <2> QED
      BY <1>1, <2>2 DEF LightIInv, OneBlock, ClientKept, AnswersRight, Configured
  <1> QED
    BY <1>3, <1>4

LEMMA GoOnIInv ==
  ASSUME LightIInv, NEW c \in Caller, L!NextNonce(c) \/ L!Return(c)
  PROVE  (OneBlock /\ ClientKept /\ AnswersRight)'
  <1>1. /\ \/ pc[c] = "checked" /\ pc'[c] = "ready"
           \/ pc'[c] = "out"
        /\ \A d \in Caller \ {c} : pc'[d] = pc[d]
        /\ UNCHANGED <<kind, blockNum, meets, verdict, disturbed,
                       holder, ethash_light_client, currentBlockNum>>
    BY DEF LightIInv, LightInv, L!TypeOK, L!NextNonce, L!Return, L!call, L!client
  <1> QED
    BY <1>1 DEF LightIInv, OneBlock, ClientKept, AnswersRight, Configured

LEMMA NextLightIInv == OneBlockAtATime /\ LightIInv /\ [L!Next]_(L!vars) => LightIInv'
  <1> SUFFICES ASSUME OneBlockAtATime, LightIInv, [L!Next]_(L!vars)
               PROVE  (OneBlock /\ ClientKept /\ AnswersRight)'
    BY NextLightInv DEF LightIInv
  <1>1. CASE UNCHANGED L!vars
    BY <1>1 DEF L!vars, L!call, L!client, LightIInv, OneBlock, ClientKept, AnswersRight
  <1>2. CASE L!Next
    BY <1>2, CallIInv, ConfigureIInv, RenewedIInv, ComputeIInv, GoOnIInv DEF L!Next
  <1> QED
    BY <1>1, <1>2

-----------------------------------------------------------------------------
(* Variables keep their types and only the owner of the mutex renews,      *)
(* whatever blocks the calls are for.                                      *)
THEOREM LightTypeCorrect == L!Spec => []L!TypeOK
  <1>1. LightInv => L!TypeOK
    BY DEF LightInv
  <1> QED
    BY <1>1, SpecLightInv, PTL

(* The client is for the number noted whenever the mutex is free, whatever *)
(* blocks the calls are for (EthashConfigureLightClient).                  *)
THEOREM NumberAlwaysMatches == L!Spec => []L!NumberMatchesClient
  <1>1. LightInv => L!NumberMatchesClient
    BY DEF LightInv
  <1> QED
    BY <1>1, SpecLightInv, PTL

(* If all calls in progress are for one block number, verifying and mining *)
(* answer for the right block, although they compute without the mutex.    *)
THEOREM RightForOneBlock ==
  ASSUME OneBlockAtATime
  PROVE  L!Spec => []AnswersRight
  <1>1. LightIInv /\ [L!Next]_(L!vars) => LightIInv'
    BY NextLightIInv
  <1>2. LightIInv => AnswersRight
    BY DEF LightIInv
  <1> QED
    BY <1>1, <1>2, InitLightIInv, PTL DEF L!Spec

-----------------------------------------------------------------------------
Blockhash == [Pos -> 0..255]

(* A set of numbers that is not empty has a least one.                     *)
LEMMA LeastOf ==
  ASSUME NEW M \in SUBSET Nat, M # {}
  PROVE  \E m \in M : \A k \in M : m <= k
  <1>1. PICK m \in M : \A k \in M : <<k, m>> \notin OpToRel(<, Nat)
    BY WFMin, NatLessThanWellFounded, Zenon
  <1>2. \A k \in M : ~(k < m)
    BY <1>1, Zenon DEF OpToRel
  <1> QED
    BY <1>2

LEMMA PosIs == Pos \subseteq Nat /\ \A i \in Pos : 0..(i - 1) \subseteq Pos
  BY SizeAssumption DEF Pos

(* The order of hashes: what is at most another byte by byte is at most    *)
(* it; at most is transitive and never holds both ways between two.        *)
LEMMA BytewiseAtMost ==
  ASSUME NEW a \in Blockhash, NEW b \in Blockhash, \A i \in Pos : a[i] <= b[i]
  PROVE  AtMost(a, b)
  <1> DEFINE M == {i \in Pos : a[i] # b[i]}
  <1>1. CASE M = {}
    BY <1>1 DEF AtMost, Blockhash
  <1>2. CASE M # {}
    <2>1. PICK m \in M : \A k \in M : m <= k
      BY <1>2, LeastOf, PosIs
    <2>2. m \in Pos /\ a[m] < b[m]
      <3>1. m \in Pos /\ a[m] # b[m] /\ a[m] <= b[m]
        BY <2>1
      <3>2. a[m] \in Nat /\ b[m] \in Nat
        BY <3>1 DEF Blockhash
      <3> QED
        BY <3>1, <3>2
    <2>3. \A k \in 0..(m - 1) : a[k] = b[k]
      <3>1. ASSUME NEW k \in 0..(m - 1) PROVE k \in Pos /\ k < m
        BY <2>2, PosIs
      <3>2. \A k \in Pos : a[k] # b[k] => m <= k
        BY <2>1
      <3> QED
        BY <2>2, <3>1, <3>2, PosIs
    <2> QED
      BY <2>2, <2>3 DEF AtMost
  <1> QED
    BY <1>1, <1>2

Below(a, b) == \E i \in Pos : a[i] < b[i] /\ \A k \in 0..(i - 1) : a[k] = b[k]

LEMMA AtMostTransitive ==
  ASSUME NEW a \in Blockhash, NEW b \in Blockhash, NEW c \in Blockhash,
         AtMost(a, b), AtMost(b, c)
  PROVE  AtMost(a, c)
  <1>1. CASE a = b \/ b = c
    BY <1>1
  <1>2. CASE Below(a, b) /\ Below(b, c)
    <2>1. PICK i \in Pos : a[i] < b[i] /\ \A k \in 0..(i - 1) : a[k] = b[k]
      BY <1>2 DEF Below
    <2>2. PICK j \in Pos : b[j] < c[j] /\ \A k \in 0..(j - 1) : b[k] = c[k]
      BY <1>2 DEF Below
    <2>3. i \in Nat /\ j \in Nat
      BY PosIs
    <2>4. CASE i < j
      <3>1. a[i] < c[i] /\ \A k \in 0..(i - 1) : a[k] = c[k]
        BY <2>1, <2>2, <2>3, <2>4
      <3> QED
        BY <3>1 DEF AtMost
    <2>5. CASE j < i
      <3>1. a[j] < c[j] /\ \A k \in 0..(j - 1) : a[k] = c[k]
        BY <2>1, <2>2, <2>3, <2>5
      <3> QED
        BY <3>1 DEF AtMost
    <2>6. CASE i = j
      <3>1. a[i] < c[i] /\ \A k \in 0..(i - 1) : a[k] = c[k]
        <4>1. a[i] \in Nat /\ b[i] \in Nat /\ c[i] \in Nat
          BY DEF Blockhash
        <4> QED
          BY <2>1, <2>2, <2>6, <4>1
      <3> QED
        BY <3>1 DEF AtMost
    <2> QED
      BY <2>3, <2>4, <2>5, <2>6
  <1> QED
    BY <1>1, <1>2 DEF AtMost, Below

LEMMA BelowNotAtMost ==
  ASSUME NEW a \in Blockhash, NEW b \in Blockhash, Below(a, b)
  PROVE  AtMost(a, b) /\ ~AtMost(b, a)
  <1>1. PICK i \in Pos : a[i] < b[i] /\ \A k \in 0..(i - 1) : a[k] = b[k]
    BY DEF Below
  <1>2. a[i] \in Nat /\ b[i] \in Nat /\ a # b
    BY <1>1 DEF Blockhash
  <1>3. ASSUME NEW j \in Pos, b[j] < a[j], \A k \in 0..(j - 1) : b[k] = a[k]
        PROVE  FALSE
    <2>1. i \in Nat /\ j \in Nat /\ a[j] \in Nat /\ b[j] \in Nat
      <3>1. a[j] \in 0..255 /\ b[j] \in 0..255
        BY Zenon DEF Blockhash
      <3>2. i \in Nat /\ j \in Nat
        BY PosIs
      <3> QED
        BY <3>1, <3>2
    <2>2. CASE i < j
      BY <1>1, <1>2, <1>3, <2>1, <2>2
    <2>3. CASE j < i
      BY <1>1, <1>3, <2>1, <2>3
    <2>4. CASE i = j
      BY <1>1, <1>2, <1>3, <2>4
    <2> QED
      BY <2>1, <2>2, <2>3, <2>4
  <1> QED
    BY <1>1, <1>2, <1>3 DEF AtMost

(* The bytes of the largest hash that meets a difficulty: what is written  *)
(* in hex digits is read back as it was.                                   *)
Mask(d) == masks[(d % 8) + 1]

LEMMA MaskIs ==
  ASSUME NEW d \in Nat
  PROVE  /\ Mask(d) \in 0..255
         /\ d % 8 = 0 => Mask(d) = 255
         /\ d % 8 = 1 => Mask(d) = 127
         /\ d % 8 = 2 => Mask(d) = 63
         /\ d % 8 = 3 => Mask(d) = 31
         /\ d % 8 = 4 => Mask(d) = 15
         /\ d % 8 = 5 => Mask(d) = 7
         /\ d % 8 = 6 => Mask(d) = 1
         /\ d % 8 = 7 => Mask(d) = 0
  <1>1. d % 8 \in 0..7
    OBVIOUS
  <1>2. /\ masks[0 + 1] = 255 /\ masks[1 + 1] = 127 /\ masks[2 + 1] = 63 /\ masks[3 + 1] = 31
        /\ masks[4 + 1] = 15 /\ masks[5 + 1] = 7 /\ masks[6 + 1] = 1 /\ masks[7 + 1] = 0
    BY DEF masks
  <1> QED
    BY <1>1, <1>2 DEF Mask

LEMMA ReadBack ==
  ASSUME NEW b \in Blockhash
  PROVE  StringToBlockhash(BytesToHexString(b)) = b
  <1> DEFINE s == BytesToHexString(b)
  <1>1. ASSUME NEW i \in Pos
        PROVE  16 * s[2 * i] + s[2 * i + 1] = b[i]
    <2>1. i \in Nat /\ i <= UINT256_SIZE - 1 /\ UINT256_SIZE \in Nat
      BY SizeAssumption DEF Pos
    <2>2. /\ 2 * i \in 0 .. 2 * UINT256_SIZE - 1
          /\ 2 * i + 1 \in 0 .. 2 * UINT256_SIZE - 1
      BY <2>1
    <2>3. /\ (2 * i) % 2 = 0 /\ (2 * i) \div 2 = i
          /\ (2 * i + 1) % 2 = 1 /\ (2 * i + 1) \div 2 = i
      BY <2>1
    <2>4. s[2 * i] = b[i] \div 16 /\ s[2 * i + 1] = b[i] % 16
      BY <2>2, <2>3 DEF BytesToHexString
    <2>5. b[i] \in Nat
      BY DEF Blockhash
    <2>6. 16 * (b[i] \div 16) + (b[i] % 16) = b[i]
      BY <2>5
    <2> QED
      BY <2>4, <2>6
  <1> HIDE DEF s
  <1> QED
    BY <1>1 DEF StringToBlockhash, s, Blockhash

LEMMA LevelIs ==
  ASSUME NEW d \in Difficulty
  PROVE  /\ DifficultyLevelInInt(d) \in Blockhash
         /\ \A i \in Pos :
              /\ i < d \div 8 => DifficultyLevelInInt(d)[i] = 0
              /\ i = d \div 8 => DifficultyLevelInInt(d)[i] = Mask(d)
  <1> DEFINE b == [i \in Pos |-> CASE i < d \div 8 -> 0
                                   [] i = d \div 8 -> masks[(d % 8) + 1]
                                   [] OTHER -> 255]
  <1>1. d \in Nat
    BY SizeAssumption DEF Difficulty, Bits
  <1>2. Mask(d) \in 0..255
    BY <1>1, MaskIs
  <1>3. \A i \in Pos : /\ i < d \div 8 => b[i] = 0
                       /\ i = d \div 8 => b[i] = Mask(d)
                       /\ ~(i < d \div 8) /\ i # d \div 8 => b[i] = 255
    BY PosIs, <1>1 DEF Mask
  <1>4. b \in Blockhash
    BY <1>2, <1>3 DEF Blockhash
  <1>5. DifficultyLevelInInt(d) = b
    BY <1>4, ReadBack DEF DifficultyLevelInInt
  <1> QED
    BY <1>3, <1>4, <1>5

(* The first bit of a byte, and the bits from it on                        *)
Bit(t) == 2 ^ (7 - t)
Rest(t) == 2 ^ (8 - t) - 1

LEMMA BitIs ==
  /\ Bit(0) = 128 /\ Bit(1) = 64 /\ Bit(2) = 32 /\ Bit(3) = 16
  /\ Bit(4) = 8 /\ Bit(5) = 4 /\ Bit(6) = 2 /\ Bit(7) = 1
  BY DEF Bit

LEMMA RestIs ==
  /\ Rest(0) = 255 /\ Rest(1) = 127 /\ Rest(2) = 63 /\ Rest(3) = 31
  /\ Rest(4) = 15 /\ Rest(5) = 7 /\ Rest(6) = 3 /\ Rest(7) = 1
  BY DEF Rest

LEMMA BitOf ==
  ASSUME NEW t \in 0..7
  PROVE  Bit(t) \in 1..128 /\ Rest(t) \in 1..255
  <1>1. t \in {0, 1, 2, 3, 4, 5, 6, 7}
    OBVIOUS
  <1> QED
    BY <1>1, BitIs, RestIs

LEMMA FirstBit ==
  ASSUME NEW v \in 1..255
  PROVE  \E t \in 0..7 : Bit(t) <= v /\ v <= Rest(t)
  <1>1. \/ v >= 128
        \/ v < 128 /\ v >= 64
        \/ v < 64 /\ v >= 32
        \/ v < 32 /\ v >= 16
        \/ v < 16 /\ v >= 8
        \/ v < 8 /\ v >= 4
        \/ v < 4 /\ v >= 2
        \/ v = 1
    OBVIOUS
  <1> QED
    BY <1>1, BitIs, RestIs

LEMMA LeastHashIs ==
  ASSUME NEW z \in 0..Bits
  PROVE  /\ LeastHash(z) \in Blockhash
         /\ \A i \in Pos : LeastHash(z)[i] =
              IF z < Bits /\ z \div 8 = i THEN Bit(z % 8) ELSE 0
  <1>1. z \in Nat
    BY SizeAssumption DEF Bits
  <1> DEFINE p == Bit(z % 8)
  <1>2. p \in 0..255
    BY <1>1, BitOf
  <1> HIDE DEF p
  <1>3. LeastHash(z) = [i \in Pos |-> IF z < Bits /\ z \div 8 = i THEN p ELSE 0]
    BY DEF LeastHash, p, Bit
  <1>4. LeastHash(z) \in Blockhash
    BY <1>2, <1>3 DEF Blockhash
  <1> QED
    BY <1>3, <1>4 DEF p

LEMMA GreatestHashIs ==
  ASSUME NEW z \in 0..Bits
  PROVE  /\ GreatestHash(z) \in Blockhash
         /\ \A i \in Pos :
              /\ i < z \div 8 => GreatestHash(z)[i] = 0
              /\ i = z \div 8 => GreatestHash(z)[i] = Rest(z % 8)
              /\ i > z \div 8 => GreatestHash(z)[i] = 255
  <1>1. z \in Nat /\ z \div 8 \in Nat
    BY SizeAssumption DEF Bits
  <1> DEFINE p == Rest(z % 8)
  <1>2. p \in 0..255
    BY <1>1, BitOf
  <1> HIDE DEF p
  <1>3. GreatestHash(z) = [i \in Pos |-> CASE i < z \div 8 -> 0
                                          [] i = z \div 8 -> p
                                          [] OTHER -> 255]
    BY DEF GreatestHash, p, Rest
  <1>4. \A i \in Pos : /\ i < z \div 8 => GreatestHash(z)[i] = 0
                       /\ i = z \div 8 => GreatestHash(z)[i] = p
                       /\ i > z \div 8 => GreatestHash(z)[i] = 255
    BY <1>1, <1>3, PosIs
  <1>5. GreatestHash(z) \in [Pos -> 0..255]
    <2>1. \A i \in Pos : GreatestHash(z)[i] \in 0..255
      BY <1>1, <1>2, <1>4, PosIs
    <2> QED
      BY <1>3, <2>1
  <1> QED
    BY <1>4, <1>5 DEF p, Blockhash

(* Every hash has some number of leading zero bits.                        *)
LEMMA LeadingZerosIs ==
  ASSUME NEW h \in Blockhash
  PROVE  LeadingZeros(h) \in 0..Bits /\ AtMost(LeastHash(LeadingZeros(h)), h)
  <1> DEFINE M == {i \in Pos : h[i] # 0}
  <1>1. \E z \in 0..Bits : /\ \A i \in Pos : LeastHash(z)[i] <= h[i]
                           /\ \A i \in Pos : h[i] <= GreatestHash(z)[i]
    <2>1. CASE M = {}
      <3>1. Bits \in Nat /\ Bits \in 0..Bits /\ Bits \div 8 = UINT256_SIZE
        BY SizeAssumption DEF Bits
      <3>2. \A i \in Pos : h[i] = 0 /\ i < Bits \div 8
        BY <2>1, <3>1, SizeAssumption DEF Pos
      <3>3. \A i \in Pos : LeastHash(Bits)[i] = 0 /\ GreatestHash(Bits)[i] = 0
        BY <3>1, <3>2, LeastHashIs, GreatestHashIs
      <3> QED
        BY <3>1, <3>2, <3>3
    <2>2. CASE M # {}
      <3>1. PICK m \in M : \A k \in M : m <= k
        BY <2>2, LeastOf, PosIs
      <3>2. m \in Pos /\ m \in Nat /\ h[m] \in 1..255
        BY <3>1, PosIs DEF Blockhash
      <3>3. PICK t \in 0..7 : Bit(t) <= h[m] /\ h[m] <= Rest(t)
        BY <3>2, FirstBit
      <3> DEFINE z == 8 * m + t
      <3>4. /\ z \div 8 = m /\ z % 8 = t
            /\ z \in Nat /\ z < Bits /\ z \in 0..Bits
        BY <3>2, <3>3, SizeAssumption, SMTT(30) DEF Pos, Bits
      <3>5. \A i \in Pos : h[i] \in 0..255 /\ i \in Nat /\ (i < m => h[i] = 0)
        BY <3>1, <3>2, PosIs DEF Blockhash
      <3> HIDE DEF z
      <3>6. \A i \in Pos : LeastHash(z)[i] <= h[i]
        <4>1. \A i \in Pos : LeastHash(z)[i] = IF m = i THEN Bit(t) ELSE 0
          BY <3>4, LeastHashIs
        <4> QED
          BY <3>3, <3>5, <4>1
      <3>7. \A i \in Pos : h[i] <= GreatestHash(z)[i]
        <4>1. \A i \in Pos :
                /\ i < m => GreatestHash(z)[i] = 0
                /\ i = m => GreatestHash(z)[i] = Rest(t)
                /\ i > m => GreatestHash(z)[i] = 255
          BY <3>4, GreatestHashIs
        <4> QED
          BY <3>2, <3>3, <3>5, <4>1, SMTT(30)
      <3> QED
        BY <3>4, <3>6, <3>7
    <2> QED
      BY <2>1, <2>2
  <1>2. \E z \in 0..Bits : AtMost(LeastHash(z), h) /\ AtMost(h, GreatestHash(z))
    BY <1>1, LeastHashIs, GreatestHashIs, BytewiseAtMost
  <1> DEFINE R(z) == AtMost(LeastHash(z), h) /\ AtMost(h, GreatestHash(z))
  <1> HIDE DEF R
  <1>3. (CHOOSE z \in 0..Bits : R(z)) \in 0..Bits /\ R(CHOOSE z \in 0..Bits : R(z))
    BY <1>2 DEF R
  <1> QED
    BY <1>3 DEF R, LeadingZeros

(* A hash with fewer leading zero bits is above the level of a difficulty. *)
LEMMA LevelBelow ==
  ASSUME NEW d \in Difficulty, NEW z \in Nat, z < d
  PROVE  Below(DifficultyLevelInInt(d), LeastHash(z))
  <1>1. d \in Nat /\ Bits \in Nat /\ d < Bits /\ z < Bits /\ z \in 0..Bits
    BY SizeAssumption DEF Difficulty, Bits
  <1> DEFINE q == z \div 8
  <1>2. /\ q \in Nat /\ d \div 8 \in Nat /\ q <= d \div 8
        /\ q = d \div 8 => (z % 8) < (d % 8)
        /\ z % 8 \in 0..7 /\ d % 8 \in 0..7
    BY <1>1
  <1>3. q \in Pos
    BY <1>1, <1>2, SizeAssumption DEF Pos, Bits
  <1>4. /\ LeastHash(z)[q] = Bit(z % 8)
        /\ \A k \in 0..(q - 1) : LeastHash(z)[k] = 0
    BY <1>1, <1>2, <1>3, LeastHashIs, PosIs
  <1>5. \A k \in 0..(q - 1) : DifficultyLevelInInt(d)[k] = 0
    BY <1>2, <1>3, LevelIs, PosIs
  <1>6. DifficultyLevelInInt(d)[q] < Bit(z % 8)
    <2>1. CASE q < d \div 8
      BY <1>1, <1>3, <2>1, <1>2, LevelIs, BitOf, SMTT(30)
    <2>2. CASE q = d \div 8
      <3>1. DifficultyLevelInInt(d)[q] = Mask(d)
        BY <1>3, <2>2, LevelIs
      <3> DEFINE r == z % 8
                 s == d % 8
      <3>2. r \in 0..7 /\ s \in 0..7 /\ r < s
        BY <1>2, <2>2
      <3>3. /\ s = 1 => Mask(d) = 127
            /\ s = 2 => Mask(d) = 63
            /\ s = 3 => Mask(d) = 31
            /\ s = 4 => Mask(d) = 15
            /\ s = 5 => Mask(d) = 7
            /\ s = 6 => Mask(d) = 1
            /\ s = 7 => Mask(d) = 0
        BY <1>1, MaskIs
      <3> HIDE DEF r, s
      <3>4. Mask(d) < Bit(r)
        BY <3>2, <3>3, BitIs
      <3> QED
        BY <3>1, <3>4 DEF r
    <2> QED
      BY <1>2, <2>1, <2>2
  <1> QED
    BY <1>3, <1>4, <1>5, <1>6 DEF Below

(* What is accepted is at most the level and so below the hashes with      *)
(* fewer zero bits, among them the boundary for the GPU.                   *)
LEMMA AtMostLevel ==
  ASSUME NEW d \in Difficulty, NEW h \in Blockhash, CheckSoln(h, d)
  PROVE  /\ LeadingZeros(h) >= d
         /\ d > 0 => AtMost(h, Boundary(d))
  <1> DEFINE z == LeadingZeros(h)
             v == DifficultyLevelInInt(d)
  <1>1. d \in Nat /\ Bits \in Nat /\ d < Bits
    BY SizeAssumption DEF Difficulty, Bits
  <1>2. v \in Blockhash /\ AtMost(h, v)
    BY LevelIs DEF CheckSoln
  <1>3. z >= d
    <2>1. z \in 0..Bits /\ AtMost(LeastHash(z), h) /\ LeastHash(z) \in Blockhash
      BY LeadingZerosIs, LeastHashIs
    <2>2. AtMost(LeastHash(z), v)
      BY <1>2, <2>1, AtMostTransitive
    <2>3. ASSUME z < d PROVE FALSE
      BY <1>1, <1>2, <2>1, <2>2, <2>3, LevelBelow, BelowNotAtMost
    <2> QED
      BY <1>1, <2>1, <2>3
  <1>4. ASSUME d > 0 PROVE AtMost(h, Boundary(d))
    <2>1. d - 1 \in Nat /\ d - 1 < d /\ d - 1 \in 0..Bits
      BY <1>1, <1>4
    <2>2. Boundary(d) = LeastHash(d - 1)
      BY <1>1, <1>4 DEF Boundary, LeastHash
    <2>3. LeastHash(d - 1) \in Blockhash /\ AtMost(v, LeastHash(d - 1))
      BY <1>2, <2>1, LevelBelow, BelowNotAtMost, LeastHashIs
    <2> QED
      BY <1>2, <2>2, <2>3, AtMostTransitive
  <1> QED
    BY <1>3, <1>4

(* The inductive invariant of one check                                    *)
CheckIInv ==
  /\ difficulty \in Difficulty
  /\ result \in Blockhash
  /\ accepted => CheckSoln(result, difficulty)

(* Every accepted hash has as many leading zero bits as its difficulty     *)
(* asks for and lies within the boundary given to the GPU.                 *)
THEOREM AcceptedMeetDifficulty == CheckSpec => []HashesAccepted
  <1>1. CheckInit => CheckIInv
    BY SizeAssumption DEF CheckInit, CheckIInv, Blockhash
  <1>2. CheckIInv /\ [Check]_check_vars => CheckIInv'
    BY DEF CheckIInv, Check, check_vars
  <1>3. CheckIInv => HashesAccepted
    BY AtMostLevel DEF CheckIInv, HashesAccepted
  <1> QED
    BY <1>1, <1>2, <1>3, PTL DEF CheckSpec

-----------------------------------------------------------------------------
(* The objects of LedgerBlocks                                             *)
Headers == {"TxBlockHeader", "MicroBlockHeader", "DSBlockHeader", "VCBlockHeader"}
Blocks == {"TxBlock", "MicroBlock", "DSBlock", "VCBlock"}

BlockTypeOK ==
  /\ class \in Class
  /\ obj \in Objects(class)
  /\ wire \subseteq Objects(class)
  /\ taken \in BOOLEAN

(* The inductive invariant: types, and what was accepted can be written    *)
BlockIInv == BlockTypeOK /\ ReceivedForwards

LEMMA ObjectsOf ==
  /\ Objects("TxBlockHeader") = TxBlockHeaders
  /\ Objects("MicroBlockHeader") = MicroBlockHeaders
  /\ Objects("DSBlockHeader") = DSBlockHeaders
  /\ Objects("VCBlockHeader") = VCBlockHeaders
  /\ Objects("TxBlock") = TxBlocks
  /\ Objects("MicroBlock") = MicroBlocks
  /\ Objects("DSBlock") = DSBlocks
  /\ Objects("VCBlock") = VCBlocks
  BY DEF Objects

LEMMA ClassIs == class \in Class => class \in Headers \cup Blocks
  BY BlocksAssumption DEF Headers, Blocks

(* An object read in part, or with other signatures, is one of its class.  *)
LEMMA PartlyTyped ==
  ASSUME NEW c \in Headers \cup Blocks, NEW old \in Objects(c), NEW new \in Objects(c)
  PROVE  Partly(old, new) \subseteq Objects(c)
  <1>1. ASSUME NEW a \in TxBlockHeaders, NEW b \in TxBlockHeaders PROVE Partly(a, b) \subseteq TxBlockHeaders
    BY DEF Partly, TxBlockHeaders
  <1>2. ASSUME NEW a \in MicroBlockHeaders, NEW b \in MicroBlockHeaders PROVE Partly(a, b) \subseteq MicroBlockHeaders
    BY DEF Partly, MicroBlockHeaders
  <1>3. ASSUME NEW a \in DSBlockHeaders, NEW b \in DSBlockHeaders PROVE Partly(a, b) \subseteq DSBlockHeaders
    BY DEF Partly, DSBlockHeaders
  <1>4. ASSUME NEW a \in VCBlockHeaders, NEW b \in VCBlockHeaders PROVE Partly(a, b) \subseteq VCBlockHeaders
    BY DEF Partly, VCBlockHeaders
  <1>5. ASSUME NEW a \in TxBlocks, NEW b \in TxBlocks PROVE Partly(a, b) \subseteq TxBlocks
    BY DEF Partly, TxBlocks
  <1>6. ASSUME NEW a \in MicroBlocks, NEW b \in MicroBlocks PROVE Partly(a, b) \subseteq MicroBlocks
    BY DEF Partly, MicroBlocks
  <1>7. ASSUME NEW a \in DSBlocks, NEW b \in DSBlocks PROVE Partly(a, b) \subseteq DSBlocks
    BY DEF Partly, DSBlocks
  <1>8. ASSUME NEW a \in VCBlocks, NEW b \in VCBlocks PROVE Partly(a, b) \subseteq VCBlocks
    BY DEF Partly, VCBlocks
  <1> QED
    BY <1>1, <1>2, <1>3, <1>4, <1>5, <1>6, <1>7, <1>8, ObjectsOf DEF Headers, Blocks

LEMMA SignedTyped ==
  ASSUME NEW c \in Blocks, NEW o \in Objects(c), NEW s \in CoSignatures
  PROVE  /\ [o EXCEPT !.m_cosigs = s] \in Objects(c)
         /\ c = "TxBlock" => (TxCounts([o EXCEPT !.m_cosigs = s]) <=> TxCounts(o))
         /\ c = "MicroBlock" => (MicroCounts([o EXCEPT !.m_cosigs = s]) <=> MicroCounts(o))
  <1>1. ASSUME NEW b \in TxBlocks
        PROVE  /\ [b EXCEPT !.m_cosigs = s] \in TxBlocks
               /\ [b EXCEPT !.m_cosigs = s].m_header = b.m_header
               /\ [b EXCEPT !.m_cosigs = s].m_microBlockHashes = b.m_microBlockHashes
    BY DEF TxBlocks
  <1>2. ASSUME NEW b \in MicroBlocks
        PROVE  /\ [b EXCEPT !.m_cosigs = s] \in MicroBlocks
               /\ [b EXCEPT !.m_cosigs = s].m_header = b.m_header
               /\ [b EXCEPT !.m_cosigs = s].m_tranHashes = b.m_tranHashes
    BY DEF MicroBlocks
  <1>3. ASSUME NEW b \in DSBlocks PROVE [b EXCEPT !.m_cosigs = s] \in DSBlocks
    BY DEF DSBlocks
  <1>4. ASSUME NEW b \in VCBlocks PROVE [b EXCEPT !.m_cosigs = s] \in VCBlocks
    BY DEF VCBlocks
  <1> DEFINE q == [o EXCEPT !.m_cosigs = s]
  <1> HIDE DEF q
  <1> QED
    BY <1>1, <1>2, <1>3, <1>4, ObjectsOf DEF Blocks, TxCounts, MicroCounts

(* The invariant holds at first and is kept by every step.                 *)
LEMMA BlockInitIInv == BlockInit => BlockIInv
  <1> SUFFICES ASSUME BlockInit PROVE BlockIInv
    OBVIOUS
  <1>1. obj \in Objects(class)
    BY ClassIs, ObjectsOf DEF BlockInit, Headers, Blocks, TxBlockHeaderInit, MicroBlockHeaderInit,
       DSBlockHeaderInit, TxBlockInit, MicroBlockInit, DSBlockInit
  <1> QED
    BY <1>1 DEF BlockInit, BlockIInv, BlockTypeOK, ReceivedForwards

LEMMA ConstructIInv ==
  ASSUME BlockIInv, NEW x \in Objects(class), Construct(x)
  PROVE  BlockIInv'
  BY DEF BlockIInv, BlockTypeOK, ReceivedForwards, Construct

LEMMA WriteIInv ==
  ASSUME BlockIInv, NEW c, Write(c)
  PROVE  BlockIInv'
  BY DEF BlockIInv, BlockTypeOK, ReceivedForwards, Write, Counted

LEMMA ReadIInv ==
  ASSUME BlockIInv, NEW c, NEW src \in Objects(class), NEW a \in BOOLEAN, Read(c, src, a),
         a => Counted(src)
  PROVE  BlockIInv'
  <1>1. CASE obj' = src /\ taken' = a
    BY <1>1 DEF BlockIInv, BlockTypeOK, ReceivedForwards, Read, Counted
  <1>2. CASE obj' \in Partly(obj, src) /\ taken' = FALSE
    <2>1. obj' \in Objects(class)
      BY <1>2, ClassIs, PartlyTyped DEF BlockIInv, BlockTypeOK
    <2> QED
      BY <1>2, <2>1 DEF BlockIInv, BlockTypeOK, ReceivedForwards, Read
  <1> QED
    BY <1>1, <1>2 DEF Read

LEMMA BlockStepIInv == BlockIInv /\ [BlockNext]_block_vars => BlockIInv'
  <1> SUFFICES ASSUME BlockIInv, [BlockNext]_block_vars PROVE BlockIInv'
    OBVIOUS
  <1>1. ASSUME NEW x \in Objects(class),
               TxBlock(x) \/ MicroBlock(x) \/ DSBlock(x) \/ VCBlock(x) \/ Header(x)
        PROVE  BlockIInv'
    BY <1>1, ConstructIInv DEF TxBlock, MicroBlock, DSBlock, VCBlock, Header
  <1>2. ASSUME NEW c \in CoSignatures, SetCoSignatures(c)
        PROVE  BlockIInv'
    <2>1. class \in Blocks /\ class' = class /\ obj \in Objects(class)
      BY <1>2 DEF SetCoSignatures, Blocks, BlockIInv, BlockTypeOK
    <2>2. /\ obj' \in Objects(class)
          /\ class = "TxBlock" => (TxCounts(obj') <=> TxCounts(obj))
          /\ class = "MicroBlock" => (MicroCounts(obj') <=> MicroCounts(obj))
      BY <1>2, <2>1, SignedTyped DEF SetCoSignatures
    <2> QED
      BY <1>2, <2>1, <2>2
      DEF SetCoSignatures, BlockIInv, BlockTypeOK, ReceivedForwards, Counted
  <1>3. ASSUME \/ TxBlockSerialize \/ MicroBlockSerialize \/ DSBlockSerialize
               \/ VCBlockSerialize \/ TxBlockHeaderSerialize \/ MicroBlockHeaderSerialize
               \/ DSBlockHeaderSerialize \/ VCBlockHeaderSerialize
        PROVE  BlockIInv'
    BY <1>3, WriteIInv
    DEF TxBlockSerialize, MicroBlockSerialize, DSBlockSerialize, VCBlockSerialize,
        TxBlockHeaderSerialize, MicroBlockHeaderSerialize, DSBlockHeaderSerialize,
        VCBlockHeaderSerialize
  <1>4. ASSUME NEW src \in Objects(class), TxBlockDeserialize(src)
        PROVE  BlockIInv'
    BY <1>4, ReadIInv DEF TxBlockDeserialize, TxCounts, Read, Counted
  <1>5. ASSUME NEW src \in Objects(class), MicroBlockDeserialize(src)
        PROVE  BlockIInv'
    BY <1>5, ReadIInv DEF MicroBlockDeserialize, MicroCounts, Read, Counted
  <1>6. ASSUME NEW src \in Objects(class),
               \/ DSBlockDeserialize(src) \/ VCBlockDeserialize(src)
               \/ TxBlockHeaderDeserialize(src) \/ MicroBlockHeaderDeserialize(src)
               \/ DSBlockHeaderDeserialize(src) \/ VCBlockHeaderDeserialize(src)
        PROVE  BlockIInv'
    <2>1. PICK c \in (Headers \cup Blocks) \ {"TxBlock", "MicroBlock"} : Read(c, src, TRUE)
      BY <1>6
      DEF DSBlockDeserialize, VCBlockDeserialize, TxBlockHeaderDeserialize,
          MicroBlockHeaderDeserialize, DSBlockHeaderDeserialize, VCBlockHeaderDeserialize,
          Headers, Blocks
    <2>2. Counted(src)
      BY <2>1 DEF Counted, Read
    <2> QED
      BY <2>1, <2>2, ReadIInv
  <1>7. CASE UNCHANGED block_vars
    BY <1>7 DEF block_vars, BlockIInv, BlockTypeOK, ReceivedForwards, Counted
  <1> QED
    BY <1>1, <1>2, <1>3, <1>4, <1>5, <1>6, <1>7 DEF BlockNext

(* The order of three and of four numbers, the first one first             *)
LEMMA TieLess3 ==
  ASSUME NEW s, NEW t, DOMAIN s = 1..3
  PROVE  TieLess(s, t) <=> \/ s[1] < t[1]
                           \/ s[1] = t[1] /\ s[2] < t[2]
                           \/ s[1] = t[1] /\ s[2] = t[2] /\ s[3] < t[3]
  <1>1. 1..(1 - 1) = {} /\ 1..(2 - 1) = {1} /\ 1..(3 - 1) = {1, 2} /\ 1..3 = {1, 2, 3}
    OBVIOUS
  <1>2. TieLess(s, t)
          <=> \E i \in {1, 2, 3} : s[i] < t[i] /\ \A j \in 1..(i - 1) : s[j] = t[j]
    BY <1>1 DEF TieLess
  <1> QED
    BY <1>1, <1>2

LEMMA TieLess4 ==
  ASSUME NEW s, NEW t, DOMAIN s = 1..4
  PROVE  TieLess(s, t) <=> \/ s[1] < t[1]
                           \/ s[1] = t[1] /\ s[2] < t[2]
                           \/ s[1] = t[1] /\ s[2] = t[2] /\ s[3] < t[3]
                           \/ s[1] = t[1] /\ s[2] = t[2] /\ s[3] = t[3] /\ s[4] < t[4]
  <1>1. /\ 1..(1 - 1) = {} /\ 1..(2 - 1) = {1} /\ 1..(3 - 1) = {1, 2}
        /\ 1..(4 - 1) = {1, 2, 3} /\ 1..4 = {1, 2, 3, 4}
    OBVIOUS
  <1>2. TieLess(s, t)
          <=> \E i \in {1, 2, 3, 4} : s[i] < t[i] /\ \A j \in 1..(i - 1) : s[j] = t[j]
    BY <1>1 DEF TieLess
  <1> QED
    BY <1>1, <1>2

LEMMA FlatOrder ==
  ASSUME NEW p \in Hashes, NEW q \in Hashes
  PROVE  Flat(p) \in Int /\ (p = q <=> Flat(p) = Flat(q))
  BY BlocksAssumption DEF Hashes, Flat

(* Transaction blocks and their headers are ordered member by member.      *)
LEMMA TxTieIs ==
  ASSUME NEW h \in TxBlockHeaders, NEW x
  PROVE  /\ h.num \in Nat /\ h.m_numMicroBlockHashes \in Nat /\ h.last \in Nat
         /\ DOMAIN TxTie(h) = 1..3
         /\ TxTie(h)[1] = h.num /\ TxTie(h)[2] = h.m_numMicroBlockHashes /\ TxTie(h)[3] = h.last
         /\ DOMAIN Append(TxTie(h), x) = 1..4
         /\ Append(TxTie(h), x)[1] = h.num /\ Append(TxTie(h), x)[2] = h.m_numMicroBlockHashes
         /\ Append(TxTie(h), x)[3] = h.last /\ Append(TxTie(h), x)[4] = x
  <1>1. h.num \in Nat /\ h.m_numMicroBlockHashes \in Nat /\ h.last \in Nat
    BY BlocksAssumption DEF TxBlockHeaders
  <1> QED
    BY <1>1 DEF TxTie

LEMMA TxBlockHeaderOrder ==
  ASSUME NEW h \in TxBlockHeaders, NEW g \in TxBlockHeaders
  PROVE  /\ TxBlockHeaderLess(h, g)
              <=> \/ h.num < g.num
                  \/ h.num = g.num /\ h.m_numMicroBlockHashes < g.m_numMicroBlockHashes
                  \/ h.num = g.num /\ h.m_numMicroBlockHashes = g.m_numMicroBlockHashes /\ h.last < g.last
         /\ h = g <=> h.num = g.num /\ h.m_numMicroBlockHashes = g.m_numMicroBlockHashes /\ h.last = g.last
  <1>1. h = g <=> h.num = g.num /\ h.m_numMicroBlockHashes = g.m_numMicroBlockHashes /\ h.last = g.last
    BY DEF TxBlockHeaders
  <1> QED
    BY <1>1, TxTieIs, TieLess3 DEF TxBlockHeaderLess

LEMMA TxBlockOrder ==
  ASSUME NEW a \in TxBlocks, NEW b \in TxBlocks
  PROVE  /\ a.m_header \in TxBlockHeaders /\ Flat(a.m_microBlockHashes) \in Int
         /\ TxBlockLess(a, b)
              <=> \/ TxBlockHeaderLess(a.m_header, b.m_header)
                  \/ a.m_header = b.m_header /\ Flat(a.m_microBlockHashes) < Flat(b.m_microBlockHashes)
         /\ TxBlockEqual(a, b)
              <=> a.m_header = b.m_header /\ Flat(a.m_microBlockHashes) = Flat(b.m_microBlockHashes)
  <1>1. /\ a.m_header \in TxBlockHeaders /\ a.m_microBlockHashes \in Hashes
        /\ b.m_header \in TxBlockHeaders /\ b.m_microBlockHashes \in Hashes
    BY DEF TxBlocks
  <1>2. /\ Flat(a.m_microBlockHashes) \in Int /\ Flat(b.m_microBlockHashes) \in Int
        /\ a.m_microBlockHashes = b.m_microBlockHashes <=> Flat(a.m_microBlockHashes) = Flat(b.m_microBlockHashes)
    BY <1>1, FlatOrder
  <1>3. TxBlockLess(a, b)
          <=> \/ TxBlockHeaderLess(a.m_header, b.m_header)
              \/ a.m_header = b.m_header /\ Flat(a.m_microBlockHashes) < Flat(b.m_microBlockHashes)
    <2> DEFINE h == a.m_header  g == b.m_header
               s == Append(TxTie(h), Flat(a.m_microBlockHashes))
               t == Append(TxTie(g), Flat(b.m_microBlockHashes))
    <2>1. /\ DOMAIN s = 1..4
          /\ s[1] = h.num /\ s[2] = h.m_numMicroBlockHashes /\ s[3] = h.last /\ s[4] = Flat(a.m_microBlockHashes)
          /\ t[1] = g.num /\ t[2] = g.m_numMicroBlockHashes /\ t[3] = g.last /\ t[4] = Flat(b.m_microBlockHashes)
      BY <1>1, TxTieIs, ZenonT(40)
    <2>2. TxBlockLess(a, b) <=> TieLess(s, t)
      BY DEF TxBlockLess
    <2> HIDE DEF s, t
    <2> QED
      BY <1>1, <2>1, <2>2, TxBlockHeaderOrder, TieLess4
  <1> QED
    BY <1>1, <1>2, <1>3 DEF TxBlockEqual

(* Micro blocks and their headers are ordered member by member.            *)
LEMMA MicroTieIs ==
  ASSUME NEW h \in MicroBlockHeaders, NEW x
  PROVE  /\ h.num \in Nat /\ h.m_numTxs \in Nat /\ h.last \in Nat
         /\ DOMAIN MicroTie(h) = 1..3
         /\ MicroTie(h)[1] = h.num /\ MicroTie(h)[2] = h.m_numTxs /\ MicroTie(h)[3] = h.last
         /\ DOMAIN Append(MicroTie(h), x) = 1..4
         /\ Append(MicroTie(h), x)[1] = h.num /\ Append(MicroTie(h), x)[2] = h.m_numTxs
         /\ Append(MicroTie(h), x)[3] = h.last /\ Append(MicroTie(h), x)[4] = x
  <1>1. h.num \in Nat /\ h.m_numTxs \in Nat /\ h.last \in Nat
    BY BlocksAssumption DEF MicroBlockHeaders
  <1> QED
    BY <1>1 DEF MicroTie

LEMMA MicroBlockHeaderOrder ==
  ASSUME NEW h \in MicroBlockHeaders, NEW g \in MicroBlockHeaders
  PROVE  /\ MicroBlockHeaderLess(h, g)
              <=> \/ h.num < g.num
                  \/ h.num = g.num /\ h.m_numTxs < g.m_numTxs
                  \/ h.num = g.num /\ h.m_numTxs = g.m_numTxs /\ h.last < g.last
         /\ h = g <=> h.num = g.num /\ h.m_numTxs = g.m_numTxs /\ h.last = g.last
  <1>1. h = g <=> h.num = g.num /\ h.m_numTxs = g.m_numTxs /\ h.last = g.last
    BY DEF MicroBlockHeaders
  <1> QED
    BY <1>1, MicroTieIs, TieLess3 DEF MicroBlockHeaderLess

LEMMA MicroBlockOrder ==
  ASSUME NEW a \in MicroBlocks, NEW b \in MicroBlocks
  PROVE  /\ a.m_header \in MicroBlockHeaders /\ Flat(a.m_tranHashes) \in Int
         /\ MicroBlockLess(a, b)
              <=> \/ MicroBlockHeaderLess(a.m_header, b.m_header)
                  \/ a.m_header = b.m_header /\ Flat(a.m_tranHashes) < Flat(b.m_tranHashes)
         /\ MicroBlockEqual(a, b)
              <=> a.m_header = b.m_header /\ Flat(a.m_tranHashes) = Flat(b.m_tranHashes)
  <1>1. /\ a.m_header \in MicroBlockHeaders /\ a.m_tranHashes \in Hashes
        /\ b.m_header \in MicroBlockHeaders /\ b.m_tranHashes \in Hashes
    BY DEF MicroBlocks
  <1>2. /\ Flat(a.m_tranHashes) \in Int /\ Flat(b.m_tranHashes) \in Int
        /\ a.m_tranHashes = b.m_tranHashes <=> Flat(a.m_tranHashes) = Flat(b.m_tranHashes)
    BY <1>1, FlatOrder
  <1>3. MicroBlockLess(a, b)
          <=> \/ MicroBlockHeaderLess(a.m_header, b.m_header)
              \/ a.m_header = b.m_header /\ Flat(a.m_tranHashes) < Flat(b.m_tranHashes)
    <2> DEFINE h == a.m_header  g == b.m_header
               s == Append(MicroTie(h), Flat(a.m_tranHashes))
               t == Append(MicroTie(g), Flat(b.m_tranHashes))
    <2>1. /\ DOMAIN s = 1..4
          /\ s[1] = h.num /\ s[2] = h.m_numTxs /\ s[3] = h.last /\ s[4] = Flat(a.m_tranHashes)
          /\ t[1] = g.num /\ t[2] = g.m_numTxs /\ t[3] = g.last /\ t[4] = Flat(b.m_tranHashes)
      BY <1>1, MicroTieIs, ZenonT(40)
    <2>2. MicroBlockLess(a, b) <=> TieLess(s, t)
      BY DEF MicroBlockLess
    <2> HIDE DEF s, t
    <2> QED
      BY <1>1, <2>1, <2>2, MicroBlockHeaderOrder, TieLess4
  <1> QED
    BY <1>1, <1>2, <1>3 DEF MicroBlockEqual

(* What BlocksOrdered says, of any objects of the class                    *)
Ordered(a, b) ==
  /\ ~(Less(a, b) /\ Less(b, a))
  /\ Equal(a, b) => ~Less(a, b)
  /\ class \in {"TxBlock", "MicroBlock"} => Equal(a, b) \/ Less(a, b) \/ Less(b, a)
  /\ Less(a, b) => \A x \in Objects(class) :
       /\ Less(b, x) => Less(a, x)
       /\ Equal(b, x) => Less(a, x)
       /\ class \in {"VCBlock", "VCBlockHeader"} \/ Less(a, x) \/ Less(x, b)

LEMMA TxBlockHeaderTotal ==
  ASSUME NEW h \in TxBlockHeaders, NEW g \in TxBlockHeaders
  PROVE  /\ ~TxBlockHeaderLess(h, h)
         /\ h = g \/ TxBlockHeaderLess(h, g) \/ TxBlockHeaderLess(g, h)
         /\ \A k \in TxBlockHeaders :
              TxBlockHeaderLess(h, g) /\ TxBlockHeaderLess(g, k) => TxBlockHeaderLess(h, k)
  <1>1. \A k \in TxBlockHeaders : k.num \in Nat /\ k.m_numMicroBlockHashes \in Nat /\ k.last \in Nat
    BY TxTieIs
  <1> QED
    BY <1>1, TxBlockHeaderOrder

LEMMA OrderedTx ==
  ASSUME class \in {"TxBlockHeader", "TxBlock"},
         NEW a \in Objects(class), NEW b \in Objects(class)
  PROVE  Ordered(a, b)
  <1>1. CASE class = "TxBlockHeader"
    BY <1>1, ObjectsOf, TxBlockHeaderTotal DEF Ordered, Less, Equal
  <1>2. CASE class = "TxBlock"
    <2>1. a \in TxBlocks /\ b \in TxBlocks /\ Objects(class) = TxBlocks
      BY <1>2, ObjectsOf
    <2>2. \A x, y \in TxBlocks :
            /\ x.m_header \in TxBlockHeaders /\ Flat(x.m_microBlockHashes) \in Int
            /\ Less(x, y) <=> \/ TxBlockHeaderLess(x.m_header, y.m_header)
                              \/ /\ x.m_header = y.m_header
                                 /\ Flat(x.m_microBlockHashes) < Flat(y.m_microBlockHashes)
            /\ Equal(x, y) <=> x.m_header = y.m_header /\ Flat(x.m_microBlockHashes) = Flat(y.m_microBlockHashes)
      BY <1>2, TxBlockOrder DEF Less, Equal
    <2> QED
      BY <1>2, <2>1, <2>2, TxBlockHeaderTotal DEF Ordered
  <1> QED
    BY <1>1, <1>2

LEMMA MicroBlockHeaderTotal ==
  ASSUME NEW h \in MicroBlockHeaders, NEW g \in MicroBlockHeaders
  PROVE  /\ ~MicroBlockHeaderLess(h, h)
         /\ h = g \/ MicroBlockHeaderLess(h, g) \/ MicroBlockHeaderLess(g, h)
         /\ \A k \in MicroBlockHeaders :
              MicroBlockHeaderLess(h, g) /\ MicroBlockHeaderLess(g, k) => MicroBlockHeaderLess(h, k)
  <1>1. \A k \in MicroBlockHeaders : k.num \in Nat /\ k.m_numTxs \in Nat /\ k.last \in Nat
    BY MicroTieIs
  <1> QED
    BY <1>1, MicroBlockHeaderOrder

LEMMA OrderedMicro ==
  ASSUME class \in {"MicroBlockHeader", "MicroBlock"},
         NEW a \in Objects(class), NEW b \in Objects(class)
  PROVE  Ordered(a, b)
  <1>1. CASE class = "MicroBlockHeader"
    BY <1>1, ObjectsOf, MicroBlockHeaderTotal DEF Ordered, Less, Equal
  <1>2. CASE class = "MicroBlock"
    <2>1. a \in MicroBlocks /\ b \in MicroBlocks /\ Objects(class) = MicroBlocks
      BY <1>2, ObjectsOf
    <2>2. \A x, y \in MicroBlocks :
            /\ x.m_header \in MicroBlockHeaders /\ Flat(x.m_tranHashes) \in Int
            /\ Less(x, y) <=> \/ MicroBlockHeaderLess(x.m_header, y.m_header)
                              \/ /\ x.m_header = y.m_header
                                 /\ Flat(x.m_tranHashes) < Flat(y.m_tranHashes)
            /\ Equal(x, y) <=> x.m_header = y.m_header /\ Flat(x.m_tranHashes) = Flat(y.m_tranHashes)
      BY <1>2, MicroBlockOrder DEF Less, Equal
    <2> QED
      BY <1>2, <2>1, <2>2, MicroBlockHeaderTotal DEF Ordered
  <1> QED
    BY <1>1, <1>2

LEMMA OrderedOthers ==
  ASSUME class \in {"DSBlockHeader", "DSBlock", "VCBlockHeader", "VCBlock"},
         NEW a \in Objects(class), NEW b \in Objects(class)
  PROVE  Ordered(a, b)
  <1>1. /\ \A h \in DSBlockHeaders : h.m_blockNum \in Nat
        /\ \A h \in VCBlockHeaders : h.m_VCCounter \in Nat
    BY BlocksAssumption DEF DSBlockHeaders, VCBlockHeaders
  <1>2. /\ \A k \in DSBlocks : k.m_header \in DSBlockHeaders
        /\ \A k \in VCBlocks : k.m_header \in VCBlockHeaders
    BY DEF DSBlocks, VCBlocks
  <1>3. CASE class = "DSBlockHeader"
    BY <1>1, <1>3, ObjectsOf DEF Ordered, Less, Equal, DSBlockHeaderLess, DSEqual
  <1>4. CASE class = "DSBlock"
    BY <1>1, <1>2, <1>4, ObjectsOf DEF Ordered, Less, Equal, DSBlockLess, DSBlockHeaderLess, DSEqual
  <1>5. CASE class = "VCBlockHeader"
    BY <1>1, <1>5, ObjectsOf DEF Ordered, Less, Equal, VCBlockHeaderLess
  <1>6. CASE class = "VCBlock"
    BY <1>1, <1>2, <1>6, ObjectsOf DEF Ordered, Less, Equal, VCBlockLess, VCBlockHeaderLess
  <1> QED
    BY <1>3, <1>4, <1>5, <1>6

(* Whatever two blocks of a class come to be in an object and on the wire  *)
(* are in the order.                                                       *)
THEOREM BlocksSorted == BlockSpec => []BlocksOrdered
  <1>1. BlockIInv => BlocksOrdered
    <2> SUFFICES ASSUME BlockIInv PROVE BlocksOrdered
      OBVIOUS
    <2>1. \A b \in wire : Ordered(obj, b)
      BY ClassIs, OrderedTx, OrderedMicro, OrderedOthers
      DEF BlockIInv, BlockTypeOK, Headers, Blocks
    <2> QED
      BY <2>1 DEF BlocksOrdered, Ordered
  <1> QED
    BY <1>1, BlockInitIInv, BlockStepIInv, PTL DEF BlockSpec

(* What was accepted can be passed on, whatever the object held before and *)
(* whatever members a Deserialize that failed has left behind.             *)
THEOREM ReceivedForwarded == BlockSpec => []ReceivedForwards
  <1>1. BlockIInv => ReceivedForwards
    BY DEF BlockIInv
  <1> QED
    BY <1>1, BlockInitIInv, BlockStepIInv, PTL DEF BlockSpec

-----------------------------------------------------------------------------
(* The owners of EC_KEYs (KeyHandles).  Keys are numbered in the order     *)
(* they are made, so a new one is not in the heap; and an object that does *)
(* not live holds none.                                                    *)

(* Types, and where each number may be.                                    *)
HandlesTypeOK ==
  /\ exists \subseteq Object /\ key \in [Object -> Nat] /\ made \in Nat
  /\ heap \subseteq 1..made /\ lost \subseteq heap
  /\ \A o \in Object \ exists : key[o] = NoKey
  /\ read_freed \subseteq Object \X Object

HandlesIInv == HandlesTypeOK /\ KeysOwnedOnce

(* The beginning of an object, with no EC_KEY or with a new one.           *)
LEMMA BeginKeepsOwners ==
  ASSUME HandlesIInv, NEW o \in Object,
         Default(o) \/ Make(o)
  PROVE  HandlesIInv'
<1>1. CASE Default(o)
  BY <1>1 DEF Default, Begin, HandlesIInv, HandlesTypeOK, KeysOwnedOnce, NoKey
<1>2. CASE Make(o)
  <2>1. New \in Nat /\ New \notin heap /\ New # NoKey /\ \A q \in exists : key[q] # New
    BY DEF HandlesIInv, HandlesTypeOK, KeysOwnedOnce, New, NoKey
  <2>2. HandlesTypeOK'
    BY <1>2, <2>1 DEF Make, Begin, HandlesIInv, HandlesTypeOK, New
  <2>3. KeysOwnedOnce'
    BY <1>2, <2>1 DEF Make, Begin, HandlesIInv, HandlesTypeOK, KeysOwnedOnce
  <2> QED
    BY <2>2, <2>3 DEF HandlesIInv
<1> QED
  BY <1>1, <1>2

(* What is left behind without an owner is noted as such.                  *)
LEMMA LoseKeepsOwners ==
  ASSUME HandlesIInv, UNCHANGED <<exists, key, read_freed>>, made' = New,
         \/ heap' = heap /\ lost' = lost
         \/ heap' = heap \cup {New} /\ lost' = lost \cup {New}
  PROVE  HandlesIInv'
<1>1. New \in Nat /\ New \notin heap /\ New # NoKey /\ \A q \in exists : key[q] # New
  BY DEF HandlesIInv, HandlesTypeOK, KeysOwnedOnce, New, NoKey
<1>2. HandlesTypeOK'
  <2>1. heap \subseteq 1..New /\ New \in 1..New
    BY DEF HandlesIInv, HandlesTypeOK, New
  <2> QED
    BY <1>1, <2>1 DEF HandlesIInv, HandlesTypeOK
<1>3. KeysOwnedOnce'
  BY <1>1 DEF HandlesIInv, KeysOwnedOnce
<1> QED
  BY <1>2, <1>3 DEF HandlesIInv

(* Freeing the EC_KEY of an object that lives takes only that one out of   *)
(* the heap, and it is nobody else's.                                      *)
LEMMA FreedOwners ==
  ASSUME HandlesIInv, NEW o \in exists
  PROVE  /\ lost \subseteq Freed(o) /\ Freed(o) \subseteq heap
         /\ key[o] \notin Freed(o) \ lost
         /\ \A q \in exists \ {o} : key[q] # NoKey => key[q] \in Freed(o) \ lost
         /\ \A k \in Freed(o) \ lost : \E q \in exists \ {o} : key[q] = k
<1>1. CASE key[o] = NoKey
  BY <1>1 DEF HandlesIInv, HandlesTypeOK, KeysOwnedOnce, Freed, NoKey
<1>2. CASE key[o] # NoKey
  BY <1>2 DEF HandlesIInv, HandlesTypeOK, KeysOwnedOnce, Freed, NoKey
<1> QED
  BY <1>1, <1>2

(* The end of an object.                                                   *)
LEMMA DestroyKeepsOwners ==
  ASSUME HandlesIInv, NEW o \in Object, Destroy(o)
  PROVE  HandlesIInv'
<1>1. o \in exists /\ lost \subseteq Freed(o) /\ Freed(o) \subseteq heap
  BY FreedOwners DEF Destroy
<1>2. HandlesTypeOK'
  <2>1. heap' \subseteq 1..made' /\ lost' \subseteq heap'
    BY <1>1 DEF Destroy, HandlesIInv, HandlesTypeOK
  <2>2. exists' \subseteq Object /\ key' \in [Object -> Nat] /\ made' \in Nat
    BY DEF Destroy, HandlesIInv, HandlesTypeOK, NoKey
  <2>3. \A q \in Object \ exists' : key'[q] = NoKey
    BY DEF Destroy, HandlesIInv, HandlesTypeOK, NoKey
  <2>4. read_freed' \subseteq Object \X Object
    BY DEF Destroy, HandlesIInv, HandlesTypeOK
  <2> QED
    BY <2>1, <2>2, <2>3, <2>4 DEF HandlesTypeOK
<1>3. KeysOwnedOnce'
  BY FreedOwners DEF Destroy, HandlesIInv, HandlesTypeOK, KeysOwnedOnce
<1> QED
  BY <1>2, <1>3 DEF HandlesIInv

(* Assignments that copy: the EC_KEY there is freed, or kept and copied    *)
(* into, and a new one is made where there was none.  Only r1 frees before *)
(* it reads, and that hurts only where both are one object.                *)
LEMMA CopyKeepsOwners ==
  ASSUME HandlesIInv, NEW o \in Object, NEW p \in Object,
         Copied(o, p) \/ (o \in R1 /\ FreeAndDup(o, p))
  PROVE  HandlesIInv'
<1>1. {o, p} \subseteq exists /\ UNCHANGED <<exists, lost>> /\ Kind[o] = Kind[p]
  BY DEF Copied, FreeAndDup, Both
<1>2. lost \subseteq Freed(o) /\ Freed(o) \subseteq heap
  BY <1>1, FreedOwners
<1>3. New \in Nat /\ New \notin heap /\ New # NoKey /\ \A q \in exists : key[q] # New
  BY DEF HandlesIInv, HandlesTypeOK, KeysOwnedOnce, New, NoKey
<1>7. /\ read_freed' \subseteq Object \X Object
      /\ \A r \in read_freed' : r[1] = r[2] /\ r[1] \in R1
  <2>1. /\ read_freed \subseteq Object \X Object
        /\ \A r \in read_freed : r[1] = r[2] /\ r[1] \in R1
    BY DEF HandlesIInv, HandlesTypeOK, KeysOwnedOnce
  <2>2. key[p] # NoKey => key[p] \in heap /\ (o # p => key[p] \in Freed(o))
    BY <1>1, FreedOwners DEF HandlesIInv, KeysOwnedOnce
  <2>3. read_freed' = read_freed \/ (read_freed' = read_freed \cup {<<o, p>>} /\ o = p /\ o \in R1)
    BY <2>2 DEF Copied, FreeAndDup, Reads
  <2> QED
    BY <2>1, <2>3
<1>4. CASE heap' = Freed(o) /\ key' = [key EXCEPT ![o] = NoKey] /\ UNCHANGED made
  <2>1. HandlesTypeOK'
    BY <1>1, <1>2, <1>4, <1>7 DEF HandlesIInv, HandlesTypeOK, NoKey
  <2>2. KeysOwnedOnce'
    BY <1>1, <1>4, <1>7, FreedOwners DEF HandlesIInv, HandlesTypeOK, KeysOwnedOnce
  <2> QED
    BY <2>1, <2>2 DEF HandlesIInv
<1>5. CASE heap' = Freed(o) \cup {New} /\ key' = [key EXCEPT ![o] = New] /\ made' = New
  <2>1. heap' \subseteq 1..made' /\ lost' \subseteq heap'
    <3>1. heap \subseteq 1..New /\ New \in 1..New
      BY DEF HandlesIInv, HandlesTypeOK, New
    <3> QED
      BY <1>1, <1>2, <1>5, <3>1
  <2>2. HandlesTypeOK'
    BY <1>1, <1>3, <1>5, <1>7, <2>1 DEF HandlesIInv, HandlesTypeOK
  <2>3. KeysOwnedOnce'
    BY <1>1, <1>3, <1>5, <1>7, FreedOwners DEF HandlesIInv, HandlesTypeOK, KeysOwnedOnce
  <2> QED
    BY <2>2, <2>3 DEF HandlesIInv
<1>6. CASE UNCHANGED <<heap, key, made>>
  BY <1>1, <1>6, <1>7 DEF HandlesIInv, HandlesTypeOK, KeysOwnedOnce
<1> QED
  BY <1>4, <1>5, <1>6 DEF Copied, FreeAndDup, Freed

(* The move: nothing is made, and what was the one's is the other's; an    *)
(* object moved to itself is left with none.                               *)
LEMMA MoveKeepsOwners ==
  ASSUME HandlesIInv, NEW o \in Object, NEW p \in Object, Taken(o, p)
  PROVE  HandlesIInv'
<1>1. {o, p} \subseteq exists
  BY DEF Taken, Both
<1>2. lost \subseteq Freed(o) /\ Freed(o) \subseteq heap
  BY <1>1, FreedOwners
<1>3. HandlesTypeOK'
  BY <1>1, <1>2 DEF Taken, HandlesIInv, HandlesTypeOK, NoKey
<1>4. KeysOwnedOnce'
  BY <1>1, FreedOwners DEF Taken, HandlesIInv, HandlesTypeOK, KeysOwnedOnce
<1> QED
  BY <1>3, <1>4 DEF HandlesIInv

(* Every EC_KEY has one owner, for any number of objects of the four       *)
(* classes and of keys, and only a copy of an r1 object to itself copies   *)
(* one that was freed.                                                     *)
THEOREM KeysAlwaysOwnedOnce == KeysSpec => []KeysOwnedOnce
<1>1. KeysInit => HandlesIInv
  BY DEF KeysInit, HandlesIInv, HandlesTypeOK, KeysOwnedOnce, NoKey
<1>2. HandlesIInv /\ [KeysNext]_key_vars => HandlesIInv'
  <2> SUFFICES ASSUME HandlesIInv, [KeysNext]_key_vars PROVE HandlesIInv'
    OBVIOUS
  <2>1. CASE UNCHANGED key_vars
    BY <2>1 DEF key_vars, HandlesIInv, HandlesTypeOK, KeysOwnedOnce
  <2>2. ASSUME NEW o \in Object,
               \/ Default(o) \/ Make(o) \/ FailRecover(o) \/ FailDecode(o) \/ Destroy(o)
               \/ SecretOf(o)
        PROVE  HandlesIInv'
    BY <2>2, BeginKeepsOwners, LoseKeepsOwners, DestroyKeepsOwners
    DEF FailRecover, FailDecode, Lose, SecretOf
  <2>3. ASSUME NEW o \in Object, NEW ok \in BOOLEAN,
               \/ PointToData(o, ok) \/ Generate(o, ok) \/ Regenerate(o, ok)
               \/ R1Generate(o, ok) \/ R1Regenerate(o, ok)
        PROVE  HandlesIInv'
    BY <2>3, BeginKeepsOwners, LoseKeepsOwners
    DEF PointToData, Generate, Regenerate, R1Generate, R1Regenerate, FailRecover, Lose
  <2>4. ASSUME NEW o \in Object, NEW p \in Object,
               \/ PublicCopy(o, p) \/ PrivateCopy(o, p)
               \/ R1PublicCopy(o, p) \/ R1PrivateCopy(o, p)
        PROVE  HandlesIInv'
    <3>1. Dup(o, p)
      BY <2>4 DEF PublicCopy, PrivateCopy, R1PublicCopy, R1PrivateCopy
    <3>2. key[p] # NoKey => key[p] \in heap
      BY <3>1 DEF Dup, HandlesIInv, KeysOwnedOnce
    <3> QED
      BY <3>1, <3>2, BeginKeepsOwners DEF Dup, Default, Make, Reads
  <2>5. ASSUME NEW o \in Object, NEW p \in Object,
               \/ PublicAssign(o, p) \/ PrivateAssign(o, p)
               \/ R1PublicAssign(o, p) \/ R1PrivateAssign(o, p)
        PROVE  HandlesIInv'
    BY <2>5, CopyKeepsOwners
    DEF PublicAssign, PrivateAssign, R1PublicAssign, R1PrivateAssign, R1, Ecc
  <2>6. ASSUME NEW o \in Object, NEW p \in Object,
               \/ PublicMoveAssign(o, p) \/ PrivateMoveAssign(o, p)
               \/ R1PublicMoveAssign(o, p) \/ R1PrivateMoveAssign(o, p)
        PROVE  HandlesIInv'
    BY <2>1, <2>6, MoveKeepsOwners
    DEF PublicMoveAssign, PrivateMoveAssign, R1PublicMoveAssign, R1PrivateMoveAssign, Guarded
  <2> QED
    BY <2>1, <2>2, <2>3, <2>4, <2>5, <2>6 DEF KeysNext
<1>3. HandlesIInv => KeysOwnedOnce
  BY DEF HandlesIInv
<1> QED
  BY <1>1, <1>2, <1>3, PTL DEF KeysSpec

-----------------------------------------------------------------------------
(* Objects that threads share: the queues and the sender                   *)
CONSTANTS Block, Index, MaxTicks, MaxSends

VARIABLES m_started, t_running, m_work, m_handlers, ioctx_stopped, executing,
          thread, post,
          config, s_started, s_running, m_ann_no, m_ann_index, pointers, sent,
          s_index, died

T == INSTANCE XQueueTask WITH m_running <- t_running
S == INSTANCE XSender WITH
       m_started <- s_started, m_running <- s_running, index <- s_index

(* Notifying keeps every consumer in one of the four states.               *)
LEMMA NotifyAllType ==
  ASSUME QueueTypeOK
  PROVE  NotifyAll(call) \in [Consumer -> {"out", "entry", "waiting", "woken"}]
  <1>1. \A c \in Consumer : call[c] \in {"out", "entry", "waiting", "woken"}
    BY DEF QueueTypeOK
  <1> QED
    BY <1>1 DEF NotifyAll

(* Variables keep their types in every state.                              *)
LEMMA TypeInvariant == QueueSpec => []QueueTypeOK
  <1>1. QueueInit => QueueTypeOK
    BY DEF QueueInit, QueueTypeOK
  <1>2. QueueTypeOK /\ [QueueNext]_queue_vars => QueueTypeOK'
    <2> SUFFICES ASSUME QueueTypeOK, [QueueNext]_queue_vars PROVE QueueTypeOK'
      OBVIOUS
    <2> USE DEF QueueTypeOK
    <2>1. ASSUME NEW t \in Item, PushBack(t) PROVE QueueTypeOK'
      BY <2>1, NotifyAllType DEF PushBack
    <2>2. CASE Stop
      <3>1. NotifyAll(call) \in [Consumer -> {"out", "entry", "waiting", "woken"}]
        BY NotifyAllType
      <3>2. <<>> \in Seq(Item)
        OBVIOUS
      <3>3. CASE m_running
        BY <2>2, <3>1, <3>2, <3>3 DEF Stop
      <3>4. CASE ~m_running
        BY <2>2, <3>4 DEF Stop
      <3> QED
        BY <3>3, <3>4
    <2>3. ASSUME NEW c \in Consumer, CallGetFront(c) PROVE QueueTypeOK'
      BY <2>3 DEF CallGetFront
    <2>4. ASSUME NEW c \in Consumer, GetFront(c) PROVE QueueTypeOK'
      <3>1. m_deq # <<>> => Head(m_deq) \in Item /\ Tail(m_deq) \in Seq(Item)
        OBVIOUS
      <3> QED
        BY <2>4, <3>1 DEF GetFront
    <2>5. ASSUME NEW c \in Consumer, WakeFromWait(c) PROVE QueueTypeOK'
      BY <2>5 DEF WakeFromWait
    <2>6. ASSUME NEW c \in Consumer, Use(c) PROVE QueueTypeOK'
      BY <2>6 DEF Use
    <2>7. CASE UNCHANGED queue_vars
      BY <2>7 DEF queue_vars
    <2> QED
      BY <2>1, <2>2, <2>3, <2>4, <2>5, <2>6, <2>7 DEF QueueNext, ConsumerNext
  <1> QED
    BY <1>1, <1>2, PTL DEF QueueSpec

(* No wakeup is lost: a thread that sleeps in get_front has nothing to do. *)
THEOREM NoLostWakeup == QueueSpec => []NobodySleepsOnWork
  <1>1. QueueInit => NobodySleepsOnWork
    BY DEF QueueInit, NobodySleepsOnWork
  <1>2. QueueTypeOK /\ NobodySleepsOnWork /\ [QueueNext]_queue_vars => NobodySleepsOnWork'
    <2> SUFFICES ASSUME QueueTypeOK, NobodySleepsOnWork, [QueueNext]_queue_vars
                 PROVE  NobodySleepsOnWork'
      OBVIOUS
    <2> USE DEF QueueTypeOK, NobodySleepsOnWork
    <2>1. ASSUME NEW t \in Item, PushBack(t) PROVE NobodySleepsOnWork'
      BY <2>1 DEF PushBack, NotifyAll
    <2>2. CASE Stop
      BY <2>2 DEF Stop, NotifyAll
    <2>3. ASSUME NEW c \in Consumer, CallGetFront(c) PROVE NobodySleepsOnWork'
      BY <2>3 DEF CallGetFront
    <2>4. ASSUME NEW c \in Consumer, GetFront(c) PROVE NobodySleepsOnWork'
      BY <2>4 DEF GetFront
    <2>5. ASSUME NEW c \in Consumer, WakeFromWait(c) PROVE NobodySleepsOnWork'
      BY <2>5 DEF WakeFromWait
    <2>6. ASSUME NEW c \in Consumer, Use(c) PROVE NobodySleepsOnWork'
      BY <2>6 DEF Use
    <2>7. CASE UNCHANGED queue_vars
      BY <2>7 DEF queue_vars
    <2> QED
      BY <2>1, <2>2, <2>3, <2>4, <2>5, <2>6, <2>7 DEF QueueNext, ConsumerNext
  <1> QED
    BY <1>1, <1>2, TypeInvariant, PTL DEF QueueSpec

(* The queue implements the mailbox, apart from the mailbox's fairness:    *)
(* each step under the mutex is a step of the mailbox or invisible to it.  *)
THEOREM QueueImplementsMailbox == QueueSpec => Box!SafeSpec
  <1> DEFINE Asks == [c \in Consumer |-> call[c] # "out"]
  <1>1. QueueInit => Box!Init
    BY DEF QueueInit, Box!Init
  <1>2. QueueTypeOK /\ [QueueNext]_queue_vars => [Box!Next]_(Box!vars)
    <2> SUFFICES ASSUME QueueTypeOK, [QueueNext]_queue_vars
                 PROVE  Box!Next \/ UNCHANGED Box!vars
      OBVIOUS
    <2> USE DEF QueueTypeOK
    <2>1. ASSUME NEW t \in Item, PushBack(t)
          PROVE  Box!Next \/ UNCHANGED Box!vars
      <3>1. Asks' = Asks
        BY <2>1 DEF PushBack, NotifyAll
      <3>2. CASE m_running
        <4>1. Box!Put(t)
          BY <2>1, <3>1, <3>2 DEF PushBack, Box!Put
        <4> QED
          BY <4>1 DEF Box!Next
      <3>3. CASE ~m_running
        BY <2>1, <3>1, <3>3 DEF PushBack, Box!vars
      <3> QED
        BY <3>2, <3>3
    <2>2. CASE Stop
      <3>1. Asks' = Asks
        BY <2>2 DEF Stop, NotifyAll
      <3>2. CASE m_running
        BY <2>2, <3>1, <3>2 DEF Stop, Box!Close, Box!Next
      <3>3. CASE ~m_running
        BY <2>2, <3>1, <3>3 DEF Stop, Box!vars
      <3> QED
        BY <3>2, <3>3
    <2>3. ASSUME NEW c \in Consumer, CallGetFront(c)
          PROVE  Box!Next \/ UNCHANGED Box!vars
      <3>1. Asks[c] = FALSE /\ Asks' = [Asks EXCEPT ![c] = TRUE]
        BY <2>3 DEF CallGetFront
      <3>2. Box!Ask(c)
        BY <2>3, <3>1 DEF CallGetFront, Box!Ask
      <3> QED
        BY <3>2 DEF Box!Next
    <2>4. ASSUME NEW c \in Consumer, GetFront(c)
          PROVE  Box!Next \/ UNCHANGED Box!vars
      <3>1. Asks[c] = TRUE
        BY <2>4 DEF GetFront
      <3>2. CASE m_running /\ m_deq = <<>>
        <4>1. Asks' = Asks
          BY <2>4, <3>2 DEF GetFront
        <4> QED
          BY <2>4, <3>2, <4>1 DEF GetFront, Box!vars
      <3>3. CASE ~(m_running /\ m_deq = <<>>)
        <4>1. Asks' = [Asks EXCEPT ![c] = FALSE]
          BY <2>4, <3>3 DEF GetFront
        <4>2. Box!Answer(c)
          BY <2>4, <3>1, <3>3, <4>1 DEF GetFront, Box!Answer
        <4> QED
          BY <4>2 DEF Box!Next
      <3> QED
        BY <3>2, <3>3
    <2>5. ASSUME NEW c \in Consumer, WakeFromWait(c)
          PROVE  Box!Next \/ UNCHANGED Box!vars
      <3>1. Asks' = Asks
        BY <2>5 DEF WakeFromWait
      <3> QED
        BY <2>5, <3>1 DEF WakeFromWait, Box!vars
    <2>6. ASSUME NEW c \in Consumer, Use(c)
          PROVE  Box!Next \/ UNCHANGED Box!vars
      <3>1. Box!Use(c)
        BY <2>6 DEF Use, Box!Use
      <3> QED
        BY <3>1 DEF Box!Next
    <2>7. CASE UNCHANGED queue_vars
      BY <2>7 DEF queue_vars, Box!vars
    <2> QED
      BY <2>1, <2>2, <2>3, <2>4, <2>5, <2>6, <2>7 DEF QueueNext, ConsumerNext
  <1> QED
    BY <1>1, <1>2, TypeInvariant, PTL DEF QueueSpec, Box!SafeSpec

-----------------------------------------------------------------------------
(* The queue of tasks: variables keep their types.                         *)
TaskTypes ==
  /\ m_started \in BOOLEAN /\ t_running \in BOOLEAN
  /\ m_work \in BOOLEAN /\ ioctx_stopped \in BOOLEAN
  /\ m_handlers \in Seq(Task) /\ executing \in Seq(Task) /\ executed \in Seq(Task)
  /\ thread \in {"none", "running", "ended"}
  /\ post \in [Task -> {"new", "tested", "refused", "posted"}]
  /\ stop \in [Stopper -> {"out", "returned", "reset", "join", "joined"}]
  /\ posted \in Seq(Task) /\ promised \in Seq(Task)

(* s is the beginning of t *)
Begins(s, t) == Len(s) <= Len(t) /\ \A i \in 1..Len(s) : s[i] = t[i]

(* What has run, what runs and what waits is what was posted, in order.    *)
Line == (executed \o executing) \o m_handlers

TaskOrder == Line = posted /\ Begins(promised, posted)

(* The io_context has work while the queue runs, so it stops only after    *)
(* m_running was cleared, and by then it has run what was promised.        *)
TaskStops ==
  /\ t_running => m_started /\ m_work
  /\ m_started <=> thread # "none"
  /\ executing # <<>> => m_started
  /\ ioctx_stopped => /\ m_started /\ ~t_running
                      /\ Begins(promised, executed)
  /\ thread = "ended" => ioctx_stopped
  /\ \A s \in Stopper :
       /\ stop[s] \in {"reset", "join", "joined"} => m_started /\ ~t_running
       /\ stop[s] = "joined" => thread = "ended"

TaskInv == TaskTypes /\ TaskOrder /\ TaskStops

(* A sequence and another after it: the first is where it was.             *)
LEMMA ConcatParts ==
  ASSUME NEW Elem, NEW s \in Seq(Elem), NEW t \in Seq(Elem)
  PROVE  /\ s \o t \in Seq(Elem)
         /\ Len(s \o t) = Len(s) + Len(t)
         /\ \A i \in 1..Len(s) : (s \o t)[i] = s[i]
  BY ConcatProperties

LEMMA BeginsIsPrefix ==
  ASSUME NEW Elem, NEW s \in Seq(Elem), NEW t \in Seq(Elem)
  PROVE  Begins(s, t) <=> IsPrefix(s, t)
  <1>1. CASE Len(s) <= Len(t)
    <2>1. \A i \in 1..Len(s) : SubSeq(s, 1, Len(s))[i] = s[i] /\ SubSeq(t, 1, Len(s))[i] = t[i]
      BY <1>1
    <2>2. SubSeq(s, 1, Len(s)) \in Seq(Elem) /\ SubSeq(t, 1, Len(s)) \in Seq(Elem)
      BY <1>1
    <2>3. Len(SubSeq(s, 1, Len(s))) = Len(s) /\ Len(SubSeq(t, 1, Len(s))) = Len(s)
      BY <1>1
    <2>4. (\A i \in 1..Len(s) : s[i] = t[i]) => SubSeq(s, 1, Len(s)) = SubSeq(t, 1, Len(s))
      BY <2>1, <2>2, <2>3, SeqEqual
    <2>5. SubSeq(s, 1, Len(s)) = SubSeq(t, 1, Len(s)) => \A i \in 1..Len(s) : s[i] = t[i]
      BY <2>1
    <2> QED
      BY <1>1, <2>4, <2>5 DEF Begins, IsPrefix
  <1>2. CASE ~(Len(s) <= Len(t))
    BY <1>2 DEF Begins, IsPrefix
  <1> QED
    BY <1>1, <1>2

LEMMA BeginsAppend ==
  ASSUME NEW Elem, NEW s \in Seq(Elem), NEW t \in Seq(Elem), NEW u \in Seq(Elem), Begins(s, t)
  PROVE  Begins(s, t \o u)
  <1>1. /\ Len(s) \in Nat /\ Len(t) \in Nat /\ Len(u) \in Nat
        /\ Len(t \o u) = Len(t) + Len(u) /\ \A i \in 1..Len(t) : (t \o u)[i] = t[i]
    BY ConcatParts
  <1> QED
    BY <1>1 DEF Begins

(* What has run is the beginning of what was posted.                       *)
LEMMA LineType ==
  ASSUME TaskTypes
  PROVE  /\ executed \o executing \in Seq(Task)
         /\ Line \in Seq(Task)
         /\ Begins(executed, Line)
  <1>1. executed \in Seq(Task) /\ executing \in Seq(Task) /\ m_handlers \in Seq(Task)
    BY DEF TaskTypes
  <1>2. executed \o executing \in Seq(Task) /\ (executed \o executing) \o m_handlers \in Seq(Task)
    BY <1>1
  <1>3. Begins(executed, executed)
    BY <1>1 DEF Begins
  <1>4. Begins(executed, executed \o executing)
    BY <1>1, <1>3, BeginsAppend
  <1>5. Begins(executed, (executed \o executing) \o m_handlers)
    BY <1>1, <1>2, <1>4, BeginsAppend
  <1> QED
    BY <1>2, <1>5 DEF Line

(* With nothing left to run, what was posted has run.                      *)
LEMMA RunDry ==
  ASSUME TaskTypes, m_handlers = <<>>
  PROVE  Line = executed \o executing
  BY LineType, ConcatEmptySeq DEF Line, TaskTypes

(* The three together are inductive.                                       *)
LEMMA TaskInvariant == T!Spec => []TaskInv
  <1>1. T!Init => TaskInv
    <2> SUFFICES ASSUME T!Init PROVE TaskInv
      OBVIOUS
    <2>1. <<>> \in Seq(Task) /\ (<<>> \o <<>>) \o <<>> = <<>>
      OBVIOUS
    <2>2. TaskTypes
      BY <2>1 DEF T!Init, TaskTypes
    <2>3. Line = <<>>
      BY <2>1 DEF T!Init, Line
    <2>4. TaskOrder
      BY <2>3 DEF T!Init, TaskOrder, Begins
    <2>5. TaskStops
      BY DEF T!Init, TaskStops
    <2> QED
      BY <2>2, <2>4, <2>5 DEF TaskInv
  <1>2. TaskInv /\ [T!Next]_(T!vars) => TaskInv'
    <2> SUFFICES ASSUME TaskInv, [T!Next]_(T!vars) PROVE TaskInv'
      OBVIOUS
    <2> USE DEF TaskInv
    <2>1. ASSUME Line' = Line, UNCHANGED <<posted, promised>>
          PROVE  TaskOrder'
      BY <2>1 DEF TaskOrder
    <2>2. ASSUME UNCHANGED <<executed, executing, m_handlers, posted, promised>>
          PROVE  TaskOrder'
      BY <2>1, <2>2 DEF Line
    <2>3. CASE T!Start
      <3>1. TaskTypes'
        BY <2>3 DEF T!Start, T!ioctx, T!history, TaskTypes
      <3>2. TaskOrder'
        BY <2>2, <2>3 DEF T!Start, T!ioctx, T!history
      <3>3. TaskStops'
        BY <2>3 DEF T!Start, T!ioctx, T!history, TaskStops, TaskTypes
      <3> QED
        BY <3>1, <3>2, <3>3
    <2>4. ASSUME NEW t \in Task, T!PostTest(t) PROVE TaskInv'
      <3>1. TaskTypes'
        BY <2>4 DEF T!PostTest, T!ioctx, T!history, TaskTypes
      <3>4. TaskOrder'
        BY <2>2, <2>4 DEF T!PostTest, T!ioctx, T!history
      <3>5. TaskStops'
        BY <2>4 DEF T!PostTest, T!ioctx, T!history, TaskStops
      <3> QED
        BY <3>1, <3>4, <3>5
    <2>5. ASSUME NEW t \in Task, T!PostTask(t) PROVE TaskInv'
      <3>1. Append(m_handlers, t) \in Seq(Task)
        BY DEF TaskTypes
      <3>2. TaskTypes'
        BY <2>5, <3>1 DEF T!PostTask, T!history, TaskTypes
      <3>3. Line' = Append(Line, t)
        <4>1. <<t>> \in Seq(Task) /\ m_handlers \in Seq(Task)
          BY DEF TaskTypes
        <4>2. Line' = (executed \o executing) \o (m_handlers \o <<t>>)
          BY <2>5, <4>1, AppendIsConcat DEF T!PostTask, T!history, Line
        <4>3. Line' = Line \o <<t>>
          BY <4>1, <4>2, LineType, ConcatAssociative DEF Line
        <4> QED
          BY <4>3, LineType, AppendIsConcat
      <3>4. TaskOrder'
        <4>1. posted' = posted \o <<t>> /\ promised' = promised /\ <<t>> \in Seq(Task)
          BY <2>5, AppendIsConcat DEF T!PostTask, TaskTypes
        <4>2. Line' = Line \o <<t>>
          BY <3>3, LineType, AppendIsConcat
        <4>3. Begins(promised, posted \o <<t>>)
          BY <4>1, BeginsAppend DEF TaskOrder, TaskTypes
        <4> QED
          BY <4>1, <4>2, <4>3 DEF TaskOrder
      <3>5. TaskStops'
        BY <2>5 DEF T!PostTask, T!history, TaskStops
      <3> QED
        BY <3>2, <3>4, <3>5
    <2>6. ASSUME NEW s \in Stopper, T!StopTest(s) PROVE TaskInv'
      <3>1. TaskTypes'
        BY <2>6 DEF T!StopTest, T!ioctx, TaskTypes
      <3>2. TaskOrder'
        <4>1. CASE t_running
          <5>1. promised' = posted /\ posted' = posted
            BY <2>6, <4>1 DEF T!StopTest
          <5>2. Line' = Line
            BY <2>6 DEF T!StopTest, T!ioctx, Line
          <5>3. Begins(posted, posted)
            BY DEF Begins, TaskTypes
          <5> QED
            BY <5>1, <5>2, <5>3 DEF TaskOrder
        <4>2. CASE ~t_running
          BY <2>2, <2>6, <4>2 DEF T!StopTest, T!ioctx
        <4> QED
          BY <4>1, <4>2 DEF TaskTypes
      <3>3. TaskStops'
        BY <2>6 DEF T!StopTest, T!ioctx, TaskStops, TaskTypes
      <3> QED
        BY <3>1, <3>2, <3>3
    <2>7. ASSUME NEW s \in Stopper, T!StopReset(s) PROVE TaskInv'
      <3>1. TaskTypes'
        BY <2>7 DEF T!StopReset, T!history, TaskTypes
      <3>2. TaskOrder'
        BY <2>2, <2>7 DEF T!StopReset, T!history
      <3>3. ASSUME m_handlers = <<>>, executing = <<>>
            PROVE  Begins(promised, executed)
        <4>1. Line = executed
          BY <3>3, RunDry, ConcatEmptySeq DEF TaskTypes
        <4> QED
          BY <4>1 DEF TaskOrder, TaskTypes
      <3>4. TaskStops'
        BY <2>7, <3>3 DEF T!StopReset, T!history, TaskStops, TaskTypes
      <3> QED
        BY <3>1, <3>2, <3>4
    <2>8. ASSUME NEW s \in Stopper, T!StopJoin(s) PROVE TaskInv'
      <3>1. TaskTypes'
        BY <2>8 DEF T!StopJoin, T!ioctx, T!history, TaskTypes
      <3>2. TaskOrder'
        BY <2>2, <2>8 DEF T!StopJoin, T!ioctx, T!history
      <3>3. TaskStops'
        BY <2>8 DEF T!StopJoin, T!ioctx, T!history, TaskStops, TaskTypes
      <3> QED
        BY <3>1, <3>2, <3>3
    <2>9. CASE T!RunHandler
      <3>1. Head(m_handlers) \in Task /\ Tail(m_handlers) \in Seq(Task)
        BY <2>9 DEF T!RunHandler, TaskTypes
      <3>2. <<Head(m_handlers)>> \in Seq(Task)
        BY <3>1
      <3>3. TaskTypes'
        BY <2>9, <3>1, <3>2 DEF T!RunHandler, T!history, TaskTypes
      <3>4. Line' = Line
        <4>1. Line' = (executed \o <<Head(m_handlers)>>) \o Tail(m_handlers)
          BY <2>9 DEF T!RunHandler, T!history, Line
        <4>2. Line = executed \o m_handlers
          BY <2>9, ConcatEmptySeq DEF T!RunHandler, Line, TaskTypes
        <4>3. m_handlers = <<Head(m_handlers)>> \o Tail(m_handlers)
          BY <2>9, <3>1 DEF T!RunHandler, TaskTypes
        <4>4. executed \in Seq(Task)
          BY DEF TaskTypes
        <4>5. (executed \o <<Head(m_handlers)>>) \o Tail(m_handlers)
                = executed \o (<<Head(m_handlers)>> \o Tail(m_handlers))
          BY <3>1, <3>2, <4>4, ConcatAssociative
        <4> QED
          BY <4>1, <4>2, <4>3, <4>5, Zenon
      <3>5. TaskOrder'
        BY <2>1, <2>9, <3>4 DEF T!RunHandler, T!history
      <3>6. TaskStops'
        BY <2>9 DEF T!RunHandler, T!history, TaskStops, TaskTypes
      <3> QED
        BY <3>3, <3>5, <3>6
    <2>10. CASE T!FinishHandler
      <3>1. executed' \in Seq(Task) /\ executing' = <<>> /\ <<>> \in Seq(Task)
        BY <2>10, LineType DEF T!FinishHandler
      <3>2. TaskTypes'
        BY <2>10, <3>1 DEF T!FinishHandler, TaskTypes
      <3>3. Line' = Line
        <4>1. (executed \o executing) \o <<>> = executed \o executing
          BY LineType, ConcatEmptySeq
        <4> QED
          BY <2>10, <4>1 DEF T!FinishHandler, Line
      <3>4. TaskOrder'
        BY <2>1, <2>10, <3>3 DEF T!FinishHandler
      <3>5. ASSUME m_handlers = <<>>
            PROVE  Begins(promised, executed')
        <4>1. Line = executed'
          BY <2>10, <3>5, RunDry DEF T!FinishHandler
        <4> QED
          BY <4>1 DEF TaskOrder, TaskTypes
      <3>6. Begins(promised, executed) => Begins(promised, executed')
        BY <2>10, BeginsAppend DEF T!FinishHandler, TaskTypes
      <3>7. TaskStops'
        <4>1. t_running' = t_running /\ m_work' = m_work /\ m_started' = m_started /\ promised' = promised
          BY <2>10 DEF T!FinishHandler
        <4>2. ioctx_stopped' => m_started /\ ~t_running
          BY <2>10 DEF T!FinishHandler, TaskStops, TaskTypes
        <4>3. ioctx_stopped' => Begins(promised, executed')
          BY <2>10, <3>5, <3>6 DEF T!FinishHandler, TaskStops, TaskTypes
        <4> QED
          BY <2>10, <4>1, <4>2, <4>3 DEF T!FinishHandler, TaskStops, TaskTypes
      <3> QED
        BY <3>2, <3>4, <3>7
    <2>11. CASE T!RunReturns
      <3>1. TaskTypes'
        BY <2>11 DEF T!RunReturns, T!ioctx, T!history, TaskTypes
      <3>2. TaskOrder'
        BY <2>2, <2>11 DEF T!RunReturns, T!ioctx, T!history
      <3>3. TaskStops'
        BY <2>11 DEF T!RunReturns, T!ioctx, T!history, TaskStops
      <3> QED
        BY <3>1, <3>2, <3>3
    <2>12. CASE UNCHANGED T!vars
      <3>1. TaskTypes' /\ TaskStops'
        BY <2>12 DEF T!vars, TaskTypes, TaskStops
      <3>2. TaskOrder'
        BY <2>2, <2>12 DEF T!vars
      <3> QED
        BY <3>1, <3>2
    <2> QED
      BY <2>3, <2>4, <2>5, <2>6, <2>7, <2>8, <2>9, <2>10, <2>11, <2>12
      DEF T!Next, T!Poster, T!StopCall, T!Worker
  <1> QED
    BY <1>1, <1>2, PTL DEF T!Spec

(* Tasks run in the order of their posts, each once, and stop of the task  *)
(* queue cuts nothing off: when it has joined the thread, every task       *)
(* posted before it has run.                                               *)
THEOREM StopDrainsQueue == T!Spec => []StopDrains
  <1>1. TaskInv => StopDrains
    <2> SUFFICES ASSUME TaskInv PROVE StopDrains
      OBVIOUS
    <2>1. executed \in Seq(Task) /\ posted \in Seq(Task) /\ promised \in Seq(Task)
      BY DEF TaskInv, TaskTypes
    <2>2. IsPrefix(executed, posted)
      BY <2>1, LineType, BeginsIsPrefix DEF TaskInv, TaskOrder
    <2>3. \A s \in Stopper : stop[s] = "joined" => Begins(promised, executed)
      BY DEF TaskInv, TaskStops
    <2>4. \A s \in Stopper : stop[s] = "joined" => IsPrefix(promised, executed)
      BY <2>1, <2>3, BeginsIsPrefix
    <2> QED
      BY <2>2, <2>4 DEF StopDrains
  <1> QED
    BY <1>1, TaskInvariant, PTL

-----------------------------------------------------------------------------
(* The sender: what may leave a node *)
AnnMessage == [ann_no : Nat, ann_index : Index \cup {1}, type : {"consensus", "rpc"},
               free_node : BOOLEAN, in_shard : BOOLEAN]
BlockMessage == [block : Block]

(* The pointers are there only while the sender runs, and the number of    *)
(* the next announcement is above all that were used.                      *)
SenderInv ==
  /\ config \in [free_node : BOOLEAN, edge_node : BOOLEAN]
  /\ m_ann_no \in Nat
  /\ m_ann_index \in Index \cup {1} /\ s_index = m_ann_index
  /\ sent \in Seq(AnnMessage \cup BlockMessage)
  /\ pointers => s_running
  /\ \A k \in DOMAIN sent : "ann_no" \in DOMAIN sent[k] => sent[k].ann_no < m_ann_no

(* A block carries no number, and what a tick makes does.                  *)
LEMMA MessageKinds ==
  ASSUME SenderInv
  PROVE  /\ S!Netann \in AnnMessage
         /\ S!Netann.ann_no = m_ann_no /\ S!Netann.ann_index = m_ann_index
         /\ S!Netann.type = "consensus" => (config.edge_node => config.free_node)
         /\ \A b \in Block : /\ [block |-> b] \in BlockMessage
                             /\ "ann_no" \notin DOMAIN [block |-> b]
  <1>1. /\ S!Netann \in AnnMessage
        /\ S!Netann.ann_no = m_ann_no /\ S!Netann.ann_index = m_ann_index
    BY DEF S!Netann, AnnMessage, SenderInv
  <1>2. S!Netann.type = "consensus" => (config.edge_node => config.free_node)
    BY DEF S!Netann, SenderInv
  <1>3. \A b \in Block : [block |-> b] \in BlockMessage /\ "ann_no" \notin DOMAIN [block |-> b]
    BY DEF BlockMessage
  <1> QED
    BY <1>1, <1>2, <1>3

(* One more message: where it is, and where the others are.                *)
LEMMA SentAnother ==
  ASSUME SenderInv, NEW m \in AnnMessage \cup BlockMessage, sent' = Append(sent, m)
  PROVE  /\ sent' \in Seq(AnnMessage \cup BlockMessage)
         /\ Len(sent') = Len(sent) + 1 /\ Len(sent) \in Nat
         /\ DOMAIN sent = 1..Len(sent) /\ DOMAIN sent' = 1..(Len(sent) + 1)
         /\ sent'[Len(sent')] = m
         /\ \A k \in DOMAIN sent : sent'[k] = sent[k]
  <1>1. sent \in Seq(AnnMessage \cup BlockMessage)
    BY DEF SenderInv
  <1> QED
    BY <1>1

LEMMA SenderInvariant == S!Spec => []SenderInv
  <1>1. S!Init => SenderInv
    <2>1. <<>> \in Seq(AnnMessage \cup BlockMessage)
      OBVIOUS
    <2> QED
      BY <2>1 DEF S!Init, S!Config, SenderInv
  <1>2. SenderInv /\ [S!Next]_(S!vars) => SenderInv'
    <2> SUFFICES ASSUME SenderInv, [S!Next]_(S!vars) PROVE SenderInv'
      OBVIOUS
    <2>1. CASE S!Start \/ S!Stop \/ UNCHANGED S!vars
      BY <2>1 DEF S!Start, S!Stop, S!vars, SenderInv
    <2>2. CASE S!OnAnnTick
      <3> DEFINE EarlierThanNext(m) == "ann_no" \in DOMAIN m => m.ann_no < m_ann_no + 1
      <3>1. \A k \in DOMAIN sent : EarlierThanNext(sent[k])
        <4>1. \A k \in DOMAIN sent : "ann_no" \in DOMAIN sent[k] => sent[k].ann_no \in Nat
          BY MessageKinds DEF SenderInv, AnnMessage, BlockMessage
        <4> QED
          BY <4>1 DEF SenderInv
      <3>2. ASSUME sent' = Append(sent, S!Netann)
            PROVE  /\ sent' \in Seq(AnnMessage \cup BlockMessage)
                   /\ \A k \in DOMAIN sent' : EarlierThanNext(sent'[k])
        <4>1. EarlierThanNext(S!Netann)
          BY MessageKinds DEF SenderInv
        <4> HIDE DEF EarlierThanNext
        <4>2. /\ sent' \in Seq(AnnMessage \cup BlockMessage)
              /\ Len(sent') = Len(sent) + 1 /\ Len(sent) \in Nat
              /\ DOMAIN sent = 1..Len(sent) /\ DOMAIN sent' = 1..(Len(sent) + 1)
              /\ sent'[Len(sent')] = S!Netann
              /\ \A k \in DOMAIN sent : sent'[k] = sent[k]
          BY <3>2, MessageKinds, SentAnother
        <4> QED
          BY <3>1, <4>1, <4>2
      <3>3. ASSUME sent' = sent
            PROVE  /\ sent' \in Seq(AnnMessage \cup BlockMessage)
                   /\ \A k \in DOMAIN sent' : EarlierThanNext(sent'[k])
        BY <3>1, <3>3 DEF SenderInv
      <3>4. sent' = Append(sent, S!Netann) \/ sent' = sent
        BY <2>2 DEF S!OnAnnTick
      <3> QED
        BY <2>2, <3>2, <3>3, <3>4 DEF S!OnAnnTick, SenderInv
    <2>3. ASSUME NEW b \in Block, S!SendBlock(b) PROVE SenderInv'
      <3>1. ASSUME sent' = Append(sent, [block |-> b])
            PROVE  /\ sent' \in Seq(AnnMessage \cup BlockMessage)
                   /\ \A k \in DOMAIN sent' :
                        "ann_no" \in DOMAIN sent'[k] => sent'[k].ann_no < m_ann_no
        BY <3>1, MessageKinds, SentAnother DEF SenderInv
      <3>2. sent' = Append(sent, [block |-> b]) \/ sent' = sent
        BY <2>3 DEF S!SendBlock
      <3> QED
        BY <2>3, <3>1, <3>2 DEF S!SendBlock, S!members, SenderInv
    <2>4. ASSUME NEW i \in Index, S!UpdateIndex(i) PROVE SenderInv'
      BY <2>4 DEF S!UpdateIndex, SenderInv
    <2> QED
      BY <2>1, <2>2, <2>3, <2>4 DEF S!Next
  <1> QED
    BY <1>1, <1>2, PTL DEF S!Spec

(* After stop and before start the sender is silent though its timer goes  *)
(* on, and no announcement repeats a number.                               *)
THEOREM SenderSilentUnlessRunning == S!Spec => S!SendsOnlyWhenRunning
  <1> DEFINE Sends ==
        sent' # sent =>
          /\ s_running
          /\ LET msg == sent'[Len(sent')]
             IN  "ann_no" \in DOMAIN msg =>
                   /\ msg.ann_index = s_index
                   /\ config.edge_node => config.free_node
                   /\ \A k \in DOMAIN sent :
                        "ann_no" \in DOMAIN sent[k] => sent[k].ann_no < msg.ann_no
  <1>1. SenderInv /\ [S!Next]_(S!vars) => [Sends]_(S!vars)
    <2> SUFFICES ASSUME SenderInv, S!Next, sent' # sent PROVE Sends
      OBVIOUS
    <2>1. CASE S!OnAnnTick
      <3>1. pointers /\ S!Netann.type = "consensus" /\ sent' = Append(sent, S!Netann)
        BY <2>1 DEF S!OnAnnTick
      <3>2. sent'[Len(sent')] = S!Netann
        BY <3>1, MessageKinds, SentAnother
      <3> QED
        BY <3>1, <3>2, MessageKinds DEF SenderInv
    <2>2. ASSUME NEW b \in Block, S!SendBlock(b) PROVE Sends
      <3>1. pointers /\ sent' = Append(sent, [block |-> b])
        BY <2>2 DEF S!SendBlock
      <3>2. sent'[Len(sent')] = [block |-> b]
        BY <3>1, MessageKinds, SentAnother
      <3> QED
        BY <3>1, <3>2, MessageKinds DEF SenderInv
    <2> QED
      BY <2>1, <2>2 DEF S!Next, S!Start, S!Stop, S!UpdateIndex
  <1> QED
    BY <1>1, SenderInvariant, PTL DEF S!Spec, S!SendsOnlyWhenRunning
=============================================================================
