# A verification of x-research-prototype in TLA+

This directory models the parts of the repository that make decisions under
concurrency, faults, jumps of the clock or arithmetic, checks them with TLC on
small instances, and proves the most important properties of the node's own code
with TLAPS for every value of the constants. Modules and definitions are named
after the code they model; `PROJECT.json` maps every definition to the lines it
stands for, and lists runs, mutants (plausible bugs each property must catch),
hazards and theorems.

## 1. What the repository contains

The repository is a research prototype of a blockchain node. Its own logic is in
`xelect` (election of a chain), `consensus` (proof of work), `net/NAT` and
`struct/BlockData`; `crypto` (a copy of the fc library) and `net/libev-3.7` are
libraries kept with the source, with a good deal of state of their own.

| component | state | operations | hard behaviour | here |
|---|---|---|---|---|
| election chain: `xelect/xchain`, `xelect/xblock` | a deque of at most 30 blocks, a cache of their hashes, a mutex | `append_new_block`, `append_net_block`, `get_last_block` | a block is built on a last block that may be stale; jumps and evictions keep deque and cache in step; heights are `uint64_t` | modelled, proved |
| message and task queues: `xelect/xqueue.h` | a deque or an io_context, running flags, condition variable, thread | `push_back`, `get_front`, `stop`; `start`, `post`, `stop` | wakeups between test and wait, posts while stopping | modelled, safety proved |
| receiver: `xelect/xreceiver`, `xthread` of `xelect/xdefine.h` | current announcement set and index, callback, queue, thread | `start`, `stop`, `on_message`, `swap`, `update_index`, the thread | a callback read without the mutex, a join under the mutex | modelled, safety proved |
| network: `xelect/xsender`, `xelect/xwrap` | dispatcher and configuration pointers, announcement number and index | `send_block`, `broadcast`, `on_ann_tick_proc`, `update_index`, `start`, `stop` | copies lost, doubled, overtaken; echo of own messages; restarts with nothing stored; ticks after `stop` | modelled, safety proved |
| proof of work: `consensus/pow` | light client and its number, miners, result slots, an atomic index and flag, three mutexes, a condition variable | `PoWMine`, `StopMining`, `PoWVerify`, `LightHash`, `EthashConfigureLightClient`, difficulty checks | a notification before the wait, an index read and incremented in two steps, a client used after its mutex is released, a table of masks | partly: devices and `ConcatAndhash` left out; safety proved |
| port forwarding: `net/NAT` | registered ports, UPnP handles | `init`, `addRedirect`, `removeRedirect`, destructor | a router shared with others, calls that fail | modelled, proved |
| ledger blocks: `struct/BlockData` | members of eight classes | constructors, `Serialize`, `Deserialize`, `SetCoSignatures`, comparisons | failed reads, checks that differ between reading and writing, orders made of other orders | partly: getters and printing left out; proved |
| event loop: `net/libev-3.7` | watchers by kind, heaps, pending arrays, descriptors, the pipe, the backend's sets | starts, stops, `ev_loop`, `ev_loop_fork`, sends from other threads, the five backends, libevent's calls | callbacks that change what is being walked, clocks that jump, descriptors reused, forks, flags shared without fences | partly: section 7; what is modelled is proved |
| cryptographic library: `crypto` | EC_KEYs and their owners, DH parameters, cipher states | keys, signatures, recovery, codecs, Blowfish, AES and its files, CRC | ownership through copies and moves, signs and leading zeros, torn files | partly: section 7; the owners of keys proved |
| election interface and manager; `xutil`; `sign/Sha2.h`; `compress`; `xengine` | | | | not modelled, section 7 |

How they interact. The dispatcher (`xmessage_dispatcher`, not in the repository)
calls `xreceiver::on_message` on its threads. The message goes through
`xqueue_condv` to the receiver thread, which stores announcements in the current
set and hands blocks to a callback of the manager. The manager (behind
`xelect_manager_intf`, not in the repository either) puts blocks into `xchain`,
builds new blocks on `get_last_block`, and sends what the chain accepted with
`xsender::send_block`, which calls `xdispatcher_wrap::broadcast`: to the node
itself first, then to all others. A timer calls `on_ann_tick_proc`. Shared state
is protected by one mutex per object; the exceptions are where the hazards are.
Proof of work is a singleton that any thread may call. NAT, the ledger's blocks
and the cryptographic library are passive. A libev loop belongs to one thread;
only `ev_async_send` and signal handlers come from elsewhere.

## 2. Modules

The node:

| module | models | state and actions |
|---|---|---|
| `XBlocks` | `xblock_head` and the private methods of `xchain` | operators on a deque and a cache: `Accepts`, `BlocksWith`, `AdjustCache`; also `Linked`, `CacheFits`, `Agree` |
| `XChain` | `xchain` on one node | `m_blocks`, `m_cache`, and `held`, the block the manager last read; one action per public method, since each holds the mutex throughout |
| `XChainTip` | abstract specification: what a chain promises | `tip` |
| `XQueueCondv` | `xqueue_condv` | deque, running flag and the place of each consumer in `get_front`, which is three actions because it gives the mutex up inside `wait` |
| `Mailbox` | abstract specification of a closable queue | `box`, `open`, `asking`, `got` |
| `XTaskCalls` | what `xqueue_task` and its callers share | the place of each `stop`, the tasks promised and executed |
| `XQueueTask` | `xqueue_task` with an `io_context` | `post` is two actions and `stop` three, at the mutex; the worker thread |
| `XReceiver` | `xreceiver` and `xthread`, with an instance of `XQueueCondv` | one action per critical section; `start` and `stop` are several, held together by `lock` |
| `XElectNet` | chains of several nodes, `send_block`, `broadcast` | per node a chain, a cache and a base; `net`, the copies on their way; `Chain(n)` is an instance of `XChain` |
| `XSender` | `xsender` of one node | dispatcher and configuration pointers, number and index of announcements, `died` after a null pointer was used |
| `PowMine` | `PoWMine`, `MineLight`, `MineFull`, `MineFullGPU`, its threads, `StopMining` | the place of the call and of each thread; index, results, `m_shouldMine` |
| `PowCalls`, `PowLight` | `EthashConfigureLightClient` and the calls that compute with the client | the place of each call; the owner of the mutex, client and number |
| `PowDifficulty` | `DifficultyLevelInInt`, `CheckSolnAgainstsTargetedDifficulty`, the GPU's boundary | one check of one hash |
| `Nat` | class `NAT` and the router | registered ports, the router's table, the place in `addRedirect`; every UPnP call is an action that may fail, also with its effect (`untold`: the answer was lost) |
| `LedgerBlocks` | the eight classes of `BlockData` | one object and what it last wrote; constructors, `Serialize`, `Deserialize`, `SetCoSignatures` |

libev (`EvPending` has operators that the others instantiate):

| module | models | state and actions |
|---|---|---|
| `EvPending` | `ev_feed_event`, `clear_pending`, the walk of `ev_invoke_pending` | a pending array per priority and each watcher's place in it |
| `EvTimers` | timers, periodics, `time_update`, the time to wait and to sleep with collect intervals and fudge, `ev_suspend`/`ev_resume`; `upheap`, `downheap`, `adjustheap`, `reheap` for two and four children | two clocks that move on their own, cached times, both heaps with their copies of times and each watcher's place |
| `EvEpoll` | `ev_io`, `fd_change`, `fd_reify`, `fd_ebadf`, `ev_epoll.c` | descriptors, files (also one that `dup2` brings back), the kernel's set, generation numbers |
| `EvBackends` | `ev_poll.c`, `ev_select.c`, `ev_kqueue.c`, `ev_port.c` | what each backend has been told, what the watchers want |
| `EvAsync` | `evpipe_write`, `pipecb`, `ev_sighandler`, `ev_async_send`, start and stop of signal and async watchers, the pipe in `loop_fork` | shared words with a store buffer per thread; one action per load, store and system call |
| `EvLoop` | `ev_loop`, `ev_unloop`, `ev_loop_fork`, `ev_ref`, fork, prepare, check and idle watchers | a stack of calls of `ev_loop`, arrays of watchers; callbacks do anything the interface offers |
| `EvChild` | `childcb`, `child_reap`, child watchers | the hash table, statuses not yet fetched, pending callbacks |
| `EvStat` | stat watchers with inotify | the path, watches, the inotify queue, each watcher's last lstat; whether `fs_w` listens to the inotify in use |
| `EvEvent` | `event.c` and `ev_once` | events with two watchers each, those of a timeout alone with one that never listens; what was called and deleted |

fc:

| module | models | state and actions |
|---|---|---|
| `Elliptic` | keys, `add`, `mult`, `child`, seeds, secrets, signatures, recovery and shared secrets in the openssl, secp256k1, mixed and r1 builds | a key pair over a small curve with real arithmetic |
| `KeyHandles` | constructors, copies, moves and assignments of public and private keys, also of an object to itself | which EC_KEY each object owns, which are allocated, which are lost; who copied a freed one |
| `DiffieHellman` | `dh.cpp` | parameters, key pairs, `shared_key` |
| `Codecs` | `base64.cpp`, `base36.cpp`, `hex.cpp`, `base58.cpp` with `CBigNum`, keys in base58, bigints as variants | data, its text, what was read back |
| `Blowfish` | `blowfish.cpp`: key schedule, rounds, ECB, CBC and CFB | boxes and chain of two objects |
| `Aes` | `aes_encoder`, `aes_decoder`, `aes_save`, `aes_load` | blocks on their way, a file that may be empty, torn within the sum or the cipher, or damaged |
| `Crc` | `crc.cpp`, eight bytes at a time | the sum and its bit-by-bit reference |

`MC...` are instances for TLC. Three of them hold several independent parts in
one run: in `MCThreads`, `MCNet` and `MCAlgorithms` the variable `machine` is
chosen at the start and says which part runs; the others stand still, so what is
checked is what a run of each part alone would check. A part with theorems is
extended, so that the run checks the very definitions that are proved:
`MCThreads` extends `PowMine` and the calls of the light client, the queue and
the tasks; `MCNet` extends all of its parts; `MCAlgorithms` extends `KeyHandles`,
`PowDifficulty` and `LedgerBlocks`. The other parts are instances,
and `MCAlgorithms` gives these the same variables `y1`, `y2`, ... in turn.
`..._proofs` hold the theorems.

Abstractions. A digest is a value, and in `XBlocks` two Booleans of a block, one
for each comparison that `append_block` makes. `HashAssumption` says what is
asked of SHA-256: headers with one digest name one parent, and no chain of
digests leads back to itself (a digest is younger than its parent, `Age`). It
does not ask for one height, because `get_str_pre` does not give it (section 6).
A hash of proof of work is reduced to whether it meets the difficulty, in
`PowDifficulty` to bytes; `Sample` are the hashes a run tries, and what is
proved holds for all. In `LedgerBlocks` the fields that only the orders and the
lengths look at have small sets: `Num`, `Count`, `Hash`, `Member`. Blowfish's
digits of pi are constants and its bytes are one bit wide; CRC and codecs are
computed as in the code. Logging, printing, JSON and the text of messages are
left out. `wait_anns` of the receiver only reads.

External parts, modelled from how the code uses them and marked `external` in
the map: the network (may overtake, lose or double), the manager, the consumer
of a queue, the router, kernels and file systems under libev, the store buffer
of a processor, OpenSSL and libsecp256k1, `Messenger`. What libethash does to a
light client that is replaced while it computes is undefined, so `PowLight` lets
the answer be either.

Definitions that follow the line "A variant" are slips of the kind the code
invites. No specification uses them; they are the mutants of `PROJECT.json`.

## 3. Runs

| run | bounds | shows |
|---|---|---|
| `chain` | binary tree of depth 5, 3 blocks retained, heights wrap after 4, damaged copies of the first two levels and copies relabelled with a greater height | deque linked and cache in step (`ChainSound`), the cache's early return shuts out no child of the last block, only a jump of which a relabelled copy is retained (`CacheTurnsAwayNoChild`), a block built on a stale block is refused, `XChain` implements `XChainTip` |
| `threads` | mining: two GPUs, three calls; light client: three threads, three numbers, one at a time; queue: two consumers, two items, three waiting; tasks: three tasks, two calls of `stop`; sender: three ticks, one block, two indices | nothing of one mining job reaches another, a found solution is lost only if two threads shared an index, a waiting job hears of `StopMining`; answers are for the right block; nobody sleeps on work and the queue implements `Mailbox`; tasks run in the order of the posts and `stop` returns when those posted before it have run; announcements only between start and stop |
| `receiver` | two accounts, two indices, three messages, one swap | messages handled once and in order, the callback valid when called, no announcement lost, nothing after `stop`, progress, and `stop` returns except in one case |
| `receiver_stop_deadlock` | two messages | violation: the exception, section 6 |
| `net_faults` | two nodes, three blocks made up to height 2, one loss or doubling, one restart | chains with a common block agree below it; nobody broadcasts twice |
| `net_live` | two nodes, three blocks up to height 3, no faults | in the end heights are within one of each other |
| `mine_gpu_stop` | two GPUs, one call | violation: `StopMining` may leave a call waiting |
| `light_two_blocks` | `PowLight` alone: three threads, any numbers at once | violation: the client is replaced under a computation |
| `difficulty_zeros` | all 32 difficulties of a 4-byte hash | violation: not always exactly that many zero bits |
| `net_parts` | `Nat` with two ports; libev: two timers (one repeats) and a periodic over jumps of the clock, one timer and a periodic with collect intervals of 0 and 2 and a fudge of 1, one descriptor and two files with two watchers in one generation or one through three, two senders with two sends and two changes (a fork, a watcher stopped), six watchers in nested loops, two children, one path with two changes, four backends with two descriptors, one event, one signal event and one `ev_once`, or one event of a timeout alone and one `ev_once` | what `ev_loop_verify` asserts; whichever the backend, it waits for what the watchers want; the loop sleeps past no timer by more than the fudge or `timeout_blocktime`; due timers are called in order; no event of a file under another's number, unless `dup2` brought the file back; forks are heard and `EVUNLOOP_ALL` obeyed; children are told of one by one; changes of a path are noticed unless nothing watched; no call after `event_del` but for what `event_active` gave by hand, none twice; every mapping of this host is one `NAT` will remove, was refused to be deleted, or was made in a call answered with an error |
| `ev_async_forgotten` | one sender, two sends | violation: a send is forgotten |
| `algorithms` | all inputs of small sets: difficulties and boundary hashes; blocks with two hashes and numbers up to 1; a curve of 29 points; eight key objects and three EC_KEYs; p = 23; texts of up to three edge bytes and numbers up to three bytes; messages of up to three blocks; streams of up to eight units; pieces of up to 18 bytes | difficulties mean what they say (`HashesAccepted`); orders are strict and agree with equality, or partial exactly where the code makes them so (`BlocksOrdered`); a block that was read can be sent on (`ReceivedForwards`); both halves of a key stay one key in all builds, two parties agree (`KeysAgree`); every EC_KEY has one owner and only self-assigned r1 keys copy a freed one (`KeysOwnedOnce`); what was written is read, also from ciphers, sums and torn files (`ReadAsWritten`) |

Why the bounds are enough. A chain of 3 retained blocks on paths of length 5
evicts, jumps, evicts again after a jump and wraps. Two nodes and three blocks
are the least that make a fork and a block on top of one side; three nodes do
not add a kind of step, and the theorems of section 5 hold for any number. In
`net_live` the height must reach 3 so that a node can be left behind by two. In
`receiver` three messages allow one handled, one in hand and one queued. Two
threads can share an index, and a later call finds what an earlier one left. A
hash of 4 bytes has first, middle and last bytes and all bits; only the boundary
hashes matter for comparisons. Two timers and a periodic make both heaps, an
order and a tie; one descriptor with two files is the least that goes stale, and
a second watcher the least that shares it. Three generations let an event of an
older one arrive when the number has a newer file; `MCNet` runs several
generations with one watcher (`machine = "generations"`) and two watchers in one
generation (`"epoll"`), and collect intervals with one timer (`"intervals"`) and
two timers without them (`"timers"`), since the products are too large. For the
same reason one watcher never asks for writing alone. Two
senders are the least of which one finds the other's flag. The small curve has
secrets and digests above its order, numbers with a clear and a set top bit, and
points whose x exceeds the order. Edge bytes (0, 1, 127, 128, 255) are those
that turn into signs or vanish.

Bounds that the code does not have are constants of the modules: `MaxQueued`,
`MaxArrived`, `MaxSwaps`, `MaxMined`, `MaxFaults`, `MaxRestarts`, `MaxJobs`,
`MaxTicks`, `MaxSends`, `MaxChanges`, `MaxPathChanges`, `MaxSteps`, `MaxDepth`,
`MaxPolls`, `MaxClock`, `MaxOpens`, `MaxGen`, `MaxReports`, `MaxStarts`,
`MaxKeys`, `MaxPieces`, `MaxUnits`, and `Blocktime`, the collect intervals a
program may set. They appear only in guards and choices, and the proofs hold
whatever they are.

`CHECK_DEADLOCK FALSE` is in four configurations, where behaviours end by their
bounds and waiting is not a fault: a check is made once (`PowDifficultyZeros`),
an algorithm has had its input (`MCAlgorithms`), and a loop that has been sent
and told all it will be sleeps (`MCNet`, `EvAsyncForgotten`). In `MCThreads`
deadlock is checked; the steps that stutter on purpose are written there.
Symmetry is used where only invariants are checked.

## 4. Fairness

- `XQueueCondv`: weak fairness of `GetFront` for each consumer. A thread that is
  woken or wants the mutex gets it; nobody is obliged to push, stop, call
  `get_front` or wake spuriously.
- `XQueueTask`: the worker thread runs, a post and a stop that have begun go on.
  Nobody has to post or to stop.
- `XReceiver`: the receiver thread and the steps of a `start` or `stop` that has
  begun. Nothing forces the manager to call `stop`, nor the network to deliver.
- `XElectNet`: a copy that stays in `net` is handled. Nobody has to make blocks
  and no fault has to happen. `HeightsMeet` is checked without faults: a lost
  last block leaves the others behind until the next one, and no code sends it
  again.
- `PowMine`: threads run, a GPU's `mine` returns, the caller goes on when it can.
  No hash has to meet the difficulty and no wakeup has to be spurious.

No fairness is assumed of libev, NAT or fc: their properties are about safety. A
loop that "never oversleeps" is one whose times to wait and to sleep are never too
long.

## 5. Proofs

Every theorem is `Spec => ...` for all values of the constants under the named
assumptions of the modules, which TLC evaluates in the runs. The type invariants
of these modules are proved and not listed in the runs.

- `XBlocks_proofs`: lemmas on the operators. `AcceptedIsHigher` (an accepted
  block is higher than all retained), `HashesDiffer` (along a deque the ages of
  `HashAssumption` increase, so its hashes differ), `ChildIsNew` (a child of the
  last block is younger than all retained, so its hash is not cached),
  `AppendKeepsWellFormed` and `AppendKeepsCache`.
- `XChain_proofs`: types, `ChainSound`, the early return, the refusal of stale
  blocks, the refinement of `XChainTip`. That the cache matches the deque is not
  inductive: evicting a hash from the cache is right only if no other retained
  block has it. The invariant adds that the deque is linked and made of blocks
  that passed the checks, so ages increase with `HashAssumption` and hashes
  differ. A cached hash of a block that would be accepted is therefore that of a
  jump, and belongs to a retained block of another height: a relabelled copy.
- `XElectNet_proofs`: types; soundness of the chain of every node, restarts
  included; `AgreeBelowSharedBlock`; `BroadcastOnce`. Agreement is the
  interesting one: when a node appends a block another node has, the argument
  needs that the other's block names the same parent (`HashAssumption`), that
  the parent is the appender's last block, and then agreement below that parent
  from the step before. A jump starts a deque of one block and agrees trivially.
  `BroadcastOnce` needs that what a node has sent is no higher than its last
  block, so a block that was evicted or jumped over is refused for its height
  when the cache no longer knows it.
- `XReceiver_proofs`: types, `CallbackValid`, `SilentAfterStop`,
  `HandledInOrder`, `NoAnnLost`, that no set of announcements, current or handed
  out, holds two of one account and index (`NoneTwice`), and that the receiver's
  steps on its queue are those of `XQueueCondv`. `Phases` carries most of it:
  where the manager is in `start` and `stop` says where the thread may be, the
  callback is set from before the thread exists until after its join, and the
  thread holds a message only inside `run_once`. For the order, what arrived is
  what was handled, the message in hand and the queue, in a row, except for
  those that `stop` dropped.
- `Pow_proofs`, mining: types, `IndexInRange`, `NothingRunsBetweenJobs`,
  `ReturnsOwnResult`, `FoundUnlessShared`. `m_minerIndex` is at most N because
  it equals the number of threads that have incremented it (a cardinality), and
  a thread that is about to increment has read at most the current value. What
  was found stands in a slot, in the hands of a thread, or two threads share an
  index.
  - Light client: types and `NumberMatchesClient` without any assumption on
    callers; with `OneBlockAtATime`, `AnswersRight`: a caller past the
    configuration keeps `currentBlockNum` at its number, so no other call
    renews.
  - Difficulty: `HashesAccepted` for hashes of any length. The text that
    `DifficultyLevelInInt` builds reads back as zeros, one byte of the table and
    ones, which is below the least hash that has fewer zero bits than asked; the
    order of hashes is transitive, so a hash that is at most the level has
    enough. The boundary of the GPU is the least hash with one zero bit less.
    The number of leading zeros exists because a set of numbers that is not
    empty has a least one (`LeastOf`).
  - Ledger: `BlocksOrdered` and `ReceivedForwards` over any numbers and hashes.
    Comparisons go field by field, so the lemmas are that a lexicographic order
    of three or four fields is one, and that a block's order by its header and
    then by its hashes inherits it. What was accepted can be written because the
    lengths were compared before `taken`, and neither a failed read nor
    `SetCoSignatures` changes lengths of what was taken.
  - Keys: `KeysOwnedOnce`, for any number of objects of the four classes. New
    keys have numbers above all made so far, and an object that does not live
    holds none; with types that is inductive, one lemma for each way an owner
    changes (`BeginKeepsOwners` and those after it). Whoever copies an EC_KEY
    copies it before any is freed, except an r1 object that is assigned to
    itself.
  - Queue: no consumer sleeps on work, and every step is a step of `Mailbox` or
    invisible to it (`Box!SafeSpec`). Its fairness is left to TLC.
  - Tasks: `StopDrains`. What was executed, is executing and is queued makes up,
    in a row, what was posted, and what was promised is a beginning of that row;
    and the io_context stops only when `m_running` was cleared, at a moment when
    the promised tasks were all executed.
  - Sender: the pointers are set only while it runs, so nothing is announced
    before `start` and after `stop`, whatever ticks still come.
- `Net_proofs`, NAT: `MappingsRemembered`, and that the port answered leads to
  the port asked for. A mapping is made and noted in one step of the object, and
  a deletion forgets only what it freed. A call that is answered with an error
  may have made a mapping all the same, and the object cannot know (`untold`,
  lemma `FailureIsUntold`).
  - libev: `ForgottenOnlyIfCrossed`, for any number of watchers, senders, sends
    and forks. A buffer is a sequence; the proof looks at three sets of words,
    the loop's zeros and ones on their way (`Zeros`, `Ones`) and each sender's
    ones (`Sent`), and at the lemmas of what an append and a drain do to them.
    The invariant: the loop lowers only a flag it saw up (`FlagsOfLoop`); what
    was sent without a crossing and is not yet pending is marked and no mark is
    being removed (`Marked`); its sender still goes for the flag, or the flag is
    up or on its way and nobody lowers it, or the loop is about to look at the
    item (`Noticed`); and for a flag that is up the loop comes by or the pipe
    has a byte for it (`Woken`). None of these can be left out: each is what the
    next one needs of the step before.
  - Stat watchers: `ChangesNoticedUnlessBlind`, for any number of watchers on
    the path, of changes and of events that inotify keeps. A watcher that is not
    blind, has no timer and is not just being watched anew (`Renewing`) either
    knows the path and has its watch on it, or an event will have it added
    again, or it knows another path and an event, an overflow or the rest of the
    callback makes it look (`Follows`). Three facts carry that from step to
    step: what was told is never lost from the queue, since a full queue holds
    an overflow (`OverflowTold`); a file that is gone does not come back, nor
    does an old state of it (`PathPast`), so a path that equals what is
    remembered was not left in between; and the calls of a callback come in the
    order `infy_add`, `lstat` or `lstat`, `infy_add` (`InOrder`). `infy_fork`
    opens a new inotify and leaves `fs_w` as it is, so all this holds as long as
    `fs_w` listens to the number in use (`heard`): a queue nobody reads is no
    event that libev still has to deal with.
- `Ev_proofs`, for any sets of watchers and priorities. What is pending
  (`EvPending`): a pending watcher is in the array of its priority where it says
  and nowhere else (`Verified`, what `verify_watcher` asserts), and feeding,
  clearing and taking an entry keep that. An entry once fed stays where it is
  (`Kept`), and what is fed anew goes behind all that was in its array; for a
  whole list of watchers that is an induction over the set of places it holds
  for (`UpTo`, from the well-foundedness of the naturals).
  - Loop: `LoopObeys` and `LoopVerified`. An active watcher is in its array at
    its place (`Listed`), so `array_remove` moves the right one, and `activecnt`
    is the number of active ones plus the references given up (`Counted`). Of
    the fork told last, the watchers still to hear of it are pending, at a
    priority that is not done with, in every call of `ev_loop` that is past its
    fork watchers (`Promised`); a call polls when nothing of the priorities up
    to the highest is left, so then nobody is.
  - Children: `ReapedOneByOne`. A child watcher is only pending at the highest
    priority and behind the watcher of SIGCHLD (`Behind`). The last of an array
    is taken first, so when `childcb` is called no child watcher is pending:
    none has a status it was not called for, and their priorities may change.
  - Events: `CalledInTime`, for any number of events and calls of `ev_once`. The
    entry that is taken is that of a watcher whose place is not 0. A deleted
    event has no active watcher, and its timeout, or its read or write if it is
    an event of a timeout alone, is pending only if `event_active` gave it
    (`EventsHeard`); an `ev_once` has active and pending watchers only between
    its call and its callback (`OncesOwned`).
  - Heaps: a step of `upheap`, `downheap` or `adjustheap` swaps an entry with
    its parent or with the least of its children. Between two steps one place k
    is out of order, upwards (`OrderedUp`) or downwards (`OrderedDown`); both
    say besides that k's parent is no later than k's children, without which a
    swap could put the next pair out of order. `HeapDelete` moves the last entry
    anywhere and does not know which way it has to go (`OrderedLoose`). For the
    watchers, each is at the place its active field says and an entry copies its
    time (`Housed`), which a swap keeps because `Put` tells both. The recursion
    ends since places go down to 1 or beyond the heap; the least of the children
    exists because there are finitely many. `TimersInv` has the two heaps, the
    types of clocks and arguments and what is pending; a jump or `ev_resume`
    changes times under the heap and keeps it, by `reheap` (the periodics) or
    because all move alike (the timers, `ShiftKeeps`). `HeapsVerifiedAlways`
    follows, and `NeverOversleepsAlways`: the root is the least of a heap, so
    what is no longer than the roots and the fudge allow is no longer than any
    watcher allows. The two ways to go beyond that are in the property:
    `timeout_blocktime` lengthens the wait, and `io_blocktime` makes the loop
    sleep for a part of it, never for more (`ToSleep`).
  - For `DueInOrderAlways` a walk of `timers_reify` or `periodics_reify` is
    followed from step to step (`Walked`): a root that is due is the first of
    those due, it leaves their set, since it is stopped or set to a time not
    before now, and nobody enters; so those taken are in the order of their
    times, and after as many steps as the heap has entries nobody due is left.
    Nothing is pending during the poll (`PollEmpty`). `feed_reverse_done`
    appends in the other order, first the timers and then the periodics
    (`FedAfter`), and arrays are emptied from the end.
- `Loop_proofs`, for any descriptors, files, watchers and number of openings.
  - `EvEpoll`: of libev's own state (`Watched`), a descriptor's list has its
    active watchers, a descriptor waits in `fdchanges` once if anything about it
    changed, and otherwise its `events` are what its watchers want (`Known`). Of
    the kernel (`Entered`), a number and a generation belong to one file, and
    the generation of an entry is not beyond that of its descriptor (`Origins`);
    the entry for the file that a number now stands for is as libev remembers it
    (`Current`); and who wants something has an entry for it, unless the
    descriptor was changed without `ev_io_set` or its file brought back by
    `dup2` under an old entry (`Asked`, `returned`): `epoll_modify` then takes
    the old entry for its own. These lean on each other: `fd_reify` may skip
    `epoll_ctl` only because of `Known` and `Asked`, and a told event is known
    as stale by its generation only because of `Origins`. From `IoInv` follow
    `NoStaleEvent`, `FdsVerified` and, when the loop is about to sleep and so
    nothing waits in `fdchanges`, `KernelKnows`.
  - `EvBackends`: `BackendsAlwaysKnow`. The changes list a descriptor once
    (`ChangesListed`); for all others `events` is what is wanted
    (`EventsKnown`); closed descriptors have no entry in the kernel
    (`Forgotten`); and each backend was told of `events` in its way
    (`BackendTold`): poll by an array and an index into it that point at each
    other, although the last entry is moved into a gap; select by its bit sets;
    kqueue by the kernel's filters and the changes not yet submitted, of which
    the last per filter counts (`Watches`); port by associations. kqueue and
    port are only sure of descriptors that were not closed and reused
    unannounced since (`SureOf`). `LoopVerifyAlways` joins what is proved of
    timers, descriptors and the other watchers: all that `ev_loop_verify`
    asserts.

Only model-checked:

- liveness (`HandledUnlessStopped`, `StopReturnsUnlessPushing`, `HeightsMeet`,
  `StopReachesWaiter`, `TaskStopReturns`, the fairness of `ImplementsMailbox`),
  which is beyond TLAPS here;
- `KeysAgree` and `ReadAsWritten`: points of a curve, digits and rounds of ciphers
  are recursive, and the provers have no induction over data.

## 6. Where code and words differ

1. `receiver_stop_deadlock`. `xreceiver::stop` joins the receiver thread while it
   holds `m_mutex`. If the thread holds an announcement, it waits for `m_mutex`
   in `push_back`, and neither goes on. `StopReturnsUnlessPushing`, a property of
   the run `receiver`, says that this is the only case.
2. `mine_gpu_stop`. `MineFullGPU` sleeps 5 ms and waits without a predicate.
   Threads that end before that have notified nobody, and `PoWMine` waits for
   ever, `StopMining` or not. `StopReachesWaiter` says that a wait that begins in
   time ends.
3. `light_two_blocks`. The light client is configured under a mutex and used
   after it. A call for another block number replaces it in between. The theorem
   `RightForOneBlock` gives the obligation of the callers.
4. `difficulty_zeros`. The table of masks goes from `0x07` to `0x01`: difficulties
   8k+6 and 8k+7 ask for one zero bit more than their number.
5. `ev_async_forgotten`. libev's flags are plain words without a fence. A sender
   may see a flag that the loop has lowered in its store buffer only, write
   nothing to the pipe, and have its mark overwritten by the loop's. The run
   `net_parts` shows that nothing is forgotten in any other way
   (`ForgottenOnlyIfCrossed`).

What the models follow although it may surprise. No text of the repository says
otherwise, so these are remarks:

- Mining: two GPU threads may take the same index, because it is loaded and
  incremented in two steps; they then mine on one miner and write one slot.
- `get_str_pre` of `xblock_head` joins fields without separators, and nothing
  checks the time: headers that differ in height, time, difficulty or nonce may
  have one text and so one digest (index 12 with a time that begins with 0 reads
  like index 120). If the relabelled header is retained, its cached hash turns the
  real block away should the chain jump to that later; children of the last block
  are never turned away (`CacheTurnsAwayNoChild`).
- Ledger: `GetMyHash` ignores what `Serialize` answers; the comparison of view
  change blocks of different epochs is not a strict weak order; a block whose
  `Deserialize` fails is constructed all the same.
- fc: `mult` of r1 is `add` without its checks (`elliptic_impl_pub.cpp` warns of
  it, of a copy that is commented out). `sign` of r1 hands out 72 bytes and
  `verify` passes on all of them, so with OpenSSL from 1.0.1k on only signatures
  whose DER fills them are verified, about a quarter. The four builds differ
  when a digest equals the group's order. The copy assignments of r1 keys do not
  ask whether an object is assigned to itself and then copy the EC_KEY they
  freed; its move assignments leave such an object empty; a failed
  `o2i_ECPublicKey` and a failed `generate` leak one. `from_base36` takes
  unknown characters for 0, a bigint loses its sign in a variant, `>>=` of a
  negative `CBigNum` is 0, `/=` and `*=` of a bigint return copies.
  `diffie_hellman::generate_params` uses a null DH, and a second, shorter shared
  key keeps the tail of the first. An `aes_encoder` that threw has shifted its
  stream.
- libev: a fork told of by a prepare or fork callback is not heard by the fork
  watchers of that turn; an epoll event of an earlier generation of its fd sets
  `postfork`, so fork watchers are called though nobody forked; a change between
  lstat and `inotify_add_watch` goes unnoticed until the next one; `infy_fork`
  opens a new inotify but leaves `fs_w` at the number of the old, so if a lower
  descriptor is free nobody reads the new one; an epoll entry of a file that
  `dup2` brings back to its number passes for the entry of the file that was
  there in between, so a wanted event may be missed or a stale one told;
  `ev_embed_stop` leaves the embed watcher active. In `event.c` a timeout of {0,
  0} never fires, `event_del` leaves the call of a timeout that is queued and of
  a read that `event_active` gave to an event without a descriptor, and a signal
  event without `EV_PERSIST` stays.

## 7. What is not modelled

- The manager, the dispatcher, `xutil` and `xconfig`: declared here, implemented
  elsewhere. `xconfig_wrap` is the configuration `XSender` reads.
- `xqueue_blocks` of `xqueue.h` (a deque and a mutex, no caller); `xcondv` (no
  user); the getters of `xchain`.
- `ConcatAndhash`, and the start-up of OpenCL and CUDA: pure data and driver
  calls.
- Getters and printing of the ledger's blocks. `Messenger` is outside.
- libev: other loops than the default one beside it (`gotsig` is one word for
  all of the process: `loop_fork` of any loop raises it and only the default
  loop lowers it), clocks without `CLOCK_MONOTONIC` (the second half of
  `time_update`), periodics with a `reschedule_cb`, an `inotify_init` that
  fails, embedded loops, Windows code (`ev_win32.c`), the choice of a backend by
  environment, `ev_walk`, allocation, the C++ wrapper `ev++.h`, the event bases,
  priorities and `event_pending` of `event.c`, and directories that are renamed
  above a watched path.
- fc: digests (SHA-1, SHA-2, RIPEMD-160, city), RSA (`pke.cpp`), random numbers
  and the wrappers of OpenSSL: calls into OpenSSL or straight-line data.
  `base32.cpp` and `equihash.cpp` wrap libraries that are not in the repository;
  `public_key.cpp`, `private_key.cpp` and `signature.cpp` (keys with a prefix for
  their kind) rest on `fc/crypto/common.hpp`, which is not there either. Extended
  keys exist as declarations.
- `sign/Sha2.h`: a wrapper without decisions. `compress`: declarations only.
- `xengine`: a sequential sample that calls Lua and prints; its copy of Lua is
  third-party.

## 8. Plan

1. `XElectNet`: refinement of an abstract network of tips, so that what is proved
   of `XChainTip` can be used for several nodes.
2. `ev_embed`: an `EvLoop` inside another, with prepare and io watchers of the
   outer one.
3. The announcements of several nodes: `XSender` composed with the sets of
   `XReceiver`, which move to a new index in separate calls.
