# A TLA+ model of radard

radard is a node of the Radar network: a C++ server derived from rippled. Nodes
exchange transactions, agree once every few seconds on the set that goes into
the next ledger, and publish signed validations of the ledgers they build. Paths
below are relative to the repository, whose C++ code is in `src/ripple` and
`src/beast` (`src/src/...` in `PROJECT.json`).

This project models the core of the node as TLA+ modules, checks them with TLC
on small instances, and proves with TLAPS, for every instance: the safety of a
consensus round, of the job queue, of the batches of transactions, of saving,
online deletion, the synchronization of maps and the acquisition of ledgers, and
that the validated ledger stream implements its abstract specification.
`PROJECT.json` maps each definition to the lines it models.

## 1. Inventory

### Components, their state and operations

| Component | State | Operations | Correct when |
|---|---|---|---|
| Consensus round (`LedgerConsensusImp`) | phase, our position, peer positions, disputes, acquired sets, compared sets, dead nodes, last closed ledger, flags | `timerEntry`, `peerPosition`, `mapComplete`, `accept` | votes say what positions say; differences are disputed; a round ends, and only with the required majorities; it proposes only on the network's ledger |
| Ledger timing (`LedgerTiming`) | none | close time rounding, resolutions, close and consensus decisions | a close time follows its parent's |
| Disputed transaction (`DisputedTx`) | our vote, peer votes, two counters | `setVote`, `unVote`, `updateVote` | counters are the votes |
| Proposal (`LedgerProposal`) | sequence, set hash, close time | `changePosition`, `bowOut` | sequence numbers only rise |
| Consensus manager (`ConsensusImp`) | stored proposals, last validation, length of the last round | `storeProposal`, `newLCL`, `startRound` | playback after a switch goes by the proposals kept |
| Transaction sets (`InboundTransactions`, `TransactionAcquire`) | sets complete and being acquired | `getSet`, `giveSet`, timers | a set is delivered to the round once |
| Job queue (`JobQueue`, `Workers`) | waiting jobs, per type waiting/running/deferred, semaphore | `addJob`, `getNextJob`, `finishJob`, `stop` | limits hold, no job is stranded, stopping is final |
| Stop protocol (`Stoppable`) | flags per object | `stopAsync`, `stopRecursive`, `stopped` | a stop completes |
| Network operations (`NetworkOPs`) | operating mode, transaction batch, current round | heartbeat, `processTransaction`, `beginConsensus`, `endConsensus` | mode follows what is known of the network |
| Saving of ledgers (`Ledger.cpp`, `PendingSaves`) | pending saves, the flag `SF_SAVED`, rows of the database, complete sequences | `pendSaveValidated`, `saveValidatedLedger`, `getValidatedRange` | one writer for a sequence; what is announced is saved |
| Validations | current validation of each validator, sets per ledger | `addValidation`, `getCurrentValidations` | one current, unexpired validation per key |
| Ledger master | closed, validated and published ledgers, ranges, held transactions | `checkAccept`, `setValidLedger`, `doAdvance` | validated sequence only rises; publication in order |
| Ledger acquisition (`InboundLedger(s)`, `PeerSet`) | per ledger: progress, peers, timeouts | `trigger`, timer, `done` | completes or fails once |
| SHAMap synchronization (`SHAMapSync`, `FullBelowCache`) | nodes stored, linked, cached, known to be full | `getMissingNodes`, `addKnownNode`, `fetchRoot` | a map called complete is in the store, all of it |
| Open ledger, local transactions, `TxQ`, `HashRouter` | open view, queues, flags | `accept`, `modify`, `apply`, `setFlags` | nothing is lost or applied twice |
| Online deletion (`SHAMapStoreImp`), rotating node store | two backends, their names in a state database, rows | a pass of the thread, `store`, `fetchFrom`, start | nothing still needed is deleted, at any crash |
| Amendments, fees, dividends | votes and their results at flag ledgers | `doVoting`, `doValidation`, dividend states | votes counted once, results reach the ledger |
| Load (`LoadFeeTrack`, `LoadManager`), `Resource`, `PeerFinder` | fees, balances, slots | raise, lower, charge, connect | bounds hold |
| Transactors, paths, views, SHAMap as a map | ledger contents | apply, search | arithmetic of each transaction |
| Overlay, RPC, server, protocol, JSON, cryptography, Thrift | connections, requests | I/O and encoding | — |

### Interactions

* The heartbeat timer of `NetworkOPs` queues a job that calls `timerEntry` of the
  round under the master lock. Proposals come from a peer's thread, through a job
  that checks the signature, to `processTrustedProposal`, which stores them and
  calls `peerPosition` under the master lock.
* `peerPosition` asks `InboundTransactions` for sets it lacks.
  `TransactionAcquire` collects one from peers; a job calls `giveSet`, which
  stores the set under a lock of its own and then calls `mapComplete`, which takes
  the master lock.
* `checkLCL` asks `Validations` which ledger the network prefers, and
  `LedgerMaster` for that ledger.
* `beginAccept` queues the job `accept`, most of which runs without the master
  lock; the round ends at the first timer after it.
* A validation goes to `Validations` and then to `LedgerMaster::checkAccept`, which
  finds the ledger or has `InboundLedgers` acquire it. When an acquisition is
  done, a job offers the ledger to `checkAccept` and calls `tryAdvance`. The
  advance job publishes validated ledgers in order, saves them through
  `pendSaveValidated`, and asks for those that are missing.
* An acquisition looks in the node store, asks peers on a timer, and takes their
  replies in jobs; its two trees are filled by `SHAMap::getMissingNodes` and
  `addKnownNode`. All trees share the node store, the cache of nodes and the
  full-below cache.
* A validated ledger that is saved is given to `SHAMapStore`, whose thread
  exchanges the backends of the node store under everybody else.
* All jobs run in `JobQueue` on the threads of `Workers`. `Stoppable` stops the
  children of an object before the object: the job queue stops last of those
  that use it.

### What is hard here

Sets published before the round is told of them; peers that change their mind,
bow out or fall silent at any time; a switch of the last closed ledger in the
middle of a round; percentages of few participants and rounded times; a job that
outlives the lock it was started under; semaphore tokens that are not tied to
jobs; a batch applied with its lock released, while clients wait for it; flags
read without the lock that protects what they guard; validations that arrive
while their ledger is being built; a thread that publishes with its lock released
and may miss its wake-up; a save known under a hash in one place and under a
sequence in another; subtrees believed whole because of the order of writes;
a server that dies between the steps of an exchange of databases. `PROJECT.json`
lists each at its line under `hazards`, with the properties that cover it. Hazards
that no property covers are described at the end of the runs in section 3 and in
section 5.

## 2. Modules

| Module | Models | State and actions |
|---|---|---|
| `LedgerTiming` | `LedgerTiming.{h,cpp}`, free functions of `LedgerConsensusImp.cpp` | operators on integers, with C++'s truncating division |
| `DisputedTx` | `DisputedTx.{h,cpp}` | a dispute is a record; `setVote(d, Y, N)` and `unVote(d, P)` do for sets of peers what the code does for one |
| `LedgerConsensus` | `LedgerConsensusImp`, `LedgerProposal`, and what it uses of `ConsensusImp`, `InboundTransactions`, `NetworkOPs` | `lc` is the object; `stored` is `storedProposals_` |
| `MCLedgerConsensus` | — | instances |
| `LedgerConsensusProofs` | — | theorems about `LedgerConsensus`, `DisputedTx` and `LedgerTiming` |
| `JobQueue` | `JobQueue.cpp`, the worker loop of `Workers.cpp`, the part of `Stoppable.cpp` that stops the queue | one variable per member |
| `MCJobQueue` | — | instance |
| `JobQueueProofs` | — | theorems about `JobQueue` |
| `TransactionBatch` | `processTransaction`, `doTransactionSync`, `doTransactionAsync`, `transactionBatch` and `apply` of `NetworkOPs.cpp` | one variable per member, `pc[h]` per thread |
| `OperatingMode` | the operating mode of `NetworkOPs.cpp`, the start and end of rounds, what they use of `Validations` and of the round | `ops` is the object and what it reads under the master lock; `accept` is where the accept job is |
| `MCOperatingMode` | — | a fork of two ledgers |
| `NetworkOPsProofs` | — | theorems about `TransactionBatch` and `OperatingMode` |
| `LedgerChain` | — | abstract specification: ledgers are accepted in rising sequence, and published one after the other along the accepted chains |
| `LedgerMaster` | `LedgerMaster.cpp` (`checkAccept`, `consensusBuilt`, `doAdvance`, `setFullLedger`, `tryFill`), the counts of `Validations.cpp` | one variable per member; `call`, `build`, `adv` and `fill` say where each thread is |
| `MCLedgerMaster` | — | a chain of four ledgers and a fork |
| `LedgerMasterProofs` | — | theorems about `LedgerMaster` and its refinement of `LedgerChain` |
| `LedgerSave` | saving in `Ledger.cpp`, `PendingSaves.h`, `SF_SAVED` of the hash router, `getValidatedRange` | `map_`, `flagged`, the tables; `thread[t]` per caller and worker |
| `MCLedgerSave` | — | three ledgers, two of them of one sequence |
| `LedgerSaveProofs` | — | theorems about `LedgerSave` |
| `OnlineDelete` | `SHAMapStoreImp.cpp`, `DatabaseRotatingImp` | directories and their contents, the state database, the rows; `run` is the thread, `fetch` a reader |
| `MCOnlineDelete` | — | six ledgers over two nodes |
| `OnlineDeleteProofs` | — | theorems about `OnlineDelete` |
| `SHAMapSync` | `SHAMapSync.cpp`, parts of `SHAMap.cpp`, `FullBelowCache.h` | the store, the caches, what is linked into each map; `walk[t]` is thread `t`'s call of `getMissingNodes` |
| `MCSHAMapSync` | — | a tree with an inner node that two threads walk |
| `SHAMapSyncProofs` | — | theorems about `SHAMapSync` |
| `LedgerAcquire` | `InboundLedger.cpp`, `InboundLedgers.cpp`, `PeerSet.cpp` | `acq[x]` is an object, `mLedgers` the list, `worker[w]` a job |
| `MCLedgerAcquire` | — | four hashes, two objects |
| `LedgerAcquireProofs` | — | theorems about `LedgerAcquire` |

`LedgerConsensus` extends `DisputedTx`, which extends `LedgerTiming`.
`LedgerMaster` instantiates `LedgerChain` with its valid and its published ledger.
The modules of the ledger's life divide it at the interfaces of the code:
`LedgerAcquire` says when a ledger is complete and reported, `SHAMapSync` what
complete means in the node store, `LedgerMaster` what becomes of a reported
ledger, `LedgerSave` when its rows are written, `OnlineDelete` when they and its
nodes go. Each takes from the others what it needs as an input: in
`LedgerMaster` an acquisition completes or fails and a save is immediate (what a
delayed or failing one does is `LedgerSave`'s), in `LedgerAcquire` a part of a
ledger is present or not, in `OnlineDelete` a ledger is acquired in one step.

Every module states the types of its variables as `TypeOK` (`ModeTypeOK` in
`OperatingMode`, whose names differ from those of `TransactionBatch` because one
module of proofs extends both), which is part of what is proved. It is not kept
among the properties of the runs.

### LedgerConsensus

The handlers of `LedgerConsensusImp` are operators from the object's state to its
next state and call each other as in the code; an action is one whole handler.

| Action | Code |
|---|---|
| `TimerOpen` | `timerEntry` → `checkLCL` → `statePreClose` → `closeLedger` (`checkOurValidation`, `takeInitialPosition`) |
| `TimerEstablish` | `timerEntry` → `checkLCL` → `stateEstablish` (`updateOurPositions`, `haveConsensus`, `beginAccept`) |
| `TimerAccepted` | `timerEntry` → `stateAccepted` → `endConsensus` |
| `ReceiveProposal` | `processTrustedProposal`: `storeProposal`, `peerPosition` |
| `GiveSet`, `MapComplete` | the two halves of the delivery of a set, on both sides of the master lock |
| `AcceptBuild`, `AcceptRetry`, `AcceptFinish` | `accept`, which runs beside the handlers: the ledger and its validation; the loop over the disputes, without a lock, that picks what is tried again; the new open ledger and the state `accepted` |

Abstractions. A transaction set is the set of its transactions and is its own
hash. A ledger is a model value with the four header fields consensus reads.
Inputs of a timer are chosen freely: the clock's reading (from `Instant`, never
going back within a phase), the ledger the validations prefer, whether
`LedgerMaster` has it, the open ledger's transactions and the time of day, which
peer positions are too old, how many validators finished. A set asked for arrives
at any time or never. A peer sends any position, in any order, repeated or not,
for any ledger. Messages that are lost are messages never received. Counts of
validations take the two values none and enough.

Three properties say of a comment in the code how far it goes, each with one
exception that the code really has. `DisputesCoverDifferences`: a compared set
differs from ours only in disputed transactions, until a switch of ledgers, when
`handleLCL` clears the disputes and keeps `mCompares`. `VotesReflectPositions`: no
step makes a peer's votes differ from its set, but for a proposal that takes a set
which `giveSet` published and `mapComplete` has not come to (`Overtaken`);
`mapComplete` then returns early. `DisputedTriedAgain`: what the consensus set left
out is tried again, unless we bowed out, after which our votes change and our set
does not.

### JobQueue

`pc[w]` places a worker in `Worker::run` and `processTask`: `idle` (waiting on
the semaphore), `woken` (holding a token), `got` (has a job), `doing` (in the
job's function), `finish`. `AddJobCheck` and `AddJobInsert` are the two sides of
the lock in `addJob`; jobs may add jobs. `StopAsync`, `ChildrenStopped`,
`onChildrenStopped` and `StopDone` are the steps of the stopping thread. The pool
has its final size: `Application` sets it once, before the first job.

### TransactionBatch

What a thread does while it holds `mMutex` is one step; `apply` releases it, so a
batch takes three: `applyBegin` takes the queue, `applyProcess` works under the
master lock, and `SyncApplied` or `BatchApplied` is everything from the second
lock to the next release: the flags are cleared, the waiting threads woken, and
the caller's loop goes on. `pc[h]` is `checked` (past the test for bad
transactions, without a lock), `waiting` on `mCond`, `woken`, `applying` or
`applied`. A wait may end without a notification. The queue is a set of
`TransactionStatus`: `ApplyingOnce` shows that an entry is never there twice, and
the order of a batch decides nothing that is modelled. The result of each
transaction is free; its effects (bad, held, local, relayed) are those of the
branches of `apply`. Copies from peers do not ask to fail hard. A batch job is
dropped by `addJob`, or skipped by the worker, once the server stops; one that
passed that check before still runs.

### OperatingMode

A handler under the master lock (`processHeartbeatTimer`, `processTrustedProposal`
and with it `mapComplete`) is one step, written as operators from the state to the
next state that call each other as in the code. `checkLastClosedLedger` counts
validations and peers, compares by the order of `ValidationCount` and may jump to
another ledger; `checkLCL` and `handleLCL` are the round's own view, without its
positions. The accept job runs beside the handlers, as in the code:
`AcceptBuild`, the two steps of enabling an unknown amendment
(`AmendmentFlag`, `setAmendmentBlocked`), `AcceptOpen`, `AcceptSwitch`,
`AcceptDone` (past the asserts). Inputs are free: ages of ledgers, whether a ledger
is compatible with the validated ones, whether the last round had enough
proposers, whether the timer closes or agrees, which of equals an unordered map
gives first. A ledger is a model value with a parent. One accept job runs at a
time: the time between rounds is seconds, and a second job would need the next
round to reach consensus first. A round accepts only if the instance has a ledger
to build; until then it stays in establish.

### LedgerMaster

A step is what a thread does between two points where it takes or gives up
`m_mutex` or reads an atomic. `checkAccept` of a hash is three steps
(`CountValidations`, `FindValidated`, `AcceptValidated`); `setBuildingLedger`,
`storeLedger`, `consensusBuilt`, `checkBuilt`, `scanValidations`, `switchLCL` are
the consensus thread's `accept`; `doAdvanceHead`, `findNewLedgersToPublish`,
`publishFull`, `setPubLedger`, `fetchHistory` and `doAdvanceEnd` are the advance
job, on both sides of its unlocks; `fillRead` and `fillEnd` are `tryFill`;
`acquired` and `LADispatch` the end of an acquisition, `logFailure` one that fails;
it stays in the list of `InboundLedgers` for a while, so that asking again has an
effect or not. A ledger's skip lists reach `Skip` ledgers back (256 in the code) and
to the multiples of `Skip` before (`knows`); for other sequences `walkHashBySeq`
looks into, or asks for, the ledger at the next multiple, and when there is no hash
`fetchHistory` takes the ledger above out of the complete ones and starts again.
Missing nodes of a ledger that is here, for which the code throws, are left out.
`accepted` is a history variable: the ledgers that were valid. A validator signs ledgers of rising
sequence; a validation may arrive late and out of order. An earlier run may have
left any table in which a row is a ledger of its own sequence (`PriorIndex`).

`CompleteIsChain` is stated while no fork was accepted (`OneChain`): with one, two
paths mark ledgers of the abandoned chain as complete (see the end of section 3).
`MajorityIsAccepted` is about counts above the highest quorum the validators can
raise `mMinValidations` to (`highestQuorum`), and not about a ledger whose
acquisition failed: nobody offers that one until it is asked for again. It is proved for every set of
validators of which the configured quorum is at least half, rounded down
(`HalfQuorum`), as in the instance, 1 of three. It does not hold for every quorum.
With six validators, a quorum of 1 and `mStrictValCount`, TLC finds this: the first ledger is valid with
one validation; while a round builds the second sequence, four validators sign
another ledger of that sequence, `a2` (left alone, as it is being built), and two
sign its child `a3`; `consensusBuilt` picks `a3`, the highest ledger above the
needed number; late validations of the first ledger raise that number to three
(`getNeededValidations`), `a3` is refused, and nobody looks at `a2` again until its
sequence or a later one is validated by someone else.

`LedgerChain` is what clients of the stream rely on: a ledger is accepted only
above the last, the next one published is the child of the last along the chain
of the valid ledger, and only when the gap is too large does the stream jump, to
the valid ledger. `ImplementsLedgerChain` states that `LedgerMaster` implements it
under the mapping `valid <- mValidLedger`, `published <- mPubLedger`.

### LedgerSave

`pendSaveValidated` sets the flag; `doublePend` is the path of a caller that finds
it set; `shouldWork` and `startWork` are `PendingSaves`, `deleteLedger`,
`saveTransactions`, `addLedger` and `failedSave` are `saveValidatedLedger`,
`finishWork` ends it; `markComplete` is what `setFullLedger` and the publisher do
after the call. `expireFlag` is the router forgetting a hash. A request is what
the code's callers ask for: published and synchronous, history and asynchronous,
or the ledger cleaner. `readRange` and `getValidatedRange` are the two reads of a
client.

A save fails in two ways. `failedSave` is the one the code handles. `saveThrows` is
an exception out of the `DELETE`, which stands outside the `try` of
`saveValidatedLedger`: `finishWork` is not called, the exception is swallowed in
`advanceThread`, and the entry stays as one that is worked on (`thrown`). Nobody saves
that sequence any more, and a synchronous caller that comes later waits for ever;
`OneSaver` and `CallsReturn` name this exception. In a job, or in another caller's
thread, nobody catches the exception and the process ends, which is left out.
`NoSaveLost` is about ledgers, not sequences: one that was handed over (`handed`) is in
the table, or pending, or failed, or a fork of its sequence that was handed over too
took its place, because entries are kept by sequence. `failed` is a sequence's last
save: another save of it that succeeds ends the exemption of `RangeIsReadable`.

### OnlineDelete

The thread's pass has one action per step, with `checkHealth` between them as in
the code. `dbPaths` and `makeDatabase` are the start of the server; `crash` may
happen anywhere and leaves `disk`, `dirs`, `state`, `savedDelete` and `rows`.
Ledgers are built (new nodes are stored) or acquired (nodes that are not known to
be in the store are fetched or stored), each in one step: a walk that is under way
while a pass clears the caches is not modelled. `DeletesWhatItMay` compares with the
highest advice the administrator has given, since rows deleted under it stay deleted
when the advice is lowered. A node copied from the archive to the
writable backend is one step. `fetchFirst` and `fetchSecond` are the two look-ups
of a reader, between which the backends may be exchanged.

### SHAMapSync

A node is its hash; `Kids` and `Below` give the trees. Any number of threads walk a
map, as the code allows. A walk visits children in any order (the code begins at a
random branch), takes them from memory, from the fetch pack (whence they go: what is
taken is deleted there) or from the node store's own cache, learns at once that the
store does not have them (its negative cache), or defers the read; it goes round again
after the deferred reads, which may be done early (`maxDefer`), and ends when nothing
was deferred or enough is missing. A peer may send any node whose parent is linked,
asked for or not. Objects in memory live in the cache or in a map; their full-below
marks go with them. Fetch packs, late replies and our own ledgers put nodes in the
store beside the walks.

The code marks an inner node that it finds in the database as full, on the ground
that inner nodes are stored after what is below them. Two things break that order:
`checkFilter` stores an inner node that a fetch pack brought at once, and a walk
without a filter (`getJson`) marks nodes that it does not store. `excused` records, when
either happens, the nodes that are not in the store although something above them
is stored or marked; it never shrinks. `FullBelowIsAccounted` and `StoreIsWhole` say
that the marks, the inner nodes in the store and the maps called complete are
wrong about those nodes only. The strict `FullBelowIsResident`, what the
comment of `FullBelowCache` promises, is the subject of the run `full_below`. A root is
stored before all that is below it; walks start there, so roots are exempt.

### LedgerAcquire

A ledger has three parts (header, state, transactions), each present or not. What
an object does under its lock is a function from the object to its next value
(`tryLocal`, `trigger`, `checkLocal`, ...); `trigger` from a reply is cut where the
code releases the lock (`triggerReply`, `getMissing`, `relock`, `doneReads`,
`doneSets`). Requests to peers leave no trace: a reply may come at any time, for
any part, twice or never. An object lives while the list or a job holds it.

A hash may be that of something else than a ledger (`NotLedger`), a header may have a
zero account hash (`NoState`), and a tree may have a node out of its bounds
(`Misplaced`). `tryLocal` then fails (the first two); inside `init` and `trigger` nobody
is told of it, which `NoOutcomeLost` exempts by name (`Silent`). A misplaced node makes
a tree invalid, which is "not synching" as well, so the replies take it for
whole; `CompleteIsWhole` leaves such a tree out (`storable`). A ledger that `acquire`
finds at once is returned to its caller (`returned`), and offered to the ledger master
only for the reasons `fcVALIDATION`, `fcCURRENT` and `fcCONSENSUS` (`tells`). After
more than `Aggressive` timeouts, `trigger` asks for the needed nodes by hash and
calls the ledger complete if there are none (`nothingNeeded`).

## 3. Runs

| Run | Instance | Shows |
|---|---|---|
| `job_queue` | 2 workers, 1 client, 4 jobs, a type limited to 1 that is skipped on stop and an unlimited one of lower priority | a woken worker finds a job; a stopped queue is quiet; every job leaves the queue; a stop completes |
| `consensus_votes` | 2 peers, 2 transactions, 1 ledger, 3 proposals, sequence numbers 0, 1 and bow-out | votes, counters and our position agree; each vote is what the peer's set says, unless a proposal overtook the delivery of the set |
| `consensus_close_time` | 3 peers, no transactions, close times around a rounding boundary (parent closed at 44, resolution 30) and zero | close times increase; a round ends by agreement only with the required majorities; our proposals rise in sequence |
| `consensus_switch` | 1 peer, 1 transaction, 2 ledgers, 2 proposals, a validation owed from an earlier round | a node proposes only on the network's ledger; differences are disputed until a switch; disputed transactions are tried again, unless we bowed out; the round ends |
| `transaction_batch` | 2 clients, 2 batch threads, 2 transactions, 3 submissions, results `terRETRY` and `temMALFORMED`, a stop at any moment | each transaction is in flight once, nothing is stranded; a call returns, and only with a result; what is queued is applied |
| `operating_mode` | 2 ledgers that fork from the genesis ledger, 1 peer, 2 validators and ourselves on any of them, 1 change of the network after the start | a blocked server is never FULL; FULL means that the round is on the network's ledger; the preferred ledger is unique; a round begins on consistent ledgers |
| `ledger_master` | 4 ledgers and a fork of the second, 3 validators, a quorum that rises, a round that builds the second ledger, a gap limit of 2, skip lists of 2, acquisitions that fail, a table left by an earlier run | no validation and no wake-up is overlooked; what is complete is one chain, unless a fork was accepted; the stream implements `LedgerChain` and catches up, unless the next ledger cannot be acquired |
| `ledger_save` | 2 callers, 1 worker, 3 calls, a failing ledger | one writer for a sequence; a ledger handed over is saved, or its fork is; what is announced has rows with transactions; calls return, unless they wait for a save that threw |
| `online_delete` | 6 ledgers, 4 directories, an interval of 2, 1 crash, advisory deletion, a stop | the last validated ledger survives every crash; the server starts again; only what may be deleted is; readers find what is there; the thread stops |
| `shamap_sync` | a tree of a root, an inner node and 2 leaves, 2 threads, walks with and without a filter, fetch packs of the root and the inner node, own writes, any number of crashes and sweeps | what is believed full is stored, and what is complete is whole, but for two recorded causes |
| `ledger_acquire` | 4 hashes (one acquired for two reasons, one with a misplaced node, one that is no ledger, one with a zero account hash), 2 objects, 2 jobs, 2 replies, 1 retry | complete is whole; nothing stashed is forgotten; each outcome is reported, once found, but for local failures; outcomes are final |

One run shows where the code departs from its own description: `full_below`
checks `FullBelowIsResident` with a fetch pack that brings an inner node, as
`getFetchPack` and `gotStaleData` do. `checkFilter` stores it before its children; when
its object is gone (a crash, a sweep) `getMissingNodes` finds it in the database, takes
it as full and enters it in the cache that "Remembers which tree keys have all
descendants resident", and the nodes below are not asked for. `shamap_sync` shows, for
the same packs, that the cache is wrong for this cause and for walks without a
filter, and for no other.

Also seen while modelling. Where a property names the case as its exception, it is
given:

* Consensus. `handleLCL` clears the disputes and keeps `mCompares`, so after a
  switch sets compared before are not compared again
  (`DisputesCoverDifferences`). A proposal may take a set that `giveSet`
  published, and `mapComplete`, coming later, returns early without counting the
  peers that proposed it first (`VotesReflectPositions`). After a bow-out our votes
  change and our set does not, and `accept` goes by the votes
  (`DisputedTriedAgain`). A dispute that `mapComplete` adds while `accept` is past its
  loop is not tried again.
  Going back to a ledger already asked for leaves `mHaveCorrectLCL` true.
  `accept` sets its state to accepted outside the master lock, before its
  asserts: a heartbeat may end the round, and the next handler jump to another
  ledger. `checkOurValidation` builds a validation that it does not send.
* Network operations. A client's submission behind a peer's copy is not tracked
  as local; `tryStartConsensus` takes a server that still needs a ledger from the
  network to `omFULL`; `processClusterTimer` may return without setting its timer.
* Ledger master. `checkAccept` accepts a count equal to the number needed, the
  scan after a round asks for more (`LedgerMaster.cpp:994`). When ledgers of two
  chains are accepted one after the other, the complete sequences may describe
  the abandoned one: `doAdvance` chooses the missing sequence, releases its lock,
  and then takes the hash from the ledger that is valid by then; and a `tryFill`
  job queued for the old chain adds its rows back after `setFullLedger` has
  replaced them. Both were found when `CompleteIsChain`, first stated without
  `OneChain`, was to be proved.
* Saving. `SF_SAVED` is set before `map_` has an entry, so that a second
  synchronous caller takes the ledger for saved; the properties of `LedgerSave`
  allow for that thread (`aboutToSave`). A save that failed takes its sequence out
  of the complete ones and `setFullLedger` puts it back. Pending saves are keyed
  by sequence and the flag by hash: a fork's save is dropped while another is
  pending (`NoSaveLost`). An exception out of the `DELETE` leaves its entry for ever
  (`CallsReturn`).
* Online deletion. `clearPrior` returns before it clears the tables of
  transactions; a pass given up after `makeBackendRotating` leaves its directory
  until the next start.
* Maps and acquisition. `getJson` calls `getMissingNodes` without a filter, which
  marks nodes full that were not stored (`excused`); online deletion clears the
  full-below cache while a walk goes on. The unlocked `done` at the end of `trigger` may
  run twice; `mFailed` set by `tryLocal` inside `init` and `trigger` is not reported
  (`NoOutcomeLost`); a tree with a misplaced node is taken for whole
  (`CompleteIsWhole`); only the first acquisition of the list is retried, and one
  that is done stays in front until it is swept. A failed acquisition of the next
  ledger stops the stream until another ledger is accepted or acquired
  (`CatchesUp`).

### Bounds, and why they are enough

* `Instant`: readings just after the minimum of 2 s (2100), after the propose
  interval and past 200% of the last round (12000), and after every interval
  (70000). The last round took 5 s, so the readings fall in different phases of
  the avalanche.
* `MaxProposeSeq` = 1 gives a first position, a change of mind and a bow-out.
  Our own position stops changing when its number would exceed the bound by more
  than one (guard in `TimerEstablish`; a round may still finish).
* `MaxProposals` = 3 lets one peer propose, change and leave, or two disagree
  while one changes.
* `ProposalsKept` is 10 in the code and 1 or 2 here; what it keeps matters only to the
  playback after a switch.
* Disputes interact only through our set, for which `consensus_votes` has two
  transactions; the switch has one. Its exceptions need a second peer
  (`consensus_votes`) or a second ledger (`consensus_switch`), not both: the theorems
  hold for any number of each. Three peers are needed for the close time thresholds to
  differ.
* Four jobs with two workers: one running, one deferred and one of the other type
  at the same time, and a job that adds another during a stop.
* `MaxSubmits` = 3 with two transactions: one being applied, one queued
  meanwhile, and a second submission of either. Two results are enough for the
  branches that later steps read: `bad` stops a submission, the others only
  record.
* `MaxEvents` = 1: peers and validators start anywhere the network can
  have put them before our first heartbeat, so one change afterwards is a change in
  the middle of a round, of an accept job or of a jump. Two validators, a peer
  and ourselves reach every tie of `ValidationCount`.

* `LedgerMaster`: three validators on the fork are the fewest that exceed a quorum
  which rises with them while our round builds the other ledger of that sequence;
  the chain of four is one longer than the gap limit, so that the stream falls
  behind, fetches, and jumps. Skip lists of 2 make the first sequence one whose hash
  must be looked for in another ledger, found or not. The server does not validate
  itself.
* `LedgerSave`: three calls let two callers and the job meet on one sequence. One
  of the two ledgers of the sequence may fail.
* `OnlineDelete`: with an interval of 2, six ledgers give two rotations and the
  beginning of a third; node `y` leaves the ledgers and comes back, so that a stale
  full-below cache matters. Four directories are two in use, a new one and the
  one a crash left.
* `SHAMapSync`: an inner node below the root is the smallest that can be stored before
  its children, and two leaves let one be there and the other not. Two threads on the
  tree, own writes and what the cache keeps from earlier walks stand for other trees
  that share nodes; the theorems are for any number of maps. Nothing else is bounded.
* `LedgerAcquire`: `RetriesMax` is 10 in the code and 1 here, `Aggressive` 6 and 0; two
  objects are two ledgers at once or one ledger acquired, swept and acquired again.

Peers, transactions and workers are interchangeable, and the runs of safety
properties use that symmetry; the runs that check liveness do not, nor does
`operating_mode`, where node IDs are compared.

### Fairness

* Job queue: every thread that can take a step takes it, and a job's function
  returns. Nobody is obliged to add a job or to stop the server. Weak fairness
  per thread is what an operating system's scheduler gives; no strong fairness on
  the semaphore is assumed.
* Consensus: the heartbeat timer is set again after every tick, the accept job is
  run. `RoundEnds` also assumes that some tick comes after all bounds of time have
  passed and finds every peer's position stale: in the model peers send finitely
  many proposals, and positions expire 20 s after they were received
  (`PROPOSE_FRESHNESS`). Such ticks come again and again, but none of them is
  assumed to change anything (`LateTickMayStutter`), so a round that hung would be
  a counterexample. The property says that a round cannot hang because of what peers
  have said, not that peers who keep disagreeing will agree.

* Transaction batches: a thread inside a call goes on, except that one waiting on
  `mCond` is only sure to go on once it was notified; batch jobs run; a peer's
  transaction past its check is queued. Nobody is obliged to submit or to stop.

* Ledger master: every job and thread goes on, and an acquisition completes or fails
  (it gives up after its retries); nobody is obliged to send a validation or to
  acquire a ledger that failed. `CatchesUp` exempts a stream whose next ledger failed
  to be acquired.
* Saving: every thread inside a call goes on, and jobs run; a thread waiting on
  `await_` goes on only when it was notified.
* Online deletion: the thread takes its steps. Ledgers need not come, so
  `StopsWhenTold` does not rest on a ledger that wakes the thread up.

`SHAMapSync` and `LedgerAcquire` state safety only. What makes progress there is
that peers answer, which the code cannot assume; what it can promise is that
somebody is left to ask again (`NothingForgotten`).

The runs of the round, the job queue, the batches, the ledger master, saving,
online deletion and acquisition disable TLC's deadlock check
because a round ends, a server stops, and submissions, ledgers and replies are
finite. The runs of `OperatingMode` and `SHAMapSync` keep it. `OperatingMode` states
no liveness, since its tree of ledgers ends.

## 4. Theorems

`JobQueueProofs` proves, for any finite pool of workers, any clients, any types,
limits of at least one and any number of jobs (`JobQueueAssumption`):

| Theorem | Statement |
|---|---|
| `Invariance` | `Spec => []IInv` |
| `TypeCorrect` | `TypeOK` always: no counter falls below zero |
| `LimitsHold` | `LimitRespected`: counters count, limits hold, deferrals exist only at the limit |
| `TokensHold` | `TokensMatchJobs`: tokens and woken workers are as many as jobs not deferred |
| `WokenNeverStarves` | `WokenFindsJob`: the assert in `getNextJob` holds |
| `StopIsFinal` | `StoppedIsQuiet` |

The argument. `IInv` joins the type invariant with `Structure` (the process
count is the number of busy workers, a worker has a job exactly while it is in
`processTask`, only a running job adds jobs), `StopOrder` (flags are set in
order, and after the event there is nothing left), `LimitRespected` and
`TokensMatchJobs`. `WokenFindsJob` alone is not inductive: a woken worker may
find that another took the job it was woken for. `TokensMatchJobs` says that some
choice `D` of the waiting jobs, as many of each type as are deferred, leaves as
many jobs as there are tokens and woken workers. So if a worker is woken, some
job is outside `D`; then its type has more waiting than deferred jobs, and by
`LimitRespected` it runs below its limit. Each action that moves a job
(`AddJobInsert`, `getNextJob`, `finishJob`) has a lemma that exhibits the new
`D`; the rest leave the accounting alone (`KeepsAccounting`). `StopIsFinal`
follows from `StopOrder`: no worker is busy, so none adds, and the clients have
stopped.

`NetworkOPsProofs` proves of `TransactionBatch`, for any clients, batch threads, transactions,
results and number of submissions (`TransactionBatchAssumption`: no thread is both
a client and a batch thread):

| Theorem | Statement |
|---|---|
| `BatchInvariance` | `Spec => []IInv` |
| `OneBatchHolds` | `OneBatch`: the asserts of `apply` hold |
| `ApplyingOnceHolds` | `ApplyingOnce`: the mark is exact, and an entry is queued or in the batch, once |
| `NothingStrandedHolds` | `NothingStranded` |
| `SyncReturnsWithResult` | `ReturnsWithResult`, an action property |

The argument. `OneBatch`, `ApplyingOnce` and `NothingStranded` need three facts
about places the code never names together. `BatchOwners`: a thread that is not
applying has no batch, so the entries in flight are the queue and one batch.
`ScheduledHasWork`: while a job is scheduled the queue is not empty, so a
transaction that finds one scheduled, and schedules none, knows by `NothingStranded`
that it is still there. `CallsOpen`: a waiting client's
transaction is still marked or was completed since its call; a client that leaves the
loop finds it unmarked, which gives `ReturnsWithResult`. That a client never
applies an empty queue follows from `ApplyingOnce`: its transaction is marked, no
batch is running, so it is queued. The central step is the end
of a batch (`ApplyEndFacts`): only the thread that ends it is running, its entries
are not in the queue, and clearing their marks leaves exactly the marks of what
was queued meanwhile.

Of `OperatingMode` it proves, for any tree of ledgers, any finite sets of peers and
validators, any quorum and any changes of the network (`OperatingModeAssumption`):

| Theorem | Statement |
|---|---|
| `ModeInvariance` | `ModeSpec => []ModeInv` |
| `ModeTypes` | `ModeTypeOK` |
| `FullStaysJustified` | `FullIsJustified` |
| `PreferenceStaysUnique` | `PreferenceIsUnique` |
| `RoundBeginsOnClosed` | `BeginsOnClosedLedger`, an action property |

The argument. A handler is a chain of operators, so each has a lemma that says what
it may change: `Handled` (the mode is not raised to `omFULL` while blocked, a round
in `omFULL` stays in sync), `Checked` (what `checkLastClosedLedger` returns: after a
jump the server is below `omTRACKING`) and `Begins` (the round starts on consistent
ledgers).
`FullIsJustified` is not inductive: `setAmendmentBlocked` runs in the accept job, and
that a round which becomes correct again belongs to the ledger it takes for the
network's needs `InSync`. `BeginsOnClosedLedger` needs `AcceptInRound`, the job is
under way exactly while its round is finished, and `OpenOnClosed`, which says what
the open ledger is between the two switches of the job. `PreferenceIsUnique` rests on
the order of `ValidationCount` being total on ledgers with a count, and on every
finite set of them having a greatest element, again without induction over data.

`LedgerConsensusProofs` proves, for any finite set of peers, any transactions and
ledgers, any clock readings, any parameters of the last round and any bounds
(`LedgerConsensusAssumption`: close times of clocks are not zero, resolutions are
those of `LedgerTiming`):

| Theorem | Statement |
|---|---|
| `ConsensusInvariance` | `Spec => []IInv` |
| `ConsensusTypes` | `TypeOK`: at most `ProposalsKept` proposals of a peer are stored |
| `VotesStayConsistent` | `VotesAreConsistent` |
| `ProposesInSync` | `ProposingInSync` |
| `ClosesAfterParent` | `CloseTimesIncrease` |
| `BroadcastsAdvance` | `ProposalsAdvance`, an action property |
| `AgreementIsRequired` | `FinishesByAgreement`, an action property |
| `ComparedIsDisputed` | `DisputesCoverDifferences`, an action property |
| `LeftOutIsTriedAgain` | `DisputedTriedAgain`, an action property |
| `OnlyOvertakingMiscounts` | `VotesReflectPositions`, an action property |

The argument. The object is `Sound`: `VotesSound` (counters are votes, votes belong
to peers with a position, our votes are our set until we bow out),
`ProposingSound` and `StageSound` (which position each phase has, room for the next
number in establish, a built ledger later than its parent). Each operator of the
module has a lemma that says what it keeps (`SameCourse`, `SamePeers`,
`SameDisputes`) and that it leaves the object sound, so that an action's proof
follows the calls of the handler. The counters rest on cardinalities
(`SetVoteSound`, `UnVoteSound`); the close times on the choice of the most popular
one, whose existence is shown with a smallest counterexample, since induction is
out of reach (`FiniteHasGreatest`, `MostVotes`); `FinishesByAgreement` on
`TimeIsHeld`, which `closeTimeVote` establishes and the rest of the tick keeps.
Votes alone would not be inductive: that our votes follow our set needs that a
position exists from the close on, and `ProposalsAdvance` needs that what we
broadcast last is our position.

`DisputesCoverDifferences` and `DisputedTriedAgain` need a second invariant,
`CompareInv`: nothing is compared before the ledger closes, and a finished round keeps
its set. Every operator `KeepsCover`: a set that becomes compared is covered, and one
that is covered stays so, because comparisons bring their disputes with them
(`AddsCompares`) and `updateOurPositions` moves our set by disputed transactions only.
The step that is left over is the switch in `handleLCL`, which the property exempts.
That the disputes left out are tried again then follows from our votes being our set
until we bow out.

`VotesReflectPositions` is inductive as it stands, given `IInv`: every operator keeps
`Shows` for each peer (`CreateDisputesShows`, `AdjustCountShows`, `RemovePeersShows`,
`MapCompleteReflects`), with any number of peers, and a switch of ledgers makes it
trivial because no dispute is left. The one step for which the proof needs the
exemption is a proposal for a set that `giveSet` published and `mapComplete` has not
counted yet, while another peer holds that set (`Overtaken`).

`LedgerMasterProofs` proves, for every tree of ledgers, any finite set of
validators, any quorum, gap limit, length of skip lists and history (`LedgerAssumption`: a parent has
the previous sequence; `ParameterAssumption`: a pass may start at least one
acquisition, a row of a prior table is a ledger of its sequence):

| Theorem | Statement |
|---|---|
| `MasterInvariance` | `Spec => []IInv` |
| `StreamImplementsChain` | `ImplementsLedgerChain`: every step is a step of `LedgerChain` or leaves it alone |
| `CompleteStaysChain` | `CompleteIsChain` |
| `AdvanceNeverLost` | `NoLostAdvance`, the second half of `NothingOverlooked` |
| `MajorityNeverOverlooked` | `NothingOverlooked`, if the configured quorum is at least half of the validators, rounded down (`HalfQuorum`) |

The argument. The steps of the advance thread are sound only because of what it
planned before it released the lock: `PlanIsSound` says that the ledgers it is
about to publish follow the published one along the chain of an accepted ledger,
whatever was accepted meanwhile; with `StreamBegun` each of its steps is
`PublishNext`, `Jump` or a stutter. `WakeIsSeen` says that an advance that found
nothing to do either sees `mAdvanceWork`, or has the next ledger on its way, or its
acquisition failed.
`CompleteIsChain` needs `HistoryIsOnChain` (the ledger fetched last and the one
being filled are on the chain, and the rows read are still in the table) and facts
about `hashOfSeq` on trees, again by smallest counterexample.

`MajorityIsAccepted` speaks of states in which every handler has run, so the
invariant (`MajorityInv`) says where the work is before: a ledger with a majority
that is not valid yet is being acquired or offered, or failed to be acquired, or a
thread's `checkAccept` is at it, or the round that builds at its sequence or above has not scanned the
validations yet (`MajorityIsPending`). The hard steps are the one where `checkAccept`
skips the sequence being built and leaves the ledger to `consensusBuilt`, which holds
because `mBuildingLedgerSeq` is set only while the scan is ahead (`BuildingIsBuilt`),
and the scan itself, which looks at one ledger, the highest. There `HalfQuorum` is
needed: two ledgers cannot both have more current validations than half of the
validators (`OneMajority`), so the one it looks at is the right one. With a smaller
quorum the counterexample of section 2 is what the proof fails on.

`LedgerSaveProofs`, for any ledgers, callers, workers and requests
(`SaveAssumption`: a thread is a caller or a worker): `SaveInvariance`,
`OneSaverHolds`, `NoSaveLostHolds`, `RangeIsReadableHolds`. `SaverIsUnique` ties the
entry of `PendingSaves` to the thread that works on it, `SaverProgress` says which
rows it has written, and `NothingHidden` that everybody who was told of a save
(the flag, jobs, threads, the complete sequences, a range half read) has one to
point at; the last makes the other two inductive. An exception breaks the tie between
entry and thread for its sequence only, which `thrown` records. `NoSaveLostHolds` needs
besides that a row in the table, and the ledger a thread works on, were handed over
(`RowsAreHanded`).

`OnlineDeleteProofs`, for any ledgers, intervals and number of crashes, given three
names of directories, so that a pass finds a free one (`OnlineDeleteAssumption`):
`DeleteInvariance`, `LastValidatedIsKept`, `StartNeverFailsHolds`,
`DeletesOnlyWhatItMay`, `FetchAlwaysFinds`. `BackendsKnown` follows the directories
through a pass and a crash; `PassCopies` says at each step of a pass where the
nodes of the validated ledger are: in the writable backend, in the ledger being
copied, in what is left to copy; `FetchIsSound` where a reader between its two
look-ups will find its node.

`SHAMapSyncProofs`, for any forest (`TreeAssumption`), any maps that share nodes, any
threads on each map, any nodes in fetch packs and walks with and without a filter:
`SyncInvariance`, `FullBelowHolds` (`FullBelowIsAccounted`), `StoreStaysWhole`
(`StoreIsWhole`). `WalkIsSound` says that what a walk has passed is accounted for,
stored or excused, or has a reason noted not to be; `MemoryIsStored` that what is linked
and a leaf, or marked, is accounted for. `excused` grows in two places only, which the
definitions show: `checkFilter`, by what is missing below an inner node that it stores,
and `leaveNode` without a filter, by the node it marks and does not store. The theorems
so say that there is no third way in which a node below a trusted one can be missing.

`LedgerAcquireProofs`, for any ledgers, number of acquisitions, workers and replies
(`AcquireAssumption`): `AcquireInvariance`, `CompleteIsWholeHolds`,
`NothingForgottenHolds`, `NoOutcomeLostHolds`, `OutcomeIsFinalHolds`. Every
operation under the lock `Advances` an object (parts grow, outcomes stay); a job
that gave up the lock in `trigger` keeps only what stays true (`JobsSound`);
`mReceiveDispatched` means that a job is queued or takes replies (`RepliesSeen`);
an outcome that is not signalled has a thread on its way, was returned to the caller,
or is the failure of a local look (`OutcomesSeen`, `Silent`).

Each inductive invariant was checked by TLC on the instance of its run before it
was proved. The theorems that no run repeats (types, `LimitsHold`, `TokensHold`,
`OneBatchHolds`, `AdvanceNeverLost`) hold for every instance.

Only model-checked:

* `EveryJobLeaves`, `StopCompletes`, `RoundEnds`, `EverySubmissionEnds`,
  `CatchesUp`, `CallsReturn` and `StopsWhenTold`: liveness under fairness is beyond
  the prover.

Every other property of the passing runs is stated by a theorem, one of them under a
hypothesis that the instance of its run satisfies: `HalfQuorum`. Section 2 shows what
happens without it. Where the code has exceptions to a property, they are part of its
statement, and the theorem says that there is no other.

## 5. What is not modelled

* A missing SHAMap node, which throws out of a handler; sets and ledgers are
  complete once available.
* The torn read of `mDisputes` by `accept` while a handler changes it: the model
  interleaves whole handlers with the three steps of `accept`.
* What a peer's proposals that `storeProposal` dropped would have said after a switch.
* Pseudo-transactions, retry passes of `applyTransactions` and transactions that
  fail; the clock offset computed from `mCloseTimes`; `simulate`; replay of
  ledgers; the variant compiled with `USE_ZOOKEEPER`.
* Resizing the worker pool.
* An exception out of `apply`; the expiry of local and held transactions, which
  other components decide; subscriptions and the cluster timer of `NetworkOPs`;
  stand-alone servers and start from a stored ledger (`start_valid`).
* Saves that are late or fail, and nodes missing from ledgers that are here, in
  `LedgerMaster`; our own validations in its instance; path finding, fees and dividends computed from the validated ledger, held
  transactions.
* Writes to the node store that a crash loses (the batch writer), and the
  generation of the full-below cache: rotation and acquisition are modelled
  apart, so that a walk during which online deletion clears the caches, or a node that
  only the tree node cache has while its backend is deleted, is covered by neither.
* The end of the process by an exception out of a save in a job.
* The tables of transactions in online deletion.
* Times in acquisition (`mLastAction`, the interval after a failure), the choice
  of peers and nodes, statistics.
* Transactors, payment paths, ledger views and serialization: sequential
  computations over data that no small instance represents. Overlay, RPC, web
  sockets, HBase: input and output, whose effects on the modelled state are the
  free inputs of the modules. Vendored libraries (SQLite, RocksDB, protobuf,
  Thrift) and generated code, which are most of the lines of the repository.
* All components without a module in section 1.

## 6. Plan

1. Consensus round, job queue, transaction batches, operating mode, and the
   theorems of section 4: done.
2. `Validations` and `LedgerMaster` with the abstract `LedgerChain`, saving of
   ledgers, `InboundLedger` with `PeerSet`, synchronization of SHAMaps, online
   deletion: done.
3. Proofs for these, and for the consensus round: done, as section 4 lists them.
4. Proofs for the operating mode, of the votes of peers and of validations that are
   not overlooked: done. Liveness stays with TLC.
5. Rounds of `LedgerConsensus` that follow each other, which gives `stored` a past,
   and several nodes as a composition; acquisition together with rotation.
6. `BatchWriter`, `HashRouter`, `TxQ`, `LocalTxs`, the timers of
   `TransactionAcquire`.
7. `PeerFinder` slots, `Resource` balances, `LoadFeeTrack`, amendment, fee and
   dividend votes; the tree of `Stoppable`s and the full `Workers`.
