----------------------------- MODULE LedgerSave -----------------------------
(***************************************************************************)
(* Saving validated ledgers to the SQL tables: PendingSaves,               *)
(* pendSaveValidated and saveValidatedLedger, with the parts of            *)
(* LedgerMaster that mark a saved ledger as complete and report the range  *)
(* of ledgers clients may ask for.                                         *)
(*                                                                         *)
(* Threads call pendSaveValidated, some of them synchronously (a ledger    *)
(* that is published, the ledger cleaner), some of them not (history, RPC);*)
(* the asynchronous saves run in jobs.  PendingSaves keeps two savers of   *)
(* one sequence apart, the router's SF_SAVED flag keeps one ledger from    *)
(* being saved again and again.                                            *)
(***************************************************************************)
EXTENDS Integers, FiniteSets, FiniteSetsExt

CONSTANTS
  Ledger,      \* ledgers, named by their hashes
  NoLedger,    \* no ledger
  LedgerSeq,   \* LedgerSeq[l]: the sequence number of l
  Caller,      \* threads that have ledgers saved
  Worker,      \* threads that run the save jobs
  Request,     \* the calls made: [l, sync, then], see below
  MayFail,     \* the ledgers whose save may fail
  MaxCalls     \* bound: calls made

(***************************************************************************)
(* What the caller does when pendSaveValidated is back: nothing, or the    *)
(* rest of setFullLedger, or that and setPubLedger.                        *)
(***************************************************************************)
Then == {"return", "full", "publish"}

Thread == Caller \cup Worker
Seqs == {LedgerSeq[l] : l \in Ledger}

ASSUME SaveAssumption ==
  /\ NoLedger \notin Ledger
  /\ LedgerSeq \in [Ledger -> Nat \ {0}]
  /\ Caller \cap Worker = {}
  /\ Request \subseteq [l : Ledger, sync : BOOLEAN, then : Then]
  /\ MayFail \subseteq Ledger
  /\ MaxCalls \in Nat

VARIABLES
  map_,             \* PendingSaves::map_: "none", "dispatched" or "working"
  flagged,          \* HashRouter: the ledgers with SF_SAVED
  jobs,             \* jobs[l]: queued save jobs for l
  thread,           \* what each thread is doing
  table,            \* the Ledgers table: the row of each sequence
  txns,             \* the transaction tables: whose rows each sequence has
  mCompleteLedgers, \* LedgerMaster: the sequences we say we have
  mPubLedgerSeq,    \* LedgerMaster: the published sequence
  range,            \* a client's getValidatedRange, between its two reads
  failed,           \* history: sequences whose last save failed
  thrown,           \* history: sequences whose save left by an exception
  handed,           \* history: the ledgers handed to pendSaveValidated
  calls             \* calls made so far

vars == <<map_, flagged, jobs, thread, table, txns, mCompleteLedgers, mPubLedgerSeq,
          range, failed, thrown, handed, calls>>

Idle == [at |-> "idle", l |-> NoLedger, sync |-> FALSE, then |-> "return"]

Init ==
  /\ map_ = [s \in Seqs |-> "none"]
  /\ flagged = {} /\ jobs = [l \in Ledger |-> 0]
  /\ thread = [t \in Thread |-> Idle]
  /\ table = [s \in Seqs |-> NoLedger] /\ txns = [s \in Seqs |-> NoLedger]
  /\ mCompleteLedgers = {} /\ mPubLedgerSeq = 0
  /\ range = [at |-> "idle", min |-> 0, max |-> 0]
  /\ failed = {} /\ thrown = {} /\ handed = {} /\ calls = 0

seqOf(t) == LedgerSeq[thread[t].l]
Goto(t, at) == thread' = [thread EXCEPT ![t].at = at]

\* pendSaveValidated is back: the caller goes on, a job's thread is free.
Return(t) == IF thread[t].then = "return" THEN [thread EXCEPT ![t] = Idle]
                                          ELSE [thread EXCEPT ![t].at = "mark"]

-----------------------------------------------------------------------------
(***************************************************************************)
(* pendSaveValidated: not again what was saved lately, unless a save is    *)
(* pending that the caller has to wait for.                                *)
(***************************************************************************)
pendSaveValidated(t, r) ==
  /\ t \in Caller /\ thread[t] = Idle /\ calls < MaxCalls
  /\ calls' = calls + 1
  /\ flagged' = flagged \cup {r.l}
  /\ thread' = [thread EXCEPT ![t] = [at |-> IF r.l \in flagged THEN "double" ELSE "should",
                                      l |-> r.l, sync |-> r.sync, then |-> r.then]]
  /\ handed' = handed \cup {r.l}
  /\ UNCHANGED <<map_, jobs, table, txns, mCompleteLedgers, mPubLedgerSeq, range, failed, thrown>>

doublePend(t) ==
  /\ thread[t].at = "double"
  /\ thread' = IF ~thread[t].sync \/ map_[seqOf(t)] = "none" THEN Return(t)
               ELSE [thread EXCEPT ![t].at = "should"]
  /\ UNCHANGED <<map_, flagged, jobs, table, txns, mCompleteLedgers, mPubLedgerSeq, range,
                 failed, thrown, handed, calls>>

\* The entry in the hash router times out.
expireFlag(l) ==
  /\ l \in flagged
  /\ flagged' = flagged \ {l}
  /\ UNCHANGED <<map_, jobs, thread, table, txns, mCompleteLedgers, mPubLedgerSeq, range,
                 failed, thrown, handed, calls>>

\* Mutant: an asynchronous save is entered but not dispatched.
shouldWork_NoJob(t) ==
  /\ thread[t].at = "should"
  /\ map_' = IF map_[seqOf(t)] = "none" THEN [map_ EXCEPT ![seqOf(t)] = "dispatched"] ELSE map_
  /\ thread' = IF ~thread[t].sync THEN Return(t)
               ELSE [thread EXCEPT ![t].at = IF map_[seqOf(t)] = "working" THEN "wait" ELSE "start"]
  /\ UNCHANGED <<jobs, flagged, table, txns, mCompleteLedgers, mPubLedgerSeq, range, failed,
                 thrown, handed, calls>>

(***************************************************************************)
(* PendingSaves::shouldWork, and the dispatch of an asynchronous save.     *)
(***************************************************************************)
shouldWork(t) ==
  LET s == seqOf(t)
      entry == map_[s]
      sync == thread[t].sync
  IN  /\ thread[t].at = "should"
      /\ map_' = IF entry = "none" THEN [map_ EXCEPT ![s] = "dispatched"] ELSE map_
      /\ jobs' = IF entry = "none" /\ ~sync THEN [jobs EXCEPT ![thread[t].l] = @ + 1] ELSE jobs
      /\ thread' = IF ~sync THEN Return(t)
                   ELSE [thread EXCEPT ![t].at = IF entry = "working" THEN "wait" ELSE "start"]
      /\ UNCHANGED <<flagged, table, txns, mCompleteLedgers, mPubLedgerSeq, range, failed,
                     thrown, handed, calls>>

runJob(w, l) ==
  /\ w \in Worker /\ thread[w] = Idle /\ jobs[l] > 0
  /\ jobs' = [jobs EXCEPT ![l] = @ - 1]
  /\ thread' = [thread EXCEPT ![w] = [Idle EXCEPT !.at = "start", !.l = l]]
  /\ UNCHANGED <<map_, flagged, table, txns, mCompleteLedgers, mPubLedgerSeq, range, failed,
                 thrown, handed, calls>>

-----------------------------------------------------------------------------
\* Mutant: an entry that is being worked on is taken again.
startWork_Again(t) ==
  /\ thread[t].at = "start"
  /\ IF map_[seqOf(t)] # "none"
     THEN map_' = [map_ EXCEPT ![seqOf(t)] = "working"] /\ Goto(t, "store")
     ELSE thread' = Return(t) /\ UNCHANGED map_
  /\ UNCHANGED <<flagged, jobs, table, txns, mCompleteLedgers, mPubLedgerSeq, range, failed,
                 thrown, handed, calls>>

(***************************************************************************)
(* saveValidatedLedger: take the entry, or leave the work to whoever has   *)
(* it.                                                                     *)
(***************************************************************************)
startWork(t) ==
  /\ thread[t].at = "start"
  /\ IF map_[seqOf(t)] = "dispatched"
     THEN map_' = [map_ EXCEPT ![seqOf(t)] = "working"] /\ Goto(t, "store")
     ELSE thread' = Return(t) /\ UNCHANGED map_
  /\ UNCHANGED <<flagged, jobs, table, txns, mCompleteLedgers, mPubLedgerSeq, range, failed,
                 thrown, handed, calls>>

(***************************************************************************)
(* SaveValidated, the accepted ledger, the transactions or the new row may *)
(* fail; failedSave takes the sequence out of the complete ones.           *)
(***************************************************************************)
failedSave(t) ==
  /\ thread[t].at \in {"store", "txns", "insert"} /\ thread[t].l \in MayFail
  /\ mCompleteLedgers' = mCompleteLedgers \ {seqOf(t)}
  /\ failed' = failed \cup {seqOf(t)}
  /\ Goto(t, "finish")
  /\ UNCHANGED <<map_, flagged, jobs, table, txns, mPubLedgerSeq, range, thrown, handed, calls>>

(***************************************************************************)
(* The DELETE of the old row throws.  Nobody on the way catches it before  *)
(* advanceThread, which publishes: the save is over, its entry stays, and  *)
(* neither setFullLedger nor setPubLedger goes on.  In a job or in another *)
(* caller's thread it ends the process, which is not modelled.             *)
(***************************************************************************)
saveThrows(t) ==
  /\ thread[t].at = "store" /\ thread[t].l \in MayFail
  /\ thread[t].sync /\ thread[t].then = "publish"
  /\ failed' = failed \cup {seqOf(t)}
  /\ thrown' = thrown \cup {seqOf(t)}
  /\ thread' = [thread EXCEPT ![t] = Idle]
  /\ UNCHANGED <<map_, flagged, jobs, table, txns, mCompleteLedgers, mPubLedgerSeq, range,
                 handed, calls>>

\* The header is stored, the old row of the sequence goes.
deleteLedger(t) ==
  /\ thread[t].at = "store"
  /\ table' = [table EXCEPT ![seqOf(t)] = NoLedger]
  /\ Goto(t, "txns")
  /\ UNCHANGED <<map_, flagged, jobs, txns, mCompleteLedgers, mPubLedgerSeq, range, failed,
                 thrown, handed, calls>>

\* One SQL transaction replaces the rows of the ledger's transactions.
saveTransactions(t) ==
  /\ thread[t].at = "txns"
  /\ txns' = [txns EXCEPT ![seqOf(t)] = thread[t].l]
  /\ Goto(t, "insert")
  /\ UNCHANGED <<map_, flagged, jobs, table, mCompleteLedgers, mPubLedgerSeq, range, failed,
                 thrown, handed, calls>>

addLedger(t) ==
  /\ thread[t].at = "insert"
  /\ table' = [table EXCEPT ![seqOf(t)] = thread[t].l]
  /\ failed' = failed \ {seqOf(t)}
  /\ Goto(t, "finish")
  /\ UNCHANGED <<map_, flagged, jobs, txns, mCompleteLedgers, mPubLedgerSeq, range, thrown,
                 handed, calls>>

\* Mutant: the waiters are not notified.
finishWork_NoNotify(t) ==
  /\ thread[t].at = "finish"
  /\ map_' = [map_ EXCEPT ![seqOf(t)] = "none"]
  /\ thread' = Return(t)
  /\ UNCHANGED <<flagged, jobs, table, txns, mCompleteLedgers, mPubLedgerSeq, range, failed,
                 thrown, handed, calls>>

(***************************************************************************)
(* PendingSaves::finishWork: the entry goes and every waiter tries again.  *)
(***************************************************************************)
finishWork(t) ==
  /\ thread[t].at = "finish"
  /\ map_' = [map_ EXCEPT ![seqOf(t)] = "none"]
  /\ thread' = [u \in Thread |-> IF thread[u].at = "wait" THEN [thread[u] EXCEPT !.at = "should"]
                                 ELSE Return(t)[u]]
  /\ UNCHANGED <<flagged, jobs, table, txns, mCompleteLedgers, mPubLedgerSeq, range, failed,
                 thrown, handed, calls>>

-----------------------------------------------------------------------------
(***************************************************************************)
(* The rest of setFullLedger and, for a published ledger, setPubLedger.    *)
(***************************************************************************)
markComplete(t) ==
  /\ thread[t].at = "mark"
  /\ mCompleteLedgers' = mCompleteLedgers \cup {seqOf(t)}
  /\ mPubLedgerSeq' = IF thread[t].then = "publish" THEN seqOf(t) ELSE mPubLedgerSeq
  /\ thread' = [thread EXCEPT ![t] = Idle]
  /\ UNCHANGED <<map_, flagged, jobs, table, txns, range, failed, thrown, handed, calls>>

(***************************************************************************)
(* LedgerMaster::getValidatedRange: the complete range below the published *)
(* ledger, then the tips without the pending saves.                        *)
(***************************************************************************)
prevMissing(s) == Max({n \in 0 .. s - 1 : n \notin mCompleteLedgers})

readRange ==
  /\ mPubLedgerSeq # 0
  /\ range' = [at |-> "read", min |-> prevMissing(mPubLedgerSeq) + 1, max |-> mPubLedgerSeq]
  /\ UNCHANGED <<map_, flagged, jobs, thread, table, txns, mCompleteLedgers, mPubLedgerSeq,
                 failed, thrown, handed, calls>>

pendingSaves == {s \in Seqs : map_[s] # "none"}

shrinkTips(min, max, pending) ==
  [min |-> Min({n \in min .. max + 1 + Cardinality(pending) : n \notin pending}),
   max |-> Max({n \in 0 .. max : n \notin pending})]

exclude(r, s) ==
  IF s < r.min \/ s > r.max THEN r
  ELSE IF s > (r.min + r.max) \div 2 THEN [r EXCEPT !.max = s - 1]
  ELSE [r EXCEPT !.min = s + 1]

\* Mutant: pending saves are not taken out.
getValidatedRange_WithPending == range.min .. range.max

\* The pending saves are taken out in ascending order; those above the range change nothing.
getValidatedRange ==
  LET without[n \in 0 .. range.max] ==
        IF n = 0 THEN shrinkTips(range.min, range.max, pendingSaves)
        ELSE IF n \in pendingSaves THEN exclude(without[n - 1], n)
        ELSE without[n - 1]
      r == without[range.max]
  IN  r.min .. r.max

-----------------------------------------------------------------------------
Step(t) ==
  \/ doublePend(t) \/ shouldWork(t) \/ startWork(t) \/ failedSave(t) \/ saveThrows(t)
  \/ deleteLedger(t) \/ saveTransactions(t) \/ addLedger(t) \/ finishWork(t) \/ markComplete(t)

Next ==
  \/ \E t \in Thread, r \in Request : pendSaveValidated(t, r)
  \/ \E w \in Thread, l \in Ledger : runJob(w, l)
  \/ \E t \in Thread : Step(t)
  \/ \E l \in Ledger : expireFlag(l)
  \/ readRange

Spec == Init /\ [][Next]_vars

(***************************************************************************)
(* Threads run on, and the job queue runs the jobs it has.                 *)
(***************************************************************************)
FairSpec ==
  /\ Spec
  /\ \A t \in Thread : WF_vars(Step(t))
  /\ WF_vars(\E w \in Thread, l \in Ledger : runJob(w, l))

-----------------------------------------------------------------------------
Working == {"store", "txns", "insert", "finish"}

\* The state's types.
TypeOK ==
  /\ map_ \in [Seqs -> {"none", "dispatched", "working"}]
  /\ flagged \subseteq Ledger /\ jobs \in [Ledger -> Nat]
  /\ thread \in [Thread -> [at : {"idle", "double", "should", "wait", "start", "mark"} \cup Working,
                            l : Ledger \cup {NoLedger}, sync : BOOLEAN, then : Then]]
  /\ table \in [Seqs -> Ledger \cup {NoLedger}] /\ txns \in [Seqs -> Ledger \cup {NoLedger}]
  /\ mCompleteLedgers \subseteq Seqs /\ mPubLedgerSeq \in Seqs \cup {0}
  /\ range \in [at : {"idle", "read"}, min : Nat, max : Nat]
  /\ failed \subseteq Seqs /\ thrown \subseteq Seqs /\ handed \subseteq Ledger
  /\ calls \in 0 .. MaxCalls

(***************************************************************************)
(* At most one thread at a time writes the rows of a sequence, whichever   *)
(* ledgers, callers and jobs compete for it, and exactly when its entry    *)
(* says so; only an exception leaves an entry without a saver.             *)
(***************************************************************************)
OneSaver ==
  \A s \in Seqs :
    Cardinality({t \in Thread : thread[t].at \in Working /\ seqOf(t) = s})
      = IF map_[s] = "working" /\ s \notin thrown THEN 1 ELSE 0

(***************************************************************************)
(* A row of the Ledgers table has its ledger's transactions beside it, at  *)
(* every moment at which the server could die.                             *)
(***************************************************************************)
RowHasTransactions == \A s \in Seqs : table[s] # NoLedger => txns[s] = table[s]

\* A thread has set SF_SAVED for the sequence and is about to enter it in map_.
aboutToSave(s) == \E t \in Thread : thread[t].at = "should" /\ seqOf(t) = s

(***************************************************************************)
(* A ledger that was handed over is in the table, or a save of its         *)
(* sequence is pending, about to be or failed; or a fork that was handed   *)
(* over too took its place.  Saves are kept by sequence, and of two        *)
(* ledgers of one sequence the second to be scheduled is dropped.          *)
(***************************************************************************)
HandedIsSaved ==
  \A l \in handed :
    LET s == LedgerSeq[l] IN
    \/ table[s] = l \/ map_[s] # "none" \/ aboutToSave(s) \/ s \in failed
    \/ \E m \in handed \ {l} : LedgerSeq[m] = s /\ table[s] = m

(***************************************************************************)
(* An entry that says dispatched has someone to work on it: no save is     *)
(* lost between the thread that schedules it and the one that does it.     *)
(***************************************************************************)
DispatchedIsDone ==
  \A s \in Seqs : map_[s] = "dispatched" =>
    \/ \E l \in Ledger : LedgerSeq[l] = s /\ jobs[l] > 0
    \/ \E t \in Thread : thread[t].at = "start" /\ seqOf(t) = s

(***************************************************************************)
(* No sequence's save is lost among the flag SF_SAVED, the entries of      *)
(* PendingSaves and the jobs: SF_SAVED never hides a ledger whose sequence *)
(* has no row and that nobody saves, and an entry that was scheduled has   *)
(* its worker.                                                             *)
(***************************************************************************)
NoSaveLost == HandedIsSaved /\ DispatchedIsDone

(***************************************************************************)
(* "Returns Ledgers we have all the nodes for and are indexed", as far as  *)
(* it holds: between the two reads of getValidatedRange saves begin and    *)
(* end, and yet a sequence it returns has its row, unless its last save    *)
(* failed or one is about to be entered.                                   *)
(***************************************************************************)
RangeIsSaved ==
  range.at = "read" =>
    \A s \in getValidatedRange \ failed : table[s] # NoLedger \/ aboutToSave(s)

(***************************************************************************)
(* What a reader is told it may rely on is in the database: the range that *)
(* getValidatedRange returns has rows, and every row has its transactions. *)
(***************************************************************************)
RangeIsReadable == RangeIsSaved /\ RowHasTransactions

(***************************************************************************)
(* Every caller gets its answer, the ones that wait for another thread's   *)
(* save included, unless that save left by an exception: nobody then       *)
(* removes its entry, and who waits for it waits for ever.                 *)
(***************************************************************************)
CallsReturn ==
  \A t \in Thread : thread[t].at # "idle" ~>
    thread[t].at = "idle" \/ (thread[t].at = "wait" /\ seqOf(t) \in thrown)
=============================================================================
