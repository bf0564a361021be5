-------------------------- MODULE NetworkOPsProofs --------------------------
(***************************************************************************)
(* What is proved of NetworkOPs: the safety of transaction batches         *)
(* (TransactionBatch), for any number of clients, batch threads,           *)
(* transactions and submissions, and of its operating mode (OperatingMode, *)
(* in the second half), for any set of ledgers, peers and validators.      *)
(***************************************************************************)
EXTENDS TransactionBatch, OperatingMode, FiniteSetTheorems, WellFoundedInduction, TLAPS

(***************************************************************************)
(* Where each thread is: only a running thread has a batch, which contains *)
(* the transaction of its call; a client that waits was answered, or its   *)
(* transaction is still marked; a job is scheduled only for a queue that   *)
(* is not empty.                                                           *)
(***************************************************************************)
BatchOwners ==
  /\ \A h \in Thread : h \notin RunningThreads => batch[h] = {}
  /\ \A w \in Worker : pc[w] \in {"idle", "applying", "applied"}

CallsOpen ==
  \A c \in Client :
    /\ pc[c] # "idle" => call[c] \in TransactionStatus
    /\ pc[c] \in {"waiting", "woken"} =>
         c \in completed \/ call[c].transaction \in mApplying
    /\ pc[c] \in {"applying", "applied"} => call[c].transaction \in transactionsOf(batch[c])

ScheduledHasWork == mDispatchState = "scheduled" => mTransactions # {}

IInv ==
  /\ TypeOK /\ OneBatch /\ ApplyingOnce /\ NothingStranded
  /\ BatchOwners /\ CallsOpen /\ ScheduledHasWork

(***************************************************************************)
(* The invariant holds initially: nothing is queued and no thread is busy. *)
(***************************************************************************)
LEMMA BatchInit == Init => IInv
  <1> SUFFICES ASSUME Init PROVE IInv
    OBVIOUS
  <1>1. TypeOK
    <2>1. isStopping \in BOOLEAN
      BY DEF Init
    <2>2. jobs \in Nat /\ submits \in 0..MaxSubmits
      BY TransactionBatchAssumption DEF Init
    <2>3. call \in [Thread -> TransactionStatus \cup {NoCall}]
      BY DEF Init
    <2> QED
      BY <2>1, <2>2, <2>3 DEF Init, TypeOK
  <1>2. RunningThreads = {}
    BY DEF Init, RunningThreads
  <1>3. InFlight = {}
    BY DEF Init, InFlight
  <1>4. OneBatch
    BY <1>2 DEF Init, OneBatch
  <1>5. ApplyingOnce
    BY <1>3 DEF Init, ApplyingOnce, transactionsOf
  <1>6. NothingStranded /\ BatchOwners /\ CallsOpen /\ ScheduledHasWork
    BY DEF Init, NothingStranded, BatchOwners, CallsOpen, ScheduledHasWork, Thread
  <1> QED
    BY <1>1, <1>4, <1>5, <1>6 DEF IInv

(***************************************************************************)
(* A submission that has only passed the check of processTransaction       *)
(* touches nothing the batches depend on.                                  *)
(***************************************************************************)
LEMMA CheckInv ==
  ASSUME IInv,
         \/ \E c \in Client, x \in Tx, failHard \in BOOLEAN :
              processTransactionLocal(c, x, failHard)
         \/ \E x \in Tx : processTransactionPeer(x)
         \/ StopAsync
  PROVE  IInv'
  <1> USE DEF IInv, queueVars, threadVars, effectVars, inputVars
  <1>1. ASSUME NEW c \in Client, NEW x \in Tx, NEW failHard \in BOOLEAN,
               processTransactionLocal(c, x, failHard)
        PROVE  IInv'
    <2> USE <1>1 DEF processTransactionLocal
    <2>1. TypeOK'
      BY TransactionBatchAssumption DEF TypeOK, Thread, TransactionStatus
    <2>2. RunningThreads' = RunningThreads /\ InFlight' = InFlight
      BY DEF TypeOK, RunningThreads, InFlight, Thread
    <2>3. OneBatch' /\ ApplyingOnce' /\ NothingStranded'
      <3>1. OneBatch'
        BY <2>2 DEF OneBatch
      <3>2. ApplyingOnce'
        BY <2>2 DEF ApplyingOnce
      <3>3. NothingStranded'
        BY DEF NothingStranded
      <3> QED
        BY <3>1, <3>2, <3>3
    <2>4. BatchOwners'
      <3>1. \A w \in Worker : pc'[w] = pc[w]
        BY TransactionBatchAssumption DEF TypeOK, Thread
      <3> QED
        BY <2>2, <3>1 DEF BatchOwners
    <2>5. CallsOpen'
      BY DEF CallsOpen, TypeOK, Thread, TransactionStatus
    <2>6. ScheduledHasWork'
      BY DEF ScheduledHasWork
    <2> QED
      BY <2>1, <2>3, <2>4, <2>5, <2>6
  <1>2. ASSUME NEW x \in Tx, processTransactionPeer(x)
        PROVE  IInv'
    <2> USE <1>2 DEF processTransactionPeer
    <2>1. submits' \in 0..MaxSubmits
      BY TransactionBatchAssumption DEF TypeOK
    <2>2. TypeOK'
      BY <2>1 DEF TypeOK
    <2>3. OneBatch' /\ ApplyingOnce'
      BY DEF OneBatch, ApplyingOnce, RunningThreads, InFlight
    <2>4. NothingStranded' /\ BatchOwners' /\ CallsOpen'
      BY DEF NothingStranded, BatchOwners, CallsOpen, RunningThreads
    <2>5. ScheduledHasWork'
      BY DEF ScheduledHasWork
    <2> QED
      BY <2>2, <2>3, <2>4, <2>5
  <1>3. ASSUME StopAsync
        PROVE  IInv'
    <2> USE <1>3 DEF StopAsync
    <2>1. isStopping' \in BOOLEAN
      OBVIOUS
    <2>2. TypeOK'
      BY <2>1 DEF TypeOK
    <2>3. OneBatch' /\ ApplyingOnce'
      BY DEF OneBatch, ApplyingOnce, RunningThreads, InFlight
    <2>4. NothingStranded' /\ BatchOwners' /\ CallsOpen'
      BY DEF NothingStranded, BatchOwners, CallsOpen, RunningThreads
    <2>5. ScheduledHasWork'
      BY DEF ScheduledHasWork
    <2> QED
      BY <2>2, <2>3, <2>4, <2>5
  <1> QED
    BY <1>1, <1>2, <1>3

(***************************************************************************)
(* A peer's transaction: dropped if it is marked, else queued once, with a *)
(* job on its way or a batch running.                                      *)
(***************************************************************************)
LEMMA AsyncInv ==
  ASSUME IInv, NEW x \in Tx, doTransactionAsync(x)
  PROVE  IInv'
  <1> USE DEF IInv, queueVars, threadVars, effectVars, inputVars
  <1>0. UNCHANGED <<threadVars, submits, isStopping, effectVars>> /\ arriving' \subseteq Tx
    BY DEF doTransactionAsync, TypeOK
  <1>1. CASE x \in mApplying
    <2>1. UNCHANGED queueVars
      BY <1>1 DEF doTransactionAsync
    <2>2. TypeOK'
      BY <1>0, <2>1 DEF TypeOK
    <2>3. OneBatch' /\ ApplyingOnce'
      BY <1>0, <2>1 DEF OneBatch, ApplyingOnce, RunningThreads, InFlight
    <2>4. NothingStranded' /\ BatchOwners' /\ CallsOpen' /\ ScheduledHasWork'
      BY <1>0, <2>1 DEF NothingStranded, BatchOwners, CallsOpen, RunningThreads,
           ScheduledHasWork
    <2> QED
      BY <2>2, <2>3, <2>4
  <1>2. CASE x \notin mApplying
    <2> DEFINE e == [transaction |-> x, local |-> FALSE, failHard |-> FALSE]
    <2>1. /\ mTransactions' = mTransactions \cup {e}
          /\ mApplying' = mApplying \cup {x}
      BY <1>2 DEF doTransactionAsync
    <2>2. e \in TransactionStatus /\ e.transaction = x
      BY DEF TransactionStatus
    <2>3. /\ mDispatchState = "none" =>
               mDispatchState' = "scheduled" /\ jobs' = IF isStopping THEN jobs ELSE jobs + 1
          /\ mDispatchState # "none" => UNCHANGED <<jobs, mDispatchState>>
      BY <1>2 DEF doTransactionAsync, mustSchedule, addBatchJob
    <2>4. TypeOK'
      <3>1. jobs' \in Nat
        BY <2>3 DEF TypeOK
      <3>2. mDispatchState' \in {"none", "scheduled", "running"}
        BY <2>3 DEF TypeOK
      <3> HIDE DEF e
      <3> QED
        BY <1>0, <2>1, <2>2, <3>1, <3>2 DEF TypeOK
    <2>5. OneBatch'
      BY <1>0, <2>3 DEF OneBatch, RunningThreads
    <2>6. ApplyingOnce'
      <3> HIDE DEF e
      <3>1. InFlight' = InFlight \cup {e}
        BY <1>0, <2>1, <2>2 DEF InFlight
      <3>2. \A d \in InFlight : d.transaction # x
        BY <1>2 DEF ApplyingOnce, transactionsOf
      <3>3. mApplying' = transactionsOf(InFlight')
        BY <2>1, <2>2, <3>1 DEF ApplyingOnce, transactionsOf
      <3>4. \A d, f \in InFlight' : d.transaction = f.transaction => d = f
        BY <2>2, <3>1, <3>2 DEF ApplyingOnce
      <3>5. \A h \in Thread : batch'[h] \cap mTransactions' = {}
        BY <1>0, <2>1, <2>2, <3>2 DEF ApplyingOnce, InFlight
      <3> QED
        BY <3>3, <3>4, <3>5 DEF ApplyingOnce
    <2>7. NothingStranded'
      <3>1. CASE mDispatchState = "none"
        BY <1>0, <2>3, <3>1 DEF NothingStranded, TypeOK
      <3>2. CASE mDispatchState = "running"
        BY <2>3, <3>2 DEF NothingStranded
      <3>3. CASE mDispatchState = "scheduled"
        BY <1>0, <2>3, <3>3 DEF NothingStranded, ScheduledHasWork
      <3> QED
        BY <3>1, <3>2, <3>3 DEF TypeOK
    <2>8. BatchOwners' /\ CallsOpen'
      BY <1>0, <2>1 DEF BatchOwners, CallsOpen, RunningThreads
    <2>9. ScheduledHasWork'
      BY <2>1 DEF ScheduledHasWork
    <2> QED
      BY <2>4, <2>5, <2>6, <2>7, <2>8, <2>9
  <1> QED
    BY <1>1, <1>2

(***************************************************************************)
(* One turn of a client's loop, with its transaction queued or in a batch  *)
(* already: it waits for the batch that runs, or starts one that contains  *)
(* everything that is marked, its own transaction included.                *)
(***************************************************************************)
LEMMA SyncLoopInv ==
  ASSUME IInv, NEW c \in Client, pc[c] \in {"checked", "waiting", "woken"},
         syncLoop(c, withCall(c)),
         mApplying' = mApplying \cup {call[c].transaction},
         UNCHANGED <<jobs, call, completed, inputVars, effectVars>>
  PROVE  IInv'
  <1> USE DEF IInv, effectVars, inputVars
  <1> DEFINE x == call[c].transaction
             Q == withCall(c)
             flight == {e \in TransactionStatus : e \in Q \/ \E h \in Thread : e \in batch[h]}
  <1>0. c \in Thread /\ c \notin RunningThreads /\ call[c] \in TransactionStatus /\ x \in Tx
    BY DEF Thread, RunningThreads, CallsOpen, TransactionStatus
  <1>1. /\ Q \subseteq TransactionStatus
        /\ transactionsOf(flight) = mApplying'
        /\ \A d, e \in flight : d.transaction = e.transaction => d = e
        /\ \A h \in Thread : batch[h] \cap Q = {}
    <2>1. CASE x \in mApplying
      <3>1. Q = mTransactions /\ flight = InFlight /\ mApplying' = mApplying
        BY <2>1 DEF withCall, InFlight
      <3> HIDE DEF Q, flight
      <3> QED
        BY <3>1 DEF ApplyingOnce, TypeOK
    <2>2. CASE x \notin mApplying
      <3>1. Q = mTransactions \cup {call[c]}
        BY <2>2 DEF withCall
      <3>2. flight = InFlight \cup {call[c]}
        <4> HIDE DEF Q
        <4> QED
          BY <1>0, <3>1 DEF InFlight
      <3>3. \A d \in InFlight : d.transaction # x
        BY <2>2 DEF ApplyingOnce, transactionsOf
      <3> HIDE DEF Q, flight
      <3>4. Q \subseteq TransactionStatus
        BY <1>0, <3>1 DEF TypeOK
      <3>5. transactionsOf(flight) = mApplying'
        BY <3>2 DEF ApplyingOnce, transactionsOf
      <3>6. \A d, e \in flight : d.transaction = e.transaction => d = e
        BY <3>2, <3>3 DEF ApplyingOnce
      <3>7. \A h \in Thread : batch[h] \cap Q = {}
        BY <1>0, <3>1, <3>3 DEF ApplyingOnce, InFlight
      <3> QED
        BY <3>4, <3>5, <3>6, <3>7
    <2> QED
      BY <2>1, <2>2
  <1>2. \A w \in Worker : pc'[w] = pc[w]
    BY <1>0, TransactionBatchAssumption DEF syncLoop, applyBegin, TypeOK, Thread
  <1> HIDE DEF Q
  <1>3. CASE mDispatchState # "running"
    <2>1. /\ batch' = [batch EXCEPT ![c] = Q] /\ mTransactions' = {}
          /\ mDispatchState' = "running" /\ pc' = [pc EXCEPT ![c] = "applying"]
      BY <1>3 DEF syncLoop, mayApply, applyBegin, Q
    <2>2. RunningThreads = {} /\ \A h \in Thread : batch[h] = {}
      BY <1>3 DEF OneBatch, BatchOwners
    <2>3. flight = Q
      BY <1>1, <2>2
    <2>4. InFlight' = Q
      BY <1>0, <1>1, <2>1, <2>2 DEF InFlight, TypeOK
    <2>5. RunningThreads' = {c}
      BY <1>0, <2>1, <2>2 DEF RunningThreads, TypeOK
    <2>6. x \in transactionsOf(Q)
      BY <1>1, <2>3
    <2> HIDE DEF x, flight
    <2>7. TypeOK'
      <3>1. mApplying' \subseteq Tx
        BY <1>0 DEF TypeOK, x
      <3>2. batch' \in [Thread -> SUBSET TransactionStatus]
        BY <1>1, <2>1 DEF TypeOK
      <3> QED
        BY <2>1, <3>1, <3>2 DEF TypeOK
    <2>8. OneBatch'
      BY <1>0, <2>1, <2>5, <2>6 DEF OneBatch, TypeOK, transactionsOf
    <2>9. ApplyingOnce'
      BY <1>1, <2>1, <2>3, <2>4 DEF ApplyingOnce
    <2>10. NothingStranded' /\ ScheduledHasWork'
      BY <2>1 DEF NothingStranded, ScheduledHasWork
    <2>11. BatchOwners'
      BY <1>2, <2>1, <2>2, <2>5 DEF BatchOwners, TypeOK
    <2>12. CallsOpen'
      <3>1. ASSUME NEW d \in Client, d # c
            PROVE  /\ pc'[d] = pc[d] /\ batch'[d] = batch[d]
                   /\ mApplying \subseteq mApplying'
        BY <2>1, <3>1 DEF TypeOK, Thread
      <3>2. pc'[c] = "applying" /\ batch'[c] = Q
        BY <1>0, <2>1 DEF TypeOK
      <3> QED
        BY <1>0, <2>6, <3>1, <3>2 DEF CallsOpen, x
    <2> QED
      BY <2>7, <2>8, <2>9, <2>10, <2>11, <2>12
  <1>4. CASE mDispatchState = "running"
    <2>1. /\ pc' = [pc EXCEPT ![c] = "waiting"] /\ mTransactions' = Q
          /\ UNCHANGED <<batch, mDispatchState>>
      BY <1>4 DEF syncLoop, mayApply, Q
    <2>2. InFlight' = flight
      BY <2>1 DEF InFlight
    <2>3. RunningThreads' = RunningThreads
      BY <1>0, <2>1 DEF RunningThreads, TypeOK
    <2> HIDE DEF x, flight
    <2>4. TypeOK'
      <3>1. mApplying' \subseteq Tx
        BY <1>0 DEF TypeOK, x
      <3> QED
        BY <1>1, <2>1, <3>1 DEF TypeOK
    <2>5. OneBatch'
      BY <2>1, <2>3 DEF OneBatch
    <2>6. ApplyingOnce'
      BY <1>1, <2>1, <2>2 DEF ApplyingOnce
    <2>7. NothingStranded' /\ ScheduledHasWork'
      BY <1>4, <2>1 DEF NothingStranded, ScheduledHasWork
    <2>8. BatchOwners'
      BY <1>2, <2>1, <2>3 DEF BatchOwners
    <2>9. CallsOpen'
      <3>1. \A d \in Client : d # c => pc'[d] = pc[d]
        BY <2>1 DEF TypeOK, Thread
      <3>2. pc'[c] = "waiting"
        BY <1>0, <2>1 DEF TypeOK
      <3> QED
        BY <1>0, <2>1, <3>1, <3>2 DEF CallsOpen, x
    <2> QED
      BY <2>4, <2>5, <2>6, <2>7, <2>8, <2>9
  <1> QED
    BY <1>3, <1>4

(***************************************************************************)
(* doTransactionSync and each return of mCond.wait are such a turn, or the *)
(* return of the call.                                                     *)
(***************************************************************************)
LEMMA SyncInv ==
  ASSUME IInv, NEW c \in Client, doTransactionSync(c) \/ SyncWake(c)
  PROVE  IInv'
  <1>1. CASE doTransactionSync(c)
    BY <1>1, SyncLoopInv DEF doTransactionSync
  <1>2. CASE SyncWake(c) /\ mustWait(c)
    <2>1. withCall(c) = mTransactions /\ mApplying \cup {call[c].transaction} = mApplying
      BY <1>2 DEF withCall, mustWait
    <2> QED
      BY <1>2, <2>1, SyncLoopInv DEF SyncWake
  <1>3. CASE SyncWake(c) /\ ~mustWait(c)
    <2> USE DEF IInv, effectVars, inputVars
    <2>1. /\ pc' = [pc EXCEPT ![c] = "idle"] /\ call' = [call EXCEPT ![c] = NoCall]
          /\ UNCHANGED <<batch, mTransactions, mDispatchState, mApplying, jobs, completed>>
          /\ UNCHANGED <<inputVars, effectVars>>
          /\ pc[c] \in {"waiting", "woken"}
      BY <1>3 DEF SyncWake, syncReturn
    <2>2. RunningThreads' = RunningThreads /\ InFlight' = InFlight
      BY <2>1 DEF RunningThreads, InFlight, TypeOK, Thread
    <2>3. TypeOK'
      <3>1. pc' \in [Thread -> {"idle", "checked", "waiting", "woken", "applying", "applied"}]
        BY <2>1 DEF TypeOK
      <3>2. call' \in [Thread -> TransactionStatus \cup {NoCall}]
        BY <2>1 DEF TypeOK
      <3> QED
        BY <2>1, <3>1, <3>2 DEF TypeOK
    <2>4. OneBatch'
      BY <2>1, <2>2 DEF OneBatch
    <2>5. ApplyingOnce'
      BY <2>1, <2>2 DEF ApplyingOnce
    <2>6. NothingStranded' /\ ScheduledHasWork'
      BY <2>1 DEF NothingStranded, ScheduledHasWork
    <2>7. BatchOwners'
      <3>1. \A w \in Worker : pc'[w] = pc[w]
        BY <2>1, TransactionBatchAssumption DEF TypeOK, Thread
      <3> QED
        BY <2>1, <2>2, <3>1 DEF BatchOwners
    <2>8. CallsOpen'
      <3>1. \A d \in Client : d # c => pc'[d] = pc[d] /\ call'[d] = call[d]
        BY <2>1 DEF TypeOK, Thread
      <3>2. pc'[c] = "idle"
        BY <2>1 DEF TypeOK, Thread
      <3> QED
        BY <2>1, <3>1, <3>2 DEF CallsOpen
    <2> QED
      BY <2>3, <2>4, <2>5, <2>6, <2>7, <2>8
  <1> QED
    BY <1>1, <1>2, <1>3

(***************************************************************************)
(* A batch job takes the whole queue, or leaves everything as it is: then  *)
(* a batch is running, nothing is queued, or the server stops.             *)
(***************************************************************************)
LEMMA JobInv ==
  ASSUME IInv, NEW w \in Worker, transactionBatch(w)
  PROVE  IInv'
  <1> USE DEF IInv, effectVars, inputVars
  <1>0. /\ w \in Thread /\ w \notin Client /\ w \notin RunningThreads
        /\ UNCHANGED <<mApplying, call, completed, inputVars, effectVars>>
        /\ jobs' \in Nat
    BY TransactionBatchAssumption DEF transactionBatch, Thread, RunningThreads, TypeOK
  <1>1. CASE /\ mDispatchState # "running" /\ mTransactions # {}
             /\ applyBegin(w, mTransactions)
    <2>1. /\ batch' = [batch EXCEPT ![w] = mTransactions] /\ mTransactions' = {}
          /\ mDispatchState' = "running" /\ pc' = [pc EXCEPT ![w] = "applying"]
      BY <1>1 DEF applyBegin
    <2>2. RunningThreads = {} /\ \A h \in Thread : batch[h] = {}
      BY <1>1 DEF OneBatch, BatchOwners
    <2>3. InFlight' = InFlight
      BY <1>0, <2>1, <2>2 DEF InFlight, TypeOK
    <2>4. RunningThreads' = {w}
      BY <1>0, <2>1, <2>2 DEF RunningThreads, TypeOK
    <2>5. TypeOK'
      BY <1>0, <2>1 DEF TypeOK
    <2>6. OneBatch'
      BY <1>0, <1>1, <2>1, <2>4 DEF OneBatch, TypeOK
    <2>7. ApplyingOnce'
      BY <1>0, <2>1, <2>3 DEF ApplyingOnce
    <2>8. NothingStranded' /\ ScheduledHasWork'
      BY <2>1 DEF NothingStranded, ScheduledHasWork
    <2>9. BatchOwners'
      BY <2>1, <2>2, <2>4 DEF BatchOwners, TypeOK, Thread
    <2>10. CallsOpen'
      <3>1. \A d \in Client : pc'[d] = pc[d] /\ batch'[d] = batch[d]
        BY <1>0, <2>1 DEF TypeOK, Thread
      <3> QED
        BY <1>0, <3>1 DEF CallsOpen
    <2> QED
      BY <2>5, <2>6, <2>7, <2>8, <2>9, <2>10
  <1>2. CASE /\ mDispatchState = "running" \/ mTransactions = {} \/ isStopping
             /\ UNCHANGED <<batch, pc, mTransactions, mDispatchState>>
    <2>1. UNCHANGED <<batch, pc, mTransactions, mDispatchState>>
      BY <1>2
    <2>2. TypeOK'
      BY <1>0, <2>1 DEF TypeOK
    <2>3. OneBatch' /\ ApplyingOnce'
      BY <1>0, <2>1 DEF OneBatch, ApplyingOnce, RunningThreads, InFlight
    <2>4. NothingStranded'
      BY <1>0, <1>2, <2>1 DEF NothingStranded
    <2>5. BatchOwners' /\ CallsOpen' /\ ScheduledHasWork'
      BY <1>0, <2>1 DEF BatchOwners, CallsOpen, RunningThreads, ScheduledHasWork
    <2> QED
      BY <2>2, <2>3, <2>4, <2>5
  <1> QED
    BY <1>1, <1>2 DEF transactionBatch

(***************************************************************************)
(* The work on a batch changes what the transactions lead to, and none of  *)
(* the bookkeeping.                                                        *)
(***************************************************************************)
LEMMA ProcessInv ==
  ASSUME IInv, NEW h \in Thread, Process(h)
  PROVE  IInv'
  <1> USE DEF IInv, queueVars, inputVars
  <1>0. PICK result \in [transactionsOf(batch[h]) -> Result], full \in BOOLEAN :
          applyProcess(h, result, full)
    BY DEF Process
  <1>1. /\ pc[h] = "applying" /\ pc' = [pc EXCEPT ![h] = "applied"]
        /\ UNCHANGED <<queueVars, batch, call, completed, inputVars>>
    BY <1>0 DEF applyProcess
  <1>2. RunningThreads' = RunningThreads /\ InFlight' = InFlight
    BY <1>1 DEF RunningThreads, InFlight, TypeOK
  <1>3. TypeOK'
    <2>1. \A B \in SUBSET batch[h] : transactionsOf(B) \subseteq Tx
      BY DEF TypeOK, transactionsOf, TransactionStatus
    <2>2. bad' \subseteq Tx /\ held' \subseteq Tx
      BY <1>0, <2>1 DEF applyProcess, TypeOK
    <2>3. localTxs' \subseteq Tx /\ relayed' \subseteq Tx
      BY <1>0, <2>1 DEF applyProcess, TypeOK
    <2>4. pc' \in [Thread -> {"idle", "checked", "waiting", "woken", "applying", "applied"}]
      BY <1>1 DEF TypeOK
    <2> QED
      BY <1>1, <2>2, <2>3, <2>4 DEF TypeOK
  <1>4. OneBatch'
    BY <1>1, <1>2 DEF OneBatch
  <1>5. ApplyingOnce'
    BY <1>1, <1>2 DEF ApplyingOnce
  <1>6. NothingStranded' /\ ScheduledHasWork'
    BY <1>1 DEF NothingStranded, ScheduledHasWork
  <1>7. BatchOwners'
    <2>1. \A w \in Worker : pc'[w] \in {pc[w], "applied"}
      BY <1>1 DEF TypeOK, Thread
    <2> QED
      BY <1>1, <1>2, <2>1 DEF BatchOwners
  <1>8. CallsOpen'
    <2>1. \A d \in Client : d # h => pc'[d] = pc[d]
      BY <1>1 DEF TypeOK, Thread
    <2>2. pc'[h] = "applied"
      BY <1>1 DEF TypeOK
    <2> QED
      BY <1>1, <2>1, <2>2 DEF CallsOpen
  <1> QED
    BY <1>3, <1>4, <1>5, <1>6, <1>7, <1>8

(***************************************************************************)
(* The end of a batch, whoever applied it: the marks that are left are     *)
(* those of the queue, and every waiting client is answered or its         *)
(* transaction is still marked.                                            *)
(***************************************************************************)
LEMMA ApplyEndFacts ==
  ASSUME IInv, NEW h \in Thread, pc[h] = "applied", applyEnd(h)
  PROVE  /\ mDispatchState = "running" /\ RunningThreads = {h}
         /\ \A g \in Thread : g # h => batch[g] = {}
         /\ mApplying' = transactionsOf(mTransactions)
         /\ \A d, e \in mTransactions : d.transaction = e.transaction => d = e
         /\ mApplying' \subseteq Tx /\ completed' \subseteq Client
         /\ \A c \in Client :
              pc[c] \in {"waiting", "woken"} =>
                c \in completed' \/ call[c].transaction \in mApplying'
         /\ h \in Client => h \in completed' /\ call[h].transaction \notin mApplying'
  <1> USE DEF IInv
  <1>1. h \in RunningThreads
    BY DEF RunningThreads
  <1>2. mDispatchState = "running" /\ RunningThreads = {h}
    BY <1>1 DEF OneBatch
  <1>3. \A g \in Thread : g # h => batch[g] = {}
    BY <1>2 DEF BatchOwners
  <1>4. InFlight = mTransactions \cup batch[h]
    BY <1>3 DEF InFlight, TypeOK
  <1>5. \A d \in mTransactions, e \in batch[h] : d.transaction # e.transaction
    BY <1>4 DEF ApplyingOnce
  <1>6. mApplying' = transactionsOf(mTransactions)
    BY <1>4, <1>5 DEF ApplyingOnce, applyEnd, transactionsOf
  <1>7. \A d, e \in mTransactions : d.transaction = e.transaction => d = e
    BY <1>4 DEF ApplyingOnce
  <1>8. mApplying' \subseteq Tx /\ completed' \subseteq Client /\ completed \subseteq completed'
    BY DEF applyEnd, TypeOK
  <1>9. ASSUME NEW c \in Client, pc[c] \in {"waiting", "woken"}
        PROVE  c \in completed' \/ call[c].transaction \in mApplying'
    BY <1>8, <1>9 DEF applyEnd, CallsOpen
  <1>10. ASSUME h \in Client
         PROVE  h \in completed' /\ call[h].transaction \notin mApplying'
    BY <1>10 DEF applyEnd, CallsOpen
  <1> QED
    BY <1>2, <1>3, <1>6, <1>7, <1>8, <1>9, <1>10

(***************************************************************************)
(* Waking the waiting threads leaves every other thread where it is.       *)
(***************************************************************************)
LEMMA AwakeFacts ==
  ASSUME TypeOK
  PROVE  /\ awake \in [Thread -> {"idle", "checked", "waiting", "woken", "applying", "applied"}]
         /\ \A g \in Thread : pc[g] = "waiting" => awake[g] = "woken"
         /\ \A g \in Thread : pc[g] # "waiting" => awake[g] = pc[g]
  BY DEF awake, notified, TypeOK

(***************************************************************************)
(* A client ends its batch and returns; what was queued meanwhile is left  *)
(* to a job it adds.                                                       *)
(***************************************************************************)
LEMMA SyncAppliedInv ==
  ASSUME IInv, NEW c \in Client, SyncApplied(c)
  PROVE  IInv'
  <1> USE DEF IInv, effectVars, inputVars
  <1>0. /\ c \in Thread /\ c \notin Worker /\ pc[c] = "applied" /\ applyEnd(c)
        /\ batch' = [batch EXCEPT ![c] = {}]
        /\ UNCHANGED <<mTransactions, inputVars, effectVars>>
    BY TransactionBatchAssumption DEF SyncApplied, Thread
  <1>1. /\ mDispatchState = "running" /\ RunningThreads = {c}
        /\ \A g \in Thread : g # c => batch[g] = {}
        /\ mApplying' = transactionsOf(mTransactions)
        /\ \A d, e \in mTransactions : d.transaction = e.transaction => d = e
        /\ mApplying' \subseteq Tx /\ completed' \subseteq Client
        /\ \A d \in Client :
             pc[d] \in {"waiting", "woken"} =>
               d \in completed' \/ call[d].transaction \in mApplying'
        /\ call[c].transaction \notin mApplying'
    BY <1>0, ApplyEndFacts
  <1>2. pc' = [awake EXCEPT ![c] = "idle"] /\ call' = [call EXCEPT ![c] = NoCall]
    BY <1>1 DEF SyncApplied
  <1>3. /\ mTransactions # {} =>
             mDispatchState' = "scheduled" /\ jobs' = IF isStopping THEN jobs ELSE jobs + 1
        /\ mTransactions = {} => mDispatchState' = "none" /\ jobs' = jobs
    BY DEF SyncApplied, leftOver, addBatchJob
  <1>4. /\ pc'[c] = "idle" /\ call'[c] = NoCall
        /\ \A g \in Thread : g # c =>
             /\ pc[g] = "waiting" => pc'[g] = "woken"
             /\ pc[g] # "waiting" => pc'[g] = pc[g]
             /\ call'[g] = call[g]
    BY <1>0, <1>2, AwakeFacts DEF TypeOK
  <1>5. \A g \in Thread : batch'[g] = {}
    BY <1>0, <1>1 DEF TypeOK
  <1>6. RunningThreads' = {} /\ InFlight' = mTransactions
    <2>1. RunningThreads' = {}
      BY <1>1, <1>4 DEF RunningThreads
    <2>2. InFlight' = mTransactions
      BY <1>0, <1>5 DEF InFlight, TypeOK
    <2> QED
      BY <2>1, <2>2
  <1>7. TypeOK'
    <2>1. jobs' \in Nat
      BY <1>3 DEF TypeOK
    <2>2. mDispatchState' \in {"none", "scheduled", "running"}
      BY <1>3
    <2>3. pc' \in [Thread -> {"idle", "checked", "waiting", "woken", "applying", "applied"}]
      BY <1>2, AwakeFacts
    <2>4. call' \in [Thread -> TransactionStatus \cup {NoCall}]
      BY <1>2 DEF TypeOK
    <2>5. batch' \in [Thread -> SUBSET TransactionStatus]
      BY <1>0 DEF TypeOK
    <2> QED
      BY <1>0, <1>1, <2>1, <2>2, <2>3, <2>4, <2>5 DEF TypeOK
  <1>8. OneBatch'
    BY <1>3, <1>6 DEF OneBatch
  <1>9. ApplyingOnce'
    BY <1>0, <1>1, <1>5, <1>6 DEF ApplyingOnce
  <1>10. NothingStranded'
    BY <1>0, <1>3 DEF NothingStranded, TypeOK
  <1>11. ScheduledHasWork'
    BY <1>0, <1>3 DEF ScheduledHasWork
  <1>12. BatchOwners'
    <2>1. \A w \in Worker : pc'[w] = pc[w]
      BY <1>0, <1>4 DEF BatchOwners, Thread
    <2> QED
      BY <1>5, <2>1 DEF BatchOwners
  <1>13. CallsOpen'
    <2>1. ASSUME NEW d \in Client, d # c
          PROVE  /\ call'[d] = call[d] /\ d \notin RunningThreads
                 /\ pc[d] = "waiting" => pc'[d] = "woken"
                 /\ pc[d] # "waiting" => pc'[d] = pc[d]
      BY <1>1, <1>4, <2>1 DEF Thread
    <2> QED
      BY <1>1, <1>4, <2>1 DEF CallsOpen, RunningThreads, Thread
  <1> QED
    BY <1>7, <1>8, <1>9, <1>10, <1>11, <1>12, <1>13

(***************************************************************************)
(* A batch job ends a batch and goes on with the queue, if there is one.   *)
(***************************************************************************)
LEMMA BatchAppliedInv ==
  ASSUME IInv, NEW w \in Worker, BatchApplied(w)
  PROVE  IInv'
  <1> USE DEF IInv, effectVars, inputVars
  <1>0. /\ w \in Thread /\ w \notin Client /\ pc[w] = "applied" /\ applyEnd(w)
        /\ batch' = [batch EXCEPT ![w] = mTransactions] /\ mTransactions' = {}
        /\ UNCHANGED <<jobs, call, inputVars, effectVars>>
    BY TransactionBatchAssumption DEF BatchApplied, Thread
  <1>1. /\ mDispatchState = "running" /\ RunningThreads = {w}
        /\ \A g \in Thread : g # w => batch[g] = {}
        /\ mApplying' = transactionsOf(mTransactions)
        /\ \A d, e \in mTransactions : d.transaction = e.transaction => d = e
        /\ mApplying' \subseteq Tx /\ completed' \subseteq Client
        /\ \A d \in Client :
             pc[d] \in {"waiting", "woken"} =>
               d \in completed' \/ call[d].transaction \in mApplying'
    BY <1>0, ApplyEndFacts
  <1>2. pc' = [awake EXCEPT ![w] = IF mTransactions # {} THEN "applying" ELSE "idle"]
    BY DEF BatchApplied
  <1>3. /\ mTransactions # {} => mDispatchState' = "running" /\ pc'[w] = "applying"
        /\ mTransactions = {} => mDispatchState' = "none" /\ pc'[w] = "idle"
    BY <1>0, <1>2, AwakeFacts DEF BatchApplied
  <1>4. \A g \in Thread : g # w =>
             /\ pc[g] = "waiting" => pc'[g] = "woken"
             /\ pc[g] # "waiting" => pc'[g] = pc[g]
    BY <1>2, AwakeFacts
  <1>5. batch'[w] = mTransactions /\ \A g \in Thread : g # w => batch'[g] = {}
    BY <1>0, <1>1 DEF TypeOK
  <1>6. InFlight' = mTransactions
    BY <1>0, <1>5 DEF InFlight, TypeOK
  <1>7. /\ mTransactions # {} => RunningThreads' = {w}
        /\ mTransactions = {} => RunningThreads' = {}
    <2>1. \A g \in Thread : g # w => g \notin RunningThreads'
      BY <1>1, <1>4 DEF RunningThreads
    <2> QED
      BY <1>0, <1>3, <2>1 DEF RunningThreads
  <1>8. TypeOK'
    <2>1. mDispatchState' \in {"none", "scheduled", "running"}
      BY <1>3
    <2>2. pc' \in [Thread -> {"idle", "checked", "waiting", "woken", "applying", "applied"}]
      BY <1>2, AwakeFacts
    <2>3. batch' \in [Thread -> SUBSET TransactionStatus]
      BY <1>0 DEF TypeOK
    <2> QED
      BY <1>0, <1>1, <2>1, <2>2, <2>3 DEF TypeOK
  <1>9. OneBatch'
    BY <1>3, <1>5, <1>7 DEF OneBatch
  <1>10. ApplyingOnce'
    BY <1>0, <1>1, <1>6 DEF ApplyingOnce
  <1>11. NothingStranded' /\ ScheduledHasWork'
    BY <1>0, <1>3 DEF NothingStranded, ScheduledHasWork
  <1>12. BatchOwners'
    <2>1. \A g \in Thread : g \notin RunningThreads' => batch'[g] = {}
      BY <1>5, <1>7
    <2>2. \A v \in Worker : v # w => pc'[v] = pc[v]
      BY <1>4 DEF BatchOwners, Thread
    <2> QED
      BY <1>3, <2>1, <2>2 DEF BatchOwners
  <1>13. CallsOpen'
    <2>1. ASSUME NEW d \in Client
          PROVE  /\ d \notin RunningThreads
                 /\ pc[d] = "waiting" => pc'[d] = "woken"
                 /\ pc[d] # "waiting" => pc'[d] = pc[d]
      BY <1>0, <1>1, <1>4, <2>1 DEF Thread
    <2> QED
      BY <1>0, <1>1, <2>1 DEF CallsOpen, RunningThreads, Thread
  <1> QED
    BY <1>8, <1>9, <1>10, <1>11, <1>12, <1>13

(***************************************************************************)
(* Every step preserves the invariant.                                     *)
(***************************************************************************)
LEMMA BatchNext == IInv /\ [Next]_vars => IInv'
  <1> SUFFICES ASSUME IInv, [Next]_vars PROVE IInv'
    OBVIOUS
  <1>1. CASE UNCHANGED vars
    <2> USE <1>1 DEF IInv, vars
    <2>1. TypeOK'
      BY DEF TypeOK
    <2>2. OneBatch' /\ ApplyingOnce'
      BY DEF OneBatch, ApplyingOnce, RunningThreads, InFlight
    <2>3. NothingStranded' /\ ScheduledHasWork'
      BY DEF NothingStranded, ScheduledHasWork
    <2>4. BatchOwners' /\ CallsOpen'
      BY DEF BatchOwners, CallsOpen, RunningThreads
    <2> QED
      BY <2>1, <2>2, <2>3, <2>4
  <1>2. CASE Next
    BY <1>2, CheckInv, AsyncInv, SyncInv, JobInv, ProcessInv, SyncAppliedInv,
       BatchAppliedInv DEF Next
  <1> QED
    BY <1>1, <1>2

(***************************************************************************)
(* The invariant holds in every reachable state, whatever the fairness.    *)
(***************************************************************************)
THEOREM BatchInvariance == Spec => []IInv
  BY BatchInit, BatchNext, PTL DEF Spec

(***************************************************************************)
(* At most one batch is applied at a time, while mDispatchState says so,   *)
(* and never an empty one: the asserts of apply cannot fail.               *)
(***************************************************************************)
THEOREM OneBatchHolds == Spec => []OneBatch
  <1>1. IInv => OneBatch
    BY DEF IInv
  <1> QED
    BY <1>1, BatchInvariance, PTL

(***************************************************************************)
(* Transaction::mApplying marks exactly what is queued or in the batch,    *)
(* and each transaction is there once.                                     *)
(***************************************************************************)
THEOREM ApplyingOnceHolds == Spec => []ApplyingOnce
  <1>1. IInv => ApplyingOnce
    BY DEF IInv
  <1> QED
    BY <1>1, BatchInvariance, PTL

(***************************************************************************)
(* No transaction stays in the queue without a batch or a job to take it,  *)
(* unless the server stops.                                                *)
(***************************************************************************)
THEOREM NothingStrandedHolds == Spec => []NothingStranded
  <1>1. IInv => NothingStranded
    BY DEF IInv
  <1> QED
    BY <1>1, BatchInvariance, PTL

(***************************************************************************)
(* doTransactionSync returns only after a batch with the transaction was   *)
(* applied since the call: a client in its loop whose transaction is no    *)
(* longer marked was answered (CallsOpen), and one that ends a batch of    *)
(* its own was in it.                                                      *)
(***************************************************************************)
THEOREM SyncReturnsWithResult == Spec => ReturnsWithResult
  <1> DEFINE Answered ==
        \A c \in Client : pc[c] # "idle" /\ pc'[c] = "idle" => c \in completed'
  <1>1. IInv /\ [Next]_vars => [Answered]_vars
    <2> SUFFICES ASSUME IInv, Next, NEW c \in Client, pc[c] # "idle", pc'[c] = "idle"
                 PROVE  c \in completed'
      OBVIOUS
    <2> USE DEF IInv
    <2>0. c \in Thread /\ pc \in [Thread -> {"idle", "checked", "waiting", "woken", "applying", "applied"}]
      BY DEF Thread, TypeOK
    <2>1. ASSUME NEW d \in Client, NEW x \in Tx, NEW failHard \in BOOLEAN,
                 processTransactionLocal(d, x, failHard)
          PROVE  FALSE
      BY <2>0, <2>1 DEF processTransactionLocal, Thread
    <2>2. ASSUME NEW d \in Client, doTransactionSync(d)
          PROVE  FALSE
      BY <2>0, <2>2 DEF doTransactionSync, syncLoop, applyBegin, Thread
    <2>3. ASSUME NEW d \in Client, SyncWake(d)
          PROVE  c \in completed'
      <3>1. d = c /\ ~mustWait(c)
        BY <2>0, <2>3 DEF SyncWake, syncLoop, applyBegin, syncReturn, Thread
      <3> QED
        BY <2>3, <3>1 DEF SyncWake, mustWait, CallsOpen
    <2>4. ASSUME NEW d \in Client, SyncApplied(d)
          PROVE  c \in completed'
      <3>1. d \in Thread /\ awake[c] # "idle"
        BY <2>0, AwakeFacts DEF Thread
      <3>2. c = d
        BY <2>0, <2>4, <3>1, AwakeFacts DEF SyncApplied
      <3> QED
        BY <2>4, <3>1, <3>2, ApplyEndFacts DEF SyncApplied
    <2>5. ASSUME NEW x \in Tx, processTransactionPeer(x) \/ doTransactionAsync(x)
          PROVE  FALSE
      BY <2>5 DEF processTransactionPeer, doTransactionAsync, threadVars
    <2>6. ASSUME NEW w \in Worker, transactionBatch(w)
          PROVE  FALSE
      BY <2>0, <2>6 DEF transactionBatch, applyBegin, Thread
    <2>7. ASSUME NEW w \in Worker, BatchApplied(w)
          PROVE  FALSE
      <3>1. c # w /\ awake[c] # "idle"
        BY <2>0, AwakeFacts, TransactionBatchAssumption DEF Thread
      <3> QED
        BY <2>0, <2>7, <3>1, AwakeFacts DEF BatchApplied
    <2>8. ASSUME NEW h \in Thread, Process(h)
          PROVE  FALSE
      BY <2>0, <2>8 DEF Process, applyProcess
    <2>9. ASSUME StopAsync
          PROVE  FALSE
      BY <2>9 DEF StopAsync, threadVars
    <2> QED
      BY <2>1, <2>2, <2>3, <2>4, <2>5, <2>6, <2>7, <2>8, <2>9 DEF Next
  <1> QED
    BY <1>1, BatchInvariance, PTL DEF Spec, ReturnsWithResult

-----------------------------------------------------------------------------
(***************************************************************************)
(* A strict order on a finite set has a maximal element, by the smallest   *)
(* subset that has none; so a finite set of naturals has a greatest.       *)
(***************************************************************************)
LEMMA LeastNatural ==
  ASSUME NEW T \in SUBSET Nat, T # {}
  PROVE  \E x \in T : \A y \in T : x <= y
<1>1. PICK x \in T : \A y \in T : ~(<<y, x>> \in OpToRel(<, Nat))
  BY WFMin, NatLessThanWellFounded
<1>2. \A y \in T : <<y, x>> \in OpToRel(<, Nat) <=> y < x
  BY DEF OpToRel
<1>3. \A y \in T : ~(y < x)
  BY <1>1, <1>2, Zenon
<1> QED
  BY <1>3

HasNoMaximal(S, R) == \A x \in S : \E y \in S : <<y, x>> \in R

LEMMA FiniteHasMaximal ==
  ASSUME NEW D, IsFiniteSet(D), D # {}, NEW R,
         \A x \in D : <<x, x>> \notin R,
         \A x, y, z \in D : <<x, y>> \in R /\ <<y, z>> \in R => <<x, z>> \in R
  PROVE  \E x \in D : \A y \in D : <<y, x>> \notin R
<1> DEFINE Fails(n) == \E S \in SUBSET D : S # {} /\ Cardinality(S) = n /\ HasNoMaximal(S, R)
           sizes == {n \in Nat : Fails(n)}
<1> SUFFICES ASSUME HasNoMaximal(D, R) PROVE FALSE
  BY DEF HasNoMaximal
<1>1. Cardinality(D) \in sizes
  BY FS_CardinalityType
<1>2. PICK n \in sizes : \A m \in sizes : n <= m
  <2>1. sizes \in SUBSET Nat /\ sizes # {}
    BY <1>1
  <2> HIDE DEF sizes
  <2> QED
    BY <2>1, LeastNatural
<1>3. PICK S \in SUBSET D : S # {} /\ Cardinality(S) = n /\ HasNoMaximal(S, R)
  BY <1>2
<1>4. PICK x \in S : TRUE
  BY <1>3
<1> DEFINE U == S \ {x}
<1>5. IsFiniteSet(S)
  BY <1>3, FS_Subset
<1>6. U \in SUBSET D /\ Cardinality(U) = n - 1 /\ n - 1 \in Nat
  <2>1. IsFiniteSet(U) /\ Cardinality(U) = Cardinality(S) - 1
    BY <1>4, <1>5, FS_RemoveElement
  <2>2. Cardinality(U) \in Nat
    BY <2>1, FS_CardinalityType
  <2> QED
    BY <1>3, <2>1, <2>2
<1>7. PICK y \in S : <<y, x>> \in R
  BY <1>3, <1>4 DEF HasNoMaximal
<1>8. y \in U
  BY <1>3, <1>4, <1>7
<1>9. ~HasNoMaximal(U, R)
  <2>1. n - 1 \notin sizes
    BY <1>2
  <2> QED
    BY <1>6, <1>8, <2>1
<1>10. PICK m \in U : \A z \in U : <<z, m>> \notin R
  BY <1>9 DEF HasNoMaximal
<1>11. PICK z \in S : <<z, m>> \in R
  BY <1>3, <1>10 DEF HasNoMaximal
<1>12. z = x
  BY <1>10, <1>11
<1>13. <<y, m>> \in R
  BY <1>3, <1>4, <1>7, <1>10, <1>11, <1>12
<1> QED
  BY <1>8, <1>10, <1>13

LEMMA FiniteHasGreatest ==
  ASSUME NEW S \in SUBSET Nat, IsFiniteSet(S), S # {}
  PROVE  \E x \in S : \A y \in S : x >= y
<1> DEFINE R == {e \in S \X S : e[1] > e[2]}
<1>1. \A x, y \in S : <<x, y>> \in R <=> x > y
  OBVIOUS
<1> HIDE DEF R
<1>2. \A x \in S : <<x, x>> \notin R
  BY <1>1
<1>3. \A x, y, z \in S : <<x, y>> \in R /\ <<y, z>> \in R => <<x, z>> \in R
  BY <1>1
<1>4. PICK x \in S : \A y \in S : <<y, x>> \notin R
  BY <1>2, <1>3, FiniteHasMaximal
<1>5. \A y \in S : ~(y > x)
  BY <1>1, <1>4
<1>6. \A y \in S : x >= y
  BY <1>5
<1> QED
  BY <1>6

LEMMA HighestIsIn ==
  ASSUME NEW S \in SUBSET Nat, IsFiniteSet(S)
  PROVE  highest(S) \in Nat /\ (S # {} => highest(S) \in S)
<1>1. CASE S = {}
  BY <1>1 DEF highest
<1>2. CASE S # {}
  BY <1>2, FiniteHasGreatest DEF highest, Max
<1> QED
  BY <1>1, <1>2

LEMMA ImageFinite ==
  ASSUME NEW S, IsFiniteSet(S), NEW f, f = [x \in S |-> f[x]]
  PROVE  IsFiniteSet({f[x] : x \in S})
<1> DEFINE T == {f[x] : x \in S}
<1>1. f \in [S -> T] /\ \A t \in T : \E s \in S : f[s] = t
  OBVIOUS
<1> HIDE DEF T
<1>2. f \in Surjection(S, T)
  BY <1>1 DEF Surjection
<1>3. IsFiniteSet(T)
  BY <1>2, FS_Surjection
<1> QED
  BY <1>3 DEF T

(***************************************************************************)
(* checkLastClosedLedger.  The validators and the nodes that count for two *)
(* ledgers are different ones, and every ledger but the closed one has     *)
(* some; so the order of ValidationCount tells any two ledgers apart.      *)
(***************************************************************************)
trustedOf(s, l) == validatorsOf(l, s.closed, Parent[s.closed])

usingOf(s, l) ==
  {p \in connected : s.peerLedger[p] = l} \cup
  {n \in {OurNode} : l = s.closed /\ s.mMode >= omTRACKING}

Counted ==
  /\ connected \subseteq Peer
  /\ validation \in [Validator -> [ledger : MaybeLedger, previous : MaybeLedger]]

LEMMA CountsAreApart ==
  ASSUME Counted, NEW s \in NetworkOPs, NEW l, NEW m, l # m
  PROVE  trustedOf(s, l) \cap trustedOf(s, m) = {} /\ usingOf(s, l) \cap usingOf(s, m) = {}
<1>1. trustedOf(s, l) \cap trustedOf(s, m) = {}
  BY DEF trustedOf, validatorsOf
<1>2. usingOf(s, l) \cap usingOf(s, m) = {}
  <2>1. OurNode \notin connected
    BY OperatingModeAssumption DEF Counted
  <2> QED
    BY <2>1 DEF usingOf
<1> QED
  BY <1>1, <1>2

LEMMA CountsAreFinite ==
  ASSUME Counted, NEW s, NEW l
  PROVE  /\ trustedOf(s, l) \in SUBSET Nat /\ IsFiniteSet(trustedOf(s, l))
         /\ usingOf(s, l) \in SUBSET Nat /\ IsFiniteSet(usingOf(s, l))
<1>1. /\ IsFiniteSet(Peer) /\ IsFiniteSet(Validator) /\ connected \subseteq Peer
      /\ Peer \subseteq Nat /\ Validator \subseteq Nat /\ OurNode \in Nat
  BY OperatingModeAssumption DEF Counted
<1>2. trustedOf(s, l) \subseteq Validator
  BY DEF trustedOf, validatorsOf
<1>3. usingOf(s, l) \subseteq Peer \cup {OurNode}
  BY <1>1 DEF usingOf
<1>4. IsFiniteSet(Peer \cup {OurNode})
  BY <1>1, FS_AddElement
<1>5. IsFiniteSet(trustedOf(s, l)) /\ IsFiniteSet(usingOf(s, l))
  BY <1>1, <1>2, <1>3, <1>4, FS_Subset
<1> QED
  BY <1>1, <1>2, <1>3, <1>5

CountRecord ==
  [trustedValidations : Nat, nodesUsing : Nat, highNodeUsing : Nat, highValidation : Nat]

LEMMA CountFields ==
  ASSUME Counted, NEW s, NEW l
  PROVE  /\ validationCount(s, l) \in CountRecord
         /\ validationCount(s, l).trustedValidations = Cardinality(trustedOf(s, l))
         /\ validationCount(s, l).nodesUsing = Cardinality(usingOf(s, l))
         /\ validationCount(s, l).highNodeUsing = highest(usingOf(s, l))
         /\ validationCount(s, l).highValidation = highest(trustedOf(s, l))
<1>1. validationCount(s, l) =
        [trustedValidations |-> Cardinality(trustedOf(s, l)),
         nodesUsing |-> Cardinality(usingOf(s, l)),
         highNodeUsing |-> highest(usingOf(s, l)),
         highValidation |-> highest(trustedOf(s, l))]
  BY DEF validationCount, trustedOf, usingOf
<1>2. /\ Cardinality(trustedOf(s, l)) \in Nat /\ Cardinality(usingOf(s, l)) \in Nat
      /\ highest(usingOf(s, l)) \in Nat /\ highest(trustedOf(s, l)) \in Nat
  BY CountsAreFinite, HighestIsIn, FS_CardinalityType
<1> QED
  BY <1>1, <1>2 DEF CountRecord

LEMMA GreaterIsStrict ==
  ASSUME NEW a \in CountRecord, NEW b \in CountRecord, NEW c \in CountRecord
  PROVE  /\ ~greater(a, a)
         /\ greater(a, b) /\ greater(b, c) => greater(a, c)
  BY DEF greater, CountRecord

LEMMA GreaterTellsApart ==
  ASSUME Counted, NEW s \in NetworkOPs, NEW l \in ledgers(s),
         NEW m \in ledgers(s), l # m
  PROVE  \/ greater(validationCount(s, l), validationCount(s, m))
         \/ greater(validationCount(s, m), validationCount(s, l))
<1> DEFINE a == validationCount(s, l)
           b == validationCount(s, m)
<1>1. a \in CountRecord /\ b \in CountRecord
  BY CountFields
<1>2. a.trustedValidations > 0 /\ b.trustedValidations > 0 => a.highValidation # b.highValidation
  <2> SUFFICES ASSUME a.trustedValidations > 0, b.trustedValidations > 0
               PROVE  a.highValidation # b.highValidation
    OBVIOUS
  <2>1. trustedOf(s, l) # {} /\ trustedOf(s, m) # {}
    BY CountFields, CountsAreFinite, FS_EmptySet
  <2>2. a.highValidation \in trustedOf(s, l) /\ b.highValidation \in trustedOf(s, m)
    BY <2>1, CountFields, CountsAreFinite, HighestIsIn
  <2> QED
    BY <2>2, CountsAreApart
<1>3. a.nodesUsing > 0 /\ b.nodesUsing > 0 => a.highNodeUsing # b.highNodeUsing
  <2> SUFFICES ASSUME a.nodesUsing > 0, b.nodesUsing > 0
               PROVE  a.highNodeUsing # b.highNodeUsing
    OBVIOUS
  <2>1. usingOf(s, l) # {} /\ usingOf(s, m) # {}
    BY CountFields, CountsAreFinite, FS_EmptySet
  <2>2. a.highNodeUsing \in usingOf(s, l) /\ b.highNodeUsing \in usingOf(s, m)
    BY <2>1, CountFields, CountsAreFinite, HighestIsIn
  <2> QED
    BY <2>2, CountsAreApart
<1>4. \A k \in ledgers(s) : k # s.closed => trustedOf(s, k) # {} \/ usingOf(s, k) # {}
  BY DEF ledgers, validated, trustedOf, validatorsOf, usingOf
<1>5. \A k \in ledgers(s) : k # s.closed =>
        \/ validationCount(s, k).trustedValidations > 0
        \/ validationCount(s, k).nodesUsing > 0
  <2> SUFFICES ASSUME NEW k \in ledgers(s), k # s.closed
               PROVE  \/ validationCount(s, k).trustedValidations > 0
                      \/ validationCount(s, k).nodesUsing > 0
    OBVIOUS
  <2>1. \A S : IsFiniteSet(S) /\ S # {} => Cardinality(S) > 0
    BY FS_EmptySet, FS_CardinalityType
  <2> QED
    BY <1>4, <2>1, CountFields, CountsAreFinite
<1>6. a.trustedValidations > 0 \/ a.nodesUsing > 0 \/ b.trustedValidations > 0 \/ b.nodesUsing > 0
  <2>1. l # s.closed \/ m # s.closed
    OBVIOUS
  <2> QED
    BY <1>5, <2>1
<1> HIDE DEF a, b
<1>7. greater(a, b) \/ greater(b, a)
  BY <1>1, <1>2, <1>3, <1>6 DEF greater, CountRecord
<1> QED
  BY <1>7 DEF a, b

LEMMA LedgersAreFinite ==
  ASSUME Counted, NEW s \in NetworkOPs
  PROVE  IsFiniteSet(ledgers(s)) /\ ledgers(s) \in SUBSET Ledger /\ ledgers(s) # {}
<1> DEFINE V == {u \in Validator : validation[u].ledger # NoLedger}
           f == [v \in V |-> countsFor(v, s.closed, Parent[s.closed])]
           P == {q \in connected : s.peerLedger[q] # NoLedger}
           g == [p \in P |-> s.peerLedger[p]]
<1>1. IsFiniteSet(V) /\ IsFiniteSet(P)
  <2>1. IsFiniteSet(Peer) /\ IsFiniteSet(Validator) /\ connected \subseteq Peer
    BY OperatingModeAssumption DEF Counted
  <2>2. V \subseteq Validator /\ P \subseteq Peer
    BY <2>1
  <2> QED
    BY <2>1, <2>2, FS_Subset
<1>2. IsFiniteSet({f[v] : v \in V}) /\ IsFiniteSet({g[p] : p \in P})
  <2>1. f = [v \in V |-> f[v]] /\ g = [p \in P |-> g[p]]
    OBVIOUS
  <2> HIDE DEF f, g, V, P
  <2> QED
    BY <1>1, <2>1, ImageFinite
<1>3. ledgers(s) = {s.closed} \cup {f[v] : v \in V} \cup {g[p] : p \in P}
  BY DEF ledgers, validated
<1>4. IsFiniteSet(ledgers(s))
  <2>1. IsFiniteSet({s.closed})
    BY FS_Singleton
  <2> HIDE DEF f, g, V, P
  <2> QED
    BY <1>2, <1>3, <2>1, FS_Union
<1>5. \A v \in V : f[v] \in Ledger
  BY DEF Counted, countsFor, MaybeLedger, NetworkOPs
<1>6. \A p \in P : g[p] \in Ledger
  BY DEF Counted, MaybeLedger, NetworkOPs
<1>7. s.closed \in Ledger
  BY DEF NetworkOPs
<1> HIDE DEF f, g, V, P
<1> QED
  BY <1>3, <1>4, <1>5, <1>6, <1>7

LEMMA OneBest ==
  ASSUME Counted, NEW s \in NetworkOPs
  PROVE  \E l \in Ledger : bestLedgers(s) = {l}
<1> DEFINE D == ledgers(s)
           R == {e \in D \X D :
                   greater(validationCount(s, e[1]), validationCount(s, e[2]))}
<1>1. \A x, y \in D : <<x, y>> \in R <=>
        greater(validationCount(s, x), validationCount(s, y))
  OBVIOUS
<1>2. bestLedgers(s) = {l \in D : \A m \in D : <<m, l>> \notin R}
  BY <1>1 DEF bestLedgers, maximal
<1> HIDE DEF R
<1>3. \A x \in D : <<x, x>> \notin R
  BY <1>1, CountFields, GreaterIsStrict
<1>4. \A x, y, z \in D : <<x, y>> \in R /\ <<y, z>> \in R => <<x, z>> \in R
  BY <1>1, CountFields, GreaterIsStrict
<1>5. \A x, y \in D : x # y => <<x, y>> \in R \/ <<y, x>> \in R
  BY <1>1, GreaterTellsApart
<1>6. IsFiniteSet(D) /\ D # {} /\ D \in SUBSET Ledger
  BY LedgersAreFinite
<1> HIDE DEF D
<1>7. PICK x \in D : \A y \in D : <<y, x>> \notin R
  BY <1>3, <1>4, <1>6, FiniteHasMaximal
<1>8. bestLedgers(s) = {x}
  BY <1>2, <1>5, <1>7
<1> QED
  BY <1>6, <1>7, <1>8

(***************************************************************************)
(* What a handler makes of the state s of NetworkOPs: in omFULL a round    *)
(* has the right ledger and knows it, and nobody becomes FULL while        *)
(* blocked.  The ledgers move only between rounds, the open and the closed *)
(* one together.                                                           *)
(***************************************************************************)
InSync(s) ==
  inRound(s) /\ s.mMode = omFULL =>
    s.round.mPreviousLedger = s.round.mPrevLedgerHash /\ s.round.mHaveCorrectLCL

Handled(s, t) ==
  /\ t \in NetworkOPs /\ InSync(t)
  /\ t.m_amendmentBlocked = s.m_amendmentBlocked
  /\ t.mMode = omFULL => s.mMode = omFULL \/ ~s.m_amendmentBlocked

SameLedgers(s, t) == t.open = s.open /\ t.closed = s.closed /\ t.have = s.have

Input == [fresh : BOOLEAN, recent : BOOLEAN, compatible : BOOLEAN, enough : BOOLEAN,
          behind : BOOLEAN, agree : BOOLEAN, tie : MaybeLedger]

LEMMA HandledTwice ==
  ASSUME NEW s, NEW t, NEW u, Handled(s, t), Handled(t, u)
  PROVE  Handled(s, u)
  BY DEF Handled

LEMMA Modes ==
  /\ omDISCONNECTED = 0 /\ omCONNECTED = 1 /\ omSYNCING = 2
  /\ omTRACKING = 3 /\ omFULL = 4
  BY DEF omDISCONNECTED, omCONNECTED, omSYNCING, omTRACKING, omFULL

ModeSet(s, om, t) ==
  /\ t \in NetworkOPs /\ t.round = s.round /\ SameLedgers(s, t)
  /\ t.m_amendmentBlocked = s.m_amendmentBlocked
  /\ t.mMode = 4 => om = 4 /\ ~s.m_amendmentBlocked
  /\ om \in {1, 2} => t.mMode < 3

LEMMA SetsMode ==
  ASSUME NEW s \in NetworkOPs, NEW fresh \in BOOLEAN
  PROVE  \A om \in {0, 1, 2, 3, 4} : ModeSet(s, om, setMode(s, om, fresh))
  BY Modes DEF setMode, NetworkOPs, SameLedgers, ModeSet

LEMMA ViewLost ==
  ASSUME NEW s \in NetworkOPs, NEW fresh \in BOOLEAN
  PROVE  LET t == viewLost(s, fresh)
         IN /\ t \in NetworkOPs /\ t.round = s.round /\ SameLedgers(s, t)
            /\ t.m_amendmentBlocked = s.m_amendmentBlocked /\ t.mMode < 3
<1>1. CASE s.mMode \in {3, 4}
  <2>1. viewLost(s, fresh) = setMode(s, 1, fresh)
    BY <1>1, Modes DEF viewLost
  <2>2. ModeSet(s, 1, viewLost(s, fresh))
    BY <2>1, SetsMode
  <2> QED
    BY <2>2 DEF ModeSet
<1>2. CASE s.mMode \notin {3, 4}
  BY <1>2, Modes DEF viewLost, NetworkOPs, SameLedgers
<1> QED
  BY <1>1, <1>2

(***************************************************************************)
(* The round's view of the last closed ledger.                             *)
(***************************************************************************)
LEMMA HandlesLCL ==
  ASSUME NEW r \in Round, NEW have, NEW l \in MaybeLedger
  PROVE  handleLCL(r, have, l) \in Round /\ handleLCL(r, have, l).state = r.state
  BY DEF handleLCL, Round

LEMMA PreferredIsLedger ==
  ASSUME Counted, NEW r \in Round, NEW tie
  PROVE  getPreferredLCL(r, tie) \in MaybeLedger
<1> DEFINE prior == IF r.mHaveCorrectLCL THEN Parent[r.mPreviousLedger] ELSE NoLedger
           own == r.mPrevLedgerHash
           V == {u \in Validator : validation[u].ledger # NoLedger}
           f == [v \in V |-> countsFor(v, own, prior)]
           D == {f[v] : v \in V}
           count == [l \in D |-> Cardinality(validatorsOf(l, own, prior))]
           most == {l \in D : \A m \in D : count[m] <= count[l]}
<1>1. own \in MaybeLedger
  BY DEF Round
<1>2. D \subseteq MaybeLedger
  BY <1>1 DEF Counted, countsFor
<1>3. validated(own, prior) = D
  BY DEF validated
<1>4. IsFiniteSet(Validator)
  BY OperatingModeAssumption DEF Counted
<1>5. IsFiniteSet(D)
  <2>1. IsFiniteSet(V)
    BY <1>4, FS_Subset
  <2>2. f = [v \in V |-> f[v]]
    OBVIOUS
  <2> HIDE DEF V, f
  <2> QED
    BY <2>1, <2>2, ImageFinite
<1>6. \A l \in D : count[l] \in Nat
  <2> SUFFICES ASSUME NEW l \in D PROVE Cardinality(validatorsOf(l, own, prior)) \in Nat
    OBVIOUS
  <2>1. validatorsOf(l, own, prior) \subseteq Validator
    BY DEF validatorsOf
  <2> HIDE DEF own, prior
  <2> QED
    BY <1>4, <2>1, FS_Subset, FS_CardinalityType
<1>7. D # {} => most # {}
  <2> SUFFICES ASSUME D # {} PROVE most # {}
    OBVIOUS
  <2> DEFINE R == {e \in D \X D : count[e[1]] > count[e[2]]}
  <2> HIDE DEF D, count
  <2>1. \A x, y \in D : <<x, y>> \in R <=> count[x] > count[y]
    OBVIOUS
  <2> HIDE DEF R
  <2>2. \A x \in D : <<x, x>> \notin R
    BY <1>6, <2>1
  <2>3. \A x, y, z \in D : <<x, y>> \in R /\ <<y, z>> \in R => <<x, z>> \in R
    BY <1>6, <2>1
  <2>4. PICK x \in D : \A y \in D : <<y, x>> \notin R
    BY <1>5, <2>2, <2>3, FiniteHasMaximal
  <2>5. \A y \in D : ~(count[y] > count[x])
    BY <2>1, <2>4
  <2>6. \A y \in D : count[y] <= count[x]
    BY <1>6, <2>5
  <2> QED
    BY <2>6
<1>8. preferredLCLs(r, prior) = IF D = {} \/ own \in most THEN {own} ELSE most
  BY <1>3 DEF preferredLCLs, mostValidated
<1>9. getPreferredLCL(r, tie) = firstOf(preferredLCLs(r, prior), tie)
  BY DEF getPreferredLCL
<1>10. most \subseteq D
  OBVIOUS
<1> HIDE DEF D, most, own, prior
<1> QED
  BY <1>1, <1>2, <1>7, <1>8, <1>9, <1>10 DEF firstOf

(***************************************************************************)
(* A round in omFULL that finds another ledger preferred loses the mode in *)
(* the same step.                                                          *)
(***************************************************************************)
LEMMA ComparesLCL ==
  ASSUME NEW s \in NetworkOPs, InSync(s), inRound(s),
         NEW net \in MaybeLedger, NEW in \in Input
  PROVE  LET t == compareLCL(s, net, in)
         IN Handled(s, t) /\ SameLedgers(s, t) /\ t.round.state = s.round.state
<1> DEFINE t == compareLCL(s, net, in)
<1>1. CASE net = s.round.mPrevLedgerHash /\ s.round.mPreviousLedger = net
  BY <1>1 DEF compareLCL, Handled, SameLedgers
<1>2. CASE ~(net = s.round.mPrevLedgerHash /\ s.round.mPreviousLedger = net)
  <2> DEFINE lost == net # s.round.mPrevLedgerHash /\ s.round.mHaveCorrectLCL
             u == IF lost THEN viewLost(s, in.fresh) ELSE s
             r == handleLCL(s.round, s.have, net)
  <2>1. t = [u EXCEPT !.round = r]
    BY <1>2 DEF compareLCL, consensusViewChange
  <2>2. r \in Round /\ r.state = s.round.state
    BY HandlesLCL DEF NetworkOPs
  <2>3. in.fresh \in BOOLEAN
    BY DEF Input
  <2>4. /\ u \in NetworkOPs /\ SameLedgers(s, u)
        /\ u.m_amendmentBlocked = s.m_amendmentBlocked
        /\ lost => u.mMode < 3
        /\ ~lost => u = s
    BY <2>3, ViewLost DEF SameLedgers
  <2>5. u.mMode # 4
    <3>1. CASE lost
      BY <2>4, <3>1
    <3>2. CASE ~lost
      BY <1>2, <2>4, <3>2, Modes DEF InSync
    <3> QED
      BY <3>1, <3>2
  <2> HIDE DEF u, r, lost
  <2>6. /\ t \in NetworkOPs /\ t.mMode = u.mMode /\ t.round = r
        /\ t.m_amendmentBlocked = u.m_amendmentBlocked /\ SameLedgers(u, t)
    BY <2>1, <2>2, <2>4 DEF NetworkOPs, SameLedgers
  <2> HIDE DEF t
  <2> QED
    BY <2>2, <2>4, <2>5, <2>6, Modes DEF Handled, InSync, SameLedgers, t
<1> QED
  BY <1>1, <1>2

LEMMA ChecksLCL ==
  ASSUME Counted, NEW s \in NetworkOPs, InSync(s), inRound(s), NEW in \in Input
  PROVE  LET t == checkLCL(s, in)
         IN Handled(s, t) /\ SameLedgers(s, t) /\ t.round.state = s.round.state
<1>1. s.round \in Round
  BY DEF NetworkOPs
<1> QED
  BY <1>1, PreferredIsLedger, ComparesLCL DEF checkLCL

(***************************************************************************)
(* The timer of a round: it moves the round's state forward, finishes it   *)
(* only when no accept job runs, and leaves a finished round alone.        *)
(***************************************************************************)
Ticks(s, t) ==
  /\ Handled(s, t) /\ SameLedgers(s, t)
  /\ t.round.state = "finished" =>
       s.round.state = "finished" \/ (s.round.state = "establish" /\ accept = "idle")
  /\ s.round.state = "finished" => t.round = s.round

LEMMA TimerTicks ==
  ASSUME Counted, NEW s \in NetworkOPs, InSync(s), inRound(s), NEW in \in Input
  PROVE  Ticks(s, timerEntry(s, in))
<1>1. s.round.state \in {"open", "establish", "finished", "accepted"}
  BY DEF inRound, NetworkOPs, Round
<1>2. CASE s.round.state \in {"open", "establish"}
  <2> DEFINE u == checkLCL(s, in)
             t == timerState(u, in)
  <2>1. timerEntry(s, in) = t
    BY <1>2 DEF timerEntry
  <2>2. Handled(s, u) /\ SameLedgers(s, u) /\ u.round.state = s.round.state
    BY ChecksLCL
  <2> HIDE DEF u
  <2>3. \/ t = u
        \/ t = [u EXCEPT !.round.state = "establish"]
        \/ t = [u EXCEPT !.round.state = "finished"] /\ u.round.state # "open" /\ accept = "idle"
    BY DEF timerState, statePreClose, stateEstablish
  <2> HIDE DEF t
  <2>4. u \in NetworkOPs
    BY <2>2 DEF Handled
  <2>5. /\ t \in NetworkOPs /\ t.mMode = u.mMode /\ SameLedgers(u, t)
        /\ t.m_amendmentBlocked = u.m_amendmentBlocked
        /\ t.round.mPreviousLedger = u.round.mPreviousLedger
        /\ t.round.mPrevLedgerHash = u.round.mPrevLedgerHash
        /\ t.round.mHaveCorrectLCL = u.round.mHaveCorrectLCL
    BY <2>3, <2>4 DEF NetworkOPs, Round, SameLedgers
  <2>6. t.round.state = "finished" => s.round.state = "establish" /\ accept = "idle"
    BY <1>2, <2>2, <2>3, <2>4 DEF NetworkOPs, Round
  <2>7. inRound(u)
    BY <1>2, <2>2 DEF inRound
  <2> QED
    BY <1>2, <2>1, <2>2, <2>5, <2>6, <2>7 DEF Ticks, Handled, InSync, SameLedgers
<1>3. CASE s.round.state = "finished"
  BY <1>3 DEF timerEntry, Ticks, Handled, SameLedgers
<1>4. CASE s.round.state = "accepted"
  <2> DEFINE t == endConsensus(s)
  <2>1. timerEntry(s, in) = t
    BY <1>4 DEF timerEntry
  <2>2. NoRound \in Round /\ NoRound.state = "none"
    BY DEF NoRound, Round, MaybeLedger
  <2>3. /\ t \in NetworkOPs /\ t.round = NoRound /\ t.mMode = s.mMode
        /\ t.m_amendmentBlocked = s.m_amendmentBlocked /\ SameLedgers(s, t)
    BY <2>2 DEF endConsensus, NetworkOPs, SameLedgers, MaybeLedger
  <2> QED
    BY <1>4, <2>1, <2>2, <2>3 DEF Ticks, Handled, InSync, inRound
<1> QED
  BY <1>1, <1>2, <1>3, <1>4

(***************************************************************************)
(* beginConsensus, in omFULL on the network's ledger only: the new round   *)
(* is in sync.                                                             *)
(***************************************************************************)
LEMMA BeginsInSync ==
  ASSUME Counted, NEW s \in NetworkOPs, ~inRound(s), NEW net \in Ledger,
         NEW in \in Input, s.mMode = omFULL => s.open = net
  PROVE  LET t == beginConsensus(s, net, in)
         IN Handled(s, t) /\ SameLedgers(s, t) /\ t.round.state # "finished"
<1>1. CASE s.open \in s.have
  <2> DEFINE n == newRound(s, net)
             r == LedgerConsensusImp(n, s.have)
             u == [s EXCEPT !.round = r]
  <2>1. net \in MaybeLedger /\ s.open \in MaybeLedger
    BY DEF MaybeLedger, NetworkOPs
  <2>2. /\ n \in Round /\ n.state = "open"
        /\ n.mPreviousLedger = s.open /\ n.mPrevLedgerHash = net
        /\ n.mHaveCorrectLCL = (s.open = net)
    BY <2>1 DEF newRound, NoRound, Round, MaybeLedger
  <2> HIDE DEF n
  <2>3. r \in Round /\ r.state = "open" /\ (s.open = net => r = n)
    BY <2>1, <2>2, HandlesLCL DEF LedgerConsensusImp
  <2> HIDE DEF r
  <2>4. /\ u \in NetworkOPs /\ u.round = r /\ u.mMode = s.mMode
        /\ u.m_amendmentBlocked = s.m_amendmentBlocked /\ SameLedgers(s, u)
    BY <2>3 DEF NetworkOPs, SameLedgers
  <2> DEFINE t == started(u, in)
  <2>5. beginConsensus(s, net, in) = t
    BY <1>1 DEF beginConsensus, r, n
  <2> HIDE DEF u
  <2>6. InSync(u) /\ inRound(u) /\ Handled(s, u)
    BY <2>2, <2>3, <2>4 DEF InSync, inRound, Handled
  <2>7. t = u \/ t = timerEntry(u, in)
    BY DEF started
  <2>8. Ticks(u, timerEntry(u, in))
    BY <2>4, <2>6, TimerTicks
  <2> HIDE DEF t
  <2>9. Handled(u, t) /\ SameLedgers(u, t) /\ t.round.state # "finished"
    BY <2>3, <2>4, <2>6, <2>7, <2>8 DEF Ticks, Handled, SameLedgers
  <2>10. Handled(s, t)
    BY <2>6, <2>9, HandledTwice
  <2> QED
    BY <2>4, <2>5, <2>9, <2>10 DEF SameLedgers
<1>2. CASE s.open \notin s.have
  <2> DEFINE t == IF s.mMode = omFULL THEN setMode(s, omTRACKING, in.fresh) ELSE s
  <2>1. beginConsensus(s, net, in) = t
    BY <1>2 DEF beginConsensus
  <2>2. in.fresh \in BOOLEAN
    BY DEF Input
  <2>3. /\ t \in NetworkOPs /\ t.round = s.round /\ SameLedgers(s, t)
        /\ t.m_amendmentBlocked = s.m_amendmentBlocked /\ t.mMode # 4
    <3>1. CASE s.mMode = 4
      <4>1. t = setMode(s, 3, in.fresh)
        BY <3>1, Modes
      <4>2. ModeSet(s, 3, t)
        BY <2>2, <4>1, SetsMode
      <4> QED
        BY <4>2 DEF ModeSet
    <3>2. CASE s.mMode # 4
      BY <3>2, Modes DEF SameLedgers
    <3> QED
      BY <3>1, <3>2
  <2> HIDE DEF t
  <2> QED
    BY <2>1, <2>3, Modes DEF Handled, InSync, inRound
<1> QED
  BY <1>1, <1>2

(***************************************************************************)
(* checkLastClosedLedger between rounds: without a change the network is   *)
(* on our closed ledger, with one the server is not tracking any more.     *)
(***************************************************************************)
Checked(s, check) ==
  /\ Handled(s, check.s) /\ ~inRound(check.s) /\ check.s.open = check.s.closed
  /\ check.networkClosed \in Ledger /\ check.change \in BOOLEAN
  /\ ~check.change => check.networkClosed = check.s.closed
  /\ check.change => check.s.mMode < 3
  /\ check = [s |-> check.s, change |-> check.change, networkClosed |-> check.networkClosed]

Idle(s) == s \in NetworkOPs /\ ~inRound(s) /\ s.open = s.closed

LEMMA ChecksLastClosed ==
  ASSUME Counted, NEW s, Idle(s), NEW in \in Input
  PROVE  Checked(s, checkLastClosedLedger(s, in))
<1> DEFINE best == firstOf(bestLedgers(s), s.closed)
           check == consider(s, best, in)
<1>1. best \in Ledger
  <2>1. PICK l \in Ledger : bestLedgers(s) = {l}
    BY OneBest DEF Idle
  <2> QED
    BY <2>1 DEF firstOf
<1>2. checkLastClosedLedger(s, in) = check
  BY DEF checkLastClosedLedger
<1> HIDE DEF best
<1>3. in.fresh \in BOOLEAN
  BY DEF Input
<1> DEFINE u == viewLost(s, in.fresh)
<1>4. /\ u \in NetworkOPs /\ u.round = s.round /\ SameLedgers(s, u)
      /\ u.m_amendmentBlocked = s.m_amendmentBlocked /\ u.mMode < 3
  BY <1>3, ViewLost DEF Idle
<1> HIDE DEF u
<1>5. CASE best = s.closed \/ best = Parent[s.closed] \/ (best \in s.have /\ ~in.compatible)
  <2>1. check = [s |-> s, change |-> FALSE, networkClosed |-> s.closed]
    BY <1>5 DEF consider
  <2> QED
    BY <1>2, <2>1 DEF Checked, Idle, Handled, InSync, NetworkOPs
<1>6. CASE /\ ~(best = s.closed \/ best = Parent[s.closed])
           /\ best \in s.have /\ in.compatible
  <2> DEFINE w == switchLastClosedLedger(u, best)
  <2>1. check = [s |-> w, change |-> TRUE, networkClosed |-> best]
    BY <1>6 DEF consider, u
  <2>2. /\ w \in NetworkOPs /\ w.round = u.round /\ w.mMode = u.mMode
        /\ w.m_amendmentBlocked = u.m_amendmentBlocked /\ w.open = w.closed
    BY <1>1, <1>4 DEF switchLastClosedLedger, NetworkOPs
  <2> HIDE DEF w
  <2> QED
    BY <1>1, <1>2, <1>4, <2>1, <2>2, Modes DEF Checked, Idle, Handled, InSync, inRound
<1>7. CASE /\ ~(best = s.closed \/ best = Parent[s.closed])
           /\ best \notin s.have
  <2>1. check = [s |-> u, change |-> TRUE, networkClosed |-> best]
    BY <1>7 DEF consider, u
  <2> QED
    BY <1>1, <1>2, <1>4, <2>1, Modes
    DEF Checked, Idle, Handled, InSync, inRound, SameLedgers
<1> QED
  BY <1>5, <1>6, <1>7 DEF Input

(***************************************************************************)
(* Raising the mode after the check, then the round.                       *)
(***************************************************************************)
LEMMA RaisesMode ==
  ASSUME NEW s, NEW check, Checked(s, check), ~check.change,
         NEW om \in {3, 4}, NEW fresh \in BOOLEAN
  PROVE  /\ Checked(s, [check EXCEPT !.s = setMode(check.s, om, fresh)])
         /\ [check EXCEPT !.s = setMode(check.s, om, fresh)].s = setMode(check.s, om, fresh)
<1> DEFINE u == setMode(check.s, om, fresh)
           c == [check EXCEPT !.s = u]
<1>1. check.s \in NetworkOPs
  BY DEF Checked, Handled
<1>2. /\ u \in NetworkOPs /\ u.round = check.s.round /\ SameLedgers(check.s, u)
      /\ u.m_amendmentBlocked = check.s.m_amendmentBlocked
      /\ u.mMode = 4 => ~check.s.m_amendmentBlocked
  <2>1. ModeSet(check.s, om, u)
    BY <1>1, SetsMode
  <2> QED
    BY <2>1 DEF ModeSet
<1> HIDE DEF u
<1>3. /\ c.s = u /\ c.change = check.change /\ c.networkClosed = check.networkClosed
      /\ c = [s |-> u, change |-> check.change, networkClosed |-> check.networkClosed]
  BY DEF Checked
<1> HIDE DEF c
<1>4. Checked(s, c)
  BY <1>2, <1>3, Modes DEF Checked, Handled, InSync, inRound, SameLedgers
<1> QED
  BY <1>3, <1>4 DEF c, u

Begins(s, t) == Handled(s, t) /\ t.open = t.closed /\ t.round.state # "finished"

LEMMA BeginsChecked ==
  ASSUME Counted, NEW s, NEW check, Checked(s, check), NEW in \in Input
  PROVE  /\ Begins(s, beginConsensus(check.s, check.networkClosed, in))
         /\ Begins(s, check.s)
<1> DEFINE t == beginConsensus(check.s, check.networkClosed, in)
<1>1. /\ check.s \in NetworkOPs /\ ~inRound(check.s) /\ check.networkClosed \in Ledger
      /\ check.s.mMode = omFULL => check.s.open = check.networkClosed
  BY Modes DEF Checked, Handled
<1>2. Handled(check.s, t) /\ SameLedgers(check.s, t) /\ t.round.state # "finished"
  BY <1>1, BeginsInSync
<1> HIDE DEF t
<1>3. Handled(s, t)
  BY <1>2, HandledTwice DEF Checked
<1>4. t.open = t.closed
  BY <1>2 DEF Checked, SameLedgers
<1>5. Begins(s, check.s)
  BY DEF Begins, Checked, inRound
<1> QED
  BY <1>2, <1>3, <1>4, <1>5 DEF Begins, t

LEMMA TriesToStart ==
  ASSUME Counted, NEW s, Idle(s), NEW in \in Input
  PROVE  Begins(s, tryStartConsensus(s, in))
<1> DEFINE a == checkLastClosedLedger(s, in)
           b == toTracking(a, in)
           c == toFull(b, in)
<1>1. in.fresh \in BOOLEAN
  BY DEF Input
<1>2. Checked(s, a)
  BY ChecksLastClosed
<1> HIDE DEF a
<1>3. Checked(s, b)
  BY <1>1, <1>2, RaisesMode, Modes DEF toTracking
<1> HIDE DEF b
<1>4. Checked(s, c)
  BY <1>1, <1>3, RaisesMode, Modes DEF toFull
<1> HIDE DEF c
<1>5. Begins(s, beginConnected(c, in))
  BY <1>4, BeginsChecked DEF beginConnected
<1> QED
  BY <1>5 DEF tryStartConsensus, a, b, c

LEMMA HasConsensusObject ==
  ASSUME Counted, NEW s, Idle(s), NEW in \in Input
  PROVE  Begins(s, haveConsensusObject(s, in))
<1>1. CASE s.mMode \in {omFULL, omTRACKING}
  BY <1>1, TriesToStart DEF haveConsensusObject
<1>2. CASE s.mMode \notin {omFULL, omTRACKING}
  <2> DEFINE check == checkLastClosedLedger(s, in)
             e == enoughToFull(check.s, in)
             t == beginUnchanged(check, in)
  <2>1. haveConsensusObject(s, in) = t
    BY <1>2 DEF haveConsensusObject
  <2>2. Checked(s, check)
    BY ChecksLastClosed
  <2>3. in.fresh \in BOOLEAN
    BY DEF Input
  <2> HIDE DEF check
  <2>4. CASE check.change
    BY <2>1, <2>2, <2>4, BeginsChecked DEF beginUnchanged
  <2>5. CASE ~check.change
    <3>1. Checked(s, [check EXCEPT !.s = e]) /\ [check EXCEPT !.s = e].s = e
          /\ [check EXCEPT !.s = e].networkClosed = check.networkClosed
      <4>1. CASE check.s.mMode \in {omTRACKING, omSYNCING} /\ in.enough
        <5>1. e = setMode(check.s, 4, in.fresh)
          BY <4>1, Modes DEF enoughToFull
        <5> QED
          BY <2>2, <2>3, <2>5, <5>1, RaisesMode DEF Checked
      <4>2. CASE ~(check.s.mMode \in {omTRACKING, omSYNCING} /\ in.enough)
        <5>1. e = check.s
          BY <4>2 DEF enoughToFull
        <5>2. [check EXCEPT !.s = e] = check
          BY <2>2, <5>1 DEF Checked
        <5> QED
          BY <2>2, <5>1, <5>2
      <4> QED
        BY <4>1, <4>2
    <3>2. t = beginConsensus(e, check.networkClosed, in)
      BY <2>5 DEF beginUnchanged
    <3> HIDE DEF e, t
    <3> QED
      BY <2>1, <3>1, <3>2, BeginsChecked
  <2> QED
    BY <2>4, <2>5
<1> QED
  BY <1>1, <1>2

(***************************************************************************)
(* The inductive invariant of OperatingMode.  The accept job is under way  *)
(* exactly while its round is finished, so no handler touches the ledgers  *)
(* then; between its two switches the open ledger is the new one, at all   *)
(* other times the open ledger is built on the closed one.                 *)
(***************************************************************************)
AcceptInRound ==
  /\ accept \in {"building", "blocking", "built", "opened"} <=> ops.round.state = "finished"
  /\ accept \in {"built", "opened"} => newLCL \in Ledger

OpenOnClosed == ops.open = IF accept = "opened" THEN newLCL ELSE ops.closed

ModeInv ==
  /\ ModeTypeOK /\ InSync(ops) /\ NotFullWhenBlocked
  /\ AcceptInRound /\ OpenOnClosed

(***************************************************************************)
(* The invariant holds when the server starts.                             *)
(***************************************************************************)
LEMMA ModeInitHolds ==
  ASSUME ModeInit
  PROVE  ModeInv
<1>1. NoRound \in Round /\ NoRound.state = "none"
  BY DEF NoRound, Round, MaybeLedger
<1>2. PICK need \in BOOLEAN, peerLedger \in [Peer -> MaybeLedger] :
        ops = [mMode |-> omDISCONNECTED, mNeedNetworkLedger |-> need,
               m_amendmentBlocked |-> FALSE, round |-> NoRound, closed |-> Genesis,
               open |-> Genesis, have |-> {Genesis}, peerLedger |-> peerLedger]
  BY DEF ModeInit
<1>3. Genesis \in Ledger /\ MaxEvents \in Nat
  BY OperatingModeAssumption
<1>4. ops \in NetworkOPs
  BY <1>1, <1>2, <1>3, Modes DEF NetworkOPs
<1>5. ModeTypeOK
  <2>1. validation \in [Validator -> [ledger : MaybeLedger, previous : MaybeLedger]]
    BY DEF ModeInit, MaybeLedger
  <2> QED
    BY <1>3, <1>4, <2>1 DEF ModeInit, ModeTypeOK, MaybeLedger
<1>6. ops.round.state = "none" /\ accept = "idle" /\ ops.open = ops.closed /\ ~ops.m_amendmentBlocked
  BY <1>1, <1>2 DEF ModeInit
<1> QED
  BY <1>5, <1>6
  DEF ModeInv, InSync, inRound, NotFullWhenBlocked, AcceptInRound, OpenOnClosed

LEMMA InputsAreTyped ==
  ASSUME ModeTypeOK, NEW in \in Inputs
  PROVE  in \in Input
<1>1. \A v \in Validator : validation[v].ledger \in MaybeLedger
  BY DEF ModeTypeOK
<1>2. {validation[v].ledger : v \in Validator} \subseteq MaybeLedger
  BY <1>1
<1> DEFINE other == IF inRound(ops) THEN {FALSE} ELSE BOOLEAN
<1>3. other \subseteq BOOLEAN
  OBVIOUS
<1>4. in \in [fresh : BOOLEAN, recent : other, compatible : other, enough : other,
              behind : other, agree : BOOLEAN, tie : {validation[v].ledger : v \in Validator}]
  BY DEF Inputs
<1> HIDE DEF other
<1> QED
  BY <1>2, <1>3, <1>4 DEF Input

(***************************************************************************)
(* The handlers that may begin a round, or move one on.                    *)
(***************************************************************************)
LEMMA HeartbeatKeeps ==
  ASSUME ModeInv, NEW in \in Inputs,
         processHeartbeatTimer(in)
  PROVE  ModeInv' /\ (~inRound(ops) => ops'.open = ops'.closed)
<1>1. /\ ops \in NetworkOPs /\ in \in Input /\ in.fresh \in BOOLEAN
      /\ Counted /\ InSync(ops)
  BY InputsAreTyped DEF ModeInv, ModeTypeOK, Counted, Input
<1>2. /\ accept' = IF ops'.round.state = "finished" /\ accept = "idle" THEN "building" ELSE accept
      /\ UNCHANGED <<connected, validation, newLCL, events>>
  BY DEF processHeartbeatTimer
<1>3. /\ Handled(ops, ops')
      /\ ops'.round.state = "finished" => ops.round.state = "finished" \/ accept = "idle"
      /\ ops.round.state = "finished" => ops'.round.state = "finished" /\ SameLedgers(ops, ops')
      /\ ops.round.state # "finished" => ops'.open = ops'.closed
  <2>1. CASE Cardinality(connected) < NetworkQuorum
    <3>1. ops' = setMode(ops, 0, in.fresh)
      BY <2>1, Modes DEF processHeartbeatTimer
    <3>2. /\ ops' \in NetworkOPs /\ ops'.round = ops.round /\ SameLedgers(ops, ops')
          /\ ops'.m_amendmentBlocked = ops.m_amendmentBlocked /\ ops'.mMode # 4
      <4>1. ModeSet(ops, 0, ops')
        BY <1>1, <3>1, SetsMode
      <4> QED
        BY <4>1 DEF ModeSet
    <3> QED
      BY <1>1, <3>2, Modes
      DEF Handled, InSync, ModeInv, AcceptInRound, OpenOnClosed, SameLedgers
  <2>2. CASE ~(Cardinality(connected) < NetworkQuorum)
    <3> DEFINE s == heartbeatMode(ops, in.fresh)
    <3>1. ops' = heartbeat(s, in)
      BY <2>2 DEF processHeartbeatTimer
    <3>2. /\ s \in NetworkOPs /\ s.round = ops.round /\ SameLedgers(ops, s)
          /\ s.m_amendmentBlocked = ops.m_amendmentBlocked
          /\ s.mMode = 4 => ops.mMode = 4
      <4>1. CASE ops.mMode \in {0, 1, 2}
        <5>1. s = setMode(ops, 1, in.fresh)
          BY <4>1, Modes DEF heartbeatMode
        <5>2. ModeSet(ops, 1, s)
          BY <1>1, <5>1, SetsMode
        <5> QED
          BY <5>2 DEF ModeSet
      <4>2. CASE ops.mMode \notin {0, 1, 2}
        BY <1>1, <4>2, Modes DEF heartbeatMode, SameLedgers
      <4> QED
        BY <4>1, <4>2
    <3> HIDE DEF s
    <3>3. Handled(ops, s)
      BY <1>1, <3>2, Modes DEF Handled, InSync, inRound
    <3>4. ops.round.state # "finished" => s.open = s.closed
      BY <3>2 DEF ModeInv, AcceptInRound, OpenOnClosed, SameLedgers
    <3>5. CASE inRound(s)
      <4>1. Ticks(s, ops')
        BY <1>1, <3>1, <3>2, <3>3, <3>5, TimerTicks DEF heartbeat, Handled
      <4>2. Handled(ops, ops')
        BY <3>3, <4>1, HandledTwice DEF Ticks
      <4> QED
        BY <3>2, <3>4, <4>1, <4>2 DEF Ticks, SameLedgers
    <3>6. CASE ~inRound(s)
      <4> DEFINE u == tryStartConsensus(s, in)
                 agree == [in EXCEPT !.agree = @ /\ u.round.state = "open"]
      <4>1. ops.round.state = "none"
        BY <3>2, <3>6 DEF inRound
      <4>2. Idle(s)
        BY <3>2, <3>4, <3>6, <4>1 DEF Idle
      <4>3. Begins(s, u)
        BY <1>1, <4>2, TriesToStart
      <4> HIDE DEF u
      <4>4. agree \in Input
        BY <1>1 DEF Input
      <4>5. ops' = firstTimer(u, in)
        BY <3>1, <3>6 DEF heartbeat, u
      <4>6. CASE inRound(u)
        <5>1. ops' = timerEntry(u, agree)
          BY <4>5, <4>6 DEF firstTimer
        <5> HIDE DEF agree
        <5>2. Ticks(u, ops')
          BY <1>1, <4>3, <4>4, <4>6, <5>1, TimerTicks DEF Begins, Handled
        <5>3. Handled(ops, ops')
          BY <3>3, <4>3, <5>2, HandledTwice DEF Begins, Ticks
        <5> QED
          BY <4>1, <4>3, <5>2, <5>3 DEF Begins, Ticks, SameLedgers
      <4>7. CASE ~inRound(u)
        <5>1. ops' = u
          BY <4>5, <4>7 DEF firstTimer
        <5>2. Handled(ops, ops')
          BY <3>3, <4>3, <5>1, HandledTwice DEF Begins
        <5> QED
          BY <4>1, <4>3, <5>1, <5>2 DEF Begins
      <4> QED
        BY <4>6, <4>7
    <3> QED
      BY <3>5, <3>6
  <2> QED
    BY <2>1, <2>2
<1>4. ModeTypeOK'
  BY <1>2, <1>3 DEF ModeInv, ModeTypeOK, Handled
<1>5. InSync(ops)' /\ NotFullWhenBlocked'
  BY <1>2, <1>3 DEF ModeInv, Handled, InSync, inRound, NotFullWhenBlocked
<1>6. AcceptInRound'
  BY <1>2, <1>3 DEF ModeInv, AcceptInRound, ModeTypeOK
<1>7. OpenOnClosed'
  BY <1>2, <1>3 DEF ModeInv, AcceptInRound, OpenOnClosed, SameLedgers
<1>8. ~inRound(ops) => ops'.open = ops'.closed
  BY <1>3 DEF inRound
<1> QED
  BY <1>4, <1>5, <1>6, <1>7, <1>8 DEF ModeInv

LEMMA ProposalKeeps ==
  ASSUME ModeInv, NEW in \in Inputs,
         processTrustedProposal(in)
  PROVE  ModeInv' /\ ops'.open = ops'.closed
<1>1. in \in Input /\ Counted
  BY InputsAreTyped DEF ModeInv, ModeTypeOK, Counted
<1>2. ops.round.state = "none"
  BY DEF processTrustedProposal, inRound
<1>3. Idle(ops)
  BY <1>2 DEF processTrustedProposal, Idle, ModeInv, ModeTypeOK, AcceptInRound, OpenOnClosed
<1>4. Begins(ops, ops')
  BY <1>1, <1>3, HasConsensusObject DEF processTrustedProposal
<1>5. UNCHANGED <<connected, validation, accept, newLCL, events>>
  BY DEF processTrustedProposal
<1>6. ModeTypeOK'
  BY <1>4, <1>5 DEF ModeInv, ModeTypeOK, Handled, Begins
<1>7. InSync(ops)' /\ NotFullWhenBlocked'
  BY <1>4, <1>5 DEF ModeInv, Handled, Begins, InSync, inRound, NotFullWhenBlocked
<1>8. AcceptInRound' /\ OpenOnClosed'
  BY <1>2, <1>4, <1>5 DEF ModeInv, AcceptInRound, OpenOnClosed, Begins
<1> QED
  BY <1>4, <1>6, <1>7, <1>8 DEF ModeInv, Begins

(***************************************************************************)
(* The accept job and the network.  None of them begins a round.           *)
(***************************************************************************)
OtherStep ==
  \/ \E l \in Ledger : AcceptBuild(l) \/ LedgerArrives(l)
  \/ AmendmentFlag \/ setAmendmentBlocked
  \/ AcceptOpen \/ AcceptSwitch \/ AcceptDone
  \/ \E p \in Peer : PeerChanges(p)
  \/ \E v \in Validator, l \in MaybeLedger : addValidation(v, l)
  \/ clearNeedNetworkLedger

LEMMA AcceptKeeps ==
  ASSUME ModeInv,
         \/ \E l \in Ledger : AcceptBuild(l)
         \/ AmendmentFlag \/ setAmendmentBlocked
         \/ AcceptOpen \/ AcceptSwitch \/ AcceptDone
  PROVE  ModeInv' /\ (inRound(ops') => inRound(ops))
<1>1. ops \in NetworkOPs
  BY DEF ModeInv, ModeTypeOK
<1>2. ASSUME NEW l \in Ledger, AcceptBuild(l)
      PROVE  ModeInv' /\ ops'.round = ops.round
  <2>1. /\ ops' \in NetworkOPs /\ ops'.round = ops.round /\ ops'.mMode = ops.mMode
        /\ ops'.open = ops.open /\ ops'.closed = ops.closed
        /\ ops'.m_amendmentBlocked = ops.m_amendmentBlocked
    BY <1>1, <1>2 DEF AcceptBuild, NetworkOPs
  <2>2. /\ accept = "building" /\ accept' = "built" /\ newLCL' = l
        /\ UNCHANGED <<connected, validation, events>>
    BY <1>2 DEF AcceptBuild
  <2>3. ModeTypeOK'
    BY <2>1, <2>2 DEF ModeInv, ModeTypeOK, MaybeLedger
  <2> QED
    BY <2>1, <2>2, <2>3
    DEF ModeInv, InSync, inRound, NotFullWhenBlocked, AcceptInRound, OpenOnClosed
<1>3. ASSUME AmendmentFlag
      PROVE  ModeInv' /\ ops'.round = ops.round
  <2>1. /\ ops' \in NetworkOPs /\ ops'.round = ops.round /\ ops'.mMode = ops.mMode
        /\ ops'.open = ops.open /\ ops'.closed = ops.closed
    BY <1>1, <1>3 DEF AmendmentFlag, NetworkOPs
  <2>2. /\ accept = "building" /\ accept' = "blocking"
        /\ UNCHANGED <<connected, validation, newLCL, events>>
    BY <1>3 DEF AmendmentFlag
  <2>3. ModeTypeOK'
    BY <2>1, <2>2 DEF ModeInv, ModeTypeOK
  <2> QED
    BY <2>1, <2>2, <2>3
    DEF ModeInv, InSync, inRound, NotFullWhenBlocked, AcceptInRound, OpenOnClosed
<1>4. ASSUME setAmendmentBlocked
      PROVE  ModeInv' /\ ops'.round = ops.round
  <2>1. PICK fresh \in BOOLEAN : ops' = setMode(ops, 3, fresh)
    BY <1>4, Modes DEF setAmendmentBlocked
  <2>2. /\ ops' \in NetworkOPs /\ ops'.round = ops.round /\ ops'.mMode # 4
        /\ SameLedgers(ops, ops')
    <3>1. ModeSet(ops, 3, ops')
      BY <1>1, <2>1, SetsMode
    <3> QED
      BY <3>1 DEF ModeSet
  <2>3. /\ accept = "blocking" /\ accept' = "building"
        /\ UNCHANGED <<connected, validation, newLCL, events>>
    BY <1>4 DEF setAmendmentBlocked
  <2>4. ModeTypeOK'
    BY <2>2, <2>3 DEF ModeInv, ModeTypeOK
  <2> QED
    BY <2>2, <2>3, <2>4, Modes
    DEF ModeInv, InSync, inRound, NotFullWhenBlocked, AcceptInRound, OpenOnClosed,
        SameLedgers
<1>5. ASSUME AcceptOpen
      PROVE  ModeInv' /\ ops'.round = ops.round
  <2>1. accept = "built" /\ accept' = "opened" /\ UNCHANGED <<connected, validation, newLCL, events>>
    BY <1>5 DEF AcceptOpen
  <2>2. newLCL \in Ledger
    BY <2>1 DEF ModeInv, AcceptInRound
  <2>3. /\ ops' \in NetworkOPs /\ ops'.round = ops.round /\ ops'.mMode = ops.mMode
        /\ ops'.open = newLCL /\ ops'.m_amendmentBlocked = ops.m_amendmentBlocked
    BY <1>1, <1>5, <2>2 DEF AcceptOpen, openOn, NetworkOPs
  <2>4. ModeTypeOK'
    BY <2>1, <2>3 DEF ModeInv, ModeTypeOK
  <2> QED
    BY <2>1, <2>2, <2>3, <2>4
    DEF ModeInv, InSync, inRound, NotFullWhenBlocked, AcceptInRound, OpenOnClosed
<1>6. ASSUME AcceptSwitch
      PROVE  ModeInv' /\ inRound(ops)
  <2>1. accept = "opened" /\ accept' = "switched" /\ UNCHANGED <<connected, validation, newLCL, events>>
    BY <1>6 DEF AcceptSwitch
  <2>2. newLCL \in Ledger /\ ops.round.state = "finished" /\ ops.open = newLCL
    BY <2>1 DEF ModeInv, AcceptInRound, OpenOnClosed
  <2>3. /\ ops' \in NetworkOPs /\ ops'.mMode = ops.mMode
        /\ ops'.open = ops.open /\ ops'.closed = newLCL
        /\ ops'.m_amendmentBlocked = ops.m_amendmentBlocked
        /\ ops'.round.state = "accepted"
        /\ ops'.round.mPreviousLedger = ops.round.mPreviousLedger
        /\ ops'.round.mPrevLedgerHash = ops.round.mPrevLedgerHash
        /\ ops'.round.mHaveCorrectLCL = ops.round.mHaveCorrectLCL
    BY <1>1, <1>6, <2>2 DEF AcceptSwitch, NetworkOPs, Round
  <2>4. ModeTypeOK'
    BY <2>1, <2>3 DEF ModeInv, ModeTypeOK
  <2> QED
    BY <2>1, <2>2, <2>3, <2>4
    DEF ModeInv, InSync, inRound, NotFullWhenBlocked, AcceptInRound, OpenOnClosed
<1>7. ASSUME AcceptDone
      PROVE  ModeInv' /\ ops'.round = ops.round
  <2>1. /\ accept = "switched" /\ accept' = "idle" /\ newLCL' = NoLedger
        /\ UNCHANGED <<ops, connected, validation, events>>
    BY <1>7 DEF AcceptDone
  <2>2. ModeTypeOK'
    BY <2>1 DEF ModeInv, ModeTypeOK, MaybeLedger
  <2> QED
    BY <2>1, <2>2
    DEF ModeInv, InSync, inRound, NotFullWhenBlocked, AcceptInRound, OpenOnClosed
<1> QED
  BY <1>2, <1>3, <1>4, <1>5, <1>6, <1>7 DEF inRound

(***************************************************************************)
(* A step of the network, or of LedgerMaster, leaves the mode, the round,  *)
(* the flag and the ledgers alone.                                         *)
(***************************************************************************)
LEMMA NetworkKeeps ==
  ASSUME ModeInv,
         \/ \E l \in Ledger : LedgerArrives(l)
         \/ \E p \in Peer : PeerChanges(p)
         \/ \E v \in Validator, l \in MaybeLedger : addValidation(v, l)
         \/ clearNeedNetworkLedger
  PROVE  ModeInv' /\ ops'.round = ops.round
<1>1. ops \in NetworkOPs /\ events \in 0 .. MaxEvents /\ MaxEvents \in Nat
  BY OperatingModeAssumption DEF ModeInv, ModeTypeOK
<1> DEFINE Same ==
      /\ ops' \in NetworkOPs /\ ops'.round = ops.round /\ ops'.mMode = ops.mMode
      /\ ops'.open = ops.open /\ ops'.closed = ops.closed
      /\ ops'.m_amendmentBlocked = ops.m_amendmentBlocked
<1>2. ASSUME Event PROVE events' \in 0 .. MaxEvents /\ UNCHANGED <<accept, newLCL>>
  BY <1>1, <1>2 DEF Event
<1>3. ASSUME NEW l \in Ledger, LedgerArrives(l)
      PROVE  Same /\ ModeTypeOK' /\ UNCHANGED <<accept, newLCL>>
  <2>1. Same
    BY <1>1, <1>3 DEF LedgerArrives, NetworkOPs
  <2> HIDE DEF Same
  <2> QED
    BY <1>2, <1>3, <2>1 DEF LedgerArrives, ModeInv, ModeTypeOK, Same
<1>4. ASSUME NEW p \in Peer, PeerChanges(p)
      PROVE  Same /\ ModeTypeOK' /\ UNCHANGED <<accept, newLCL>>
  <2>1. UNCHANGED validation /\ Event
    BY <1>4 DEF PeerChanges
  <2>2. Same /\ connected' \subseteq Peer
    <3>1. CASE p \in connected /\ connected' = connected \ {p} /\ UNCHANGED ops
      BY <1>1, <3>1 DEF ModeInv, ModeTypeOK
    <3>2. ASSUME NEW l \in MaybeLedger, ops' = [ops EXCEPT !.peerLedger[p] = l],
                 connected' \in {connected, connected \cup {p}}
          PROVE  Same /\ connected' \subseteq Peer
      <4>1. connected' \subseteq Peer
        BY <3>2 DEF ModeInv, ModeTypeOK
      <4> QED
        BY <1>1, <3>2, <4>1 DEF NetworkOPs
    <3> QED
      BY <1>4, <3>1, <3>2 DEF PeerChanges, MaybeLedger
  <2> HIDE DEF Same
  <2> QED
    BY <1>2, <2>1, <2>2 DEF ModeInv, ModeTypeOK, Same
<1>5. ASSUME NEW v \in Validator, NEW l \in MaybeLedger, addValidation(v, l)
      PROVE  Same /\ ModeTypeOK' /\ UNCHANGED <<accept, newLCL>>
  <2>1. Event /\ UNCHANGED <<ops, connected>>
    BY <1>5 DEF addValidation
  <2>2. validation' \in [Validator -> [ledger : MaybeLedger, previous : MaybeLedger]]
    BY <1>5 DEF addValidation, ModeInv, ModeTypeOK, MaybeLedger
  <2> QED
    BY <1>1, <1>2, <2>1, <2>2 DEF ModeInv, ModeTypeOK
<1>6. ASSUME clearNeedNetworkLedger
      PROVE  Same /\ ModeTypeOK' /\ UNCHANGED <<accept, newLCL>>
  <2>1. Same
    BY <1>1, <1>6 DEF clearNeedNetworkLedger, NetworkOPs
  <2> HIDE DEF Same
  <2> QED
    BY <1>6, <2>1 DEF clearNeedNetworkLedger, ModeInv, ModeTypeOK, Same
<1>7. Same /\ ModeTypeOK' /\ UNCHANGED <<accept, newLCL>>
  BY <1>3, <1>4, <1>5, <1>6
<1> QED
  BY <1>7 DEF ModeInv, InSync, inRound, NotFullWhenBlocked, AcceptInRound, OpenOnClosed

LEMMA ModeStep ==
  ASSUME ModeInv, [ModeNext]_modeVars
  PROVE  ModeInv' /\ (~inRound(ops) /\ inRound(ops') => ops'.open = ops'.closed)
<1>1. CASE UNCHANGED modeVars
  <2>1. UNCHANGED <<ops, connected, validation, accept, newLCL, events>>
    BY <1>1 DEF modeVars
  <2> QED
    BY <2>1 DEF ModeInv, ModeTypeOK, InSync, inRound, NotFullWhenBlocked,
                AcceptInRound, OpenOnClosed
<1>2. ASSUME NEW in \in Inputs, processHeartbeatTimer(in)
      PROVE  ModeInv' /\ (~inRound(ops) /\ inRound(ops') => ops'.open = ops'.closed)
  BY <1>2, HeartbeatKeeps
<1>3. ASSUME NEW in \in Inputs, processTrustedProposal(in)
      PROVE  ModeInv' /\ (~inRound(ops) /\ inRound(ops') => ops'.open = ops'.closed)
  BY <1>3, ProposalKeeps
<1>4. CASE OtherStep
  BY <1>4, AcceptKeeps, NetworkKeeps DEF OtherStep, inRound
<1> QED
  BY <1>1, <1>2, <1>3, <1>4 DEF ModeNext, OtherStep

(***************************************************************************)
(* ModeInv is an invariant of OperatingMode.                               *)
(***************************************************************************)
THEOREM ModeInvariance == ModeSpec => []ModeInv
<1>1. ModeInit => ModeInv
  BY ModeInitHolds
<1>2. ModeInv /\ [ModeNext]_modeVars => ModeInv'
  BY ModeStep
<1> QED
  BY <1>1, <1>2, PTL DEF ModeSpec

(***************************************************************************)
(* The state of NetworkOPs keeps its types.                                *)
(***************************************************************************)
THEOREM ModeTypes == ModeSpec => []ModeTypeOK
<1>1. ModeSpec => []ModeInv
  BY ModeInvariance
<1>2. ModeInv => ModeTypeOK
  BY DEF ModeInv
<1> QED
  BY <1>1, <1>2, PTL

(***************************************************************************)
(* omFULL is justified: no interleaving of setAmendmentBlocked, which runs *)
(* in the accept job, with the handlers leaves a blocked server FULL, and  *)
(* a round in omFULL works from the ledger it takes for the network's      *)
(* (setMode, tryStartConsensus, haveConsensusObject, checkLCL).            *)
(***************************************************************************)
THEOREM FullStaysJustified ==
  ModeSpec => []FullIsJustified
<1>1. ModeSpec => []ModeInv
  BY ModeInvariance
<1>2. ModeInv => FullIsJustified
  BY DEF ModeInv, InSync, FullIsJustified, FullIsInSync
<1> QED
  BY <1>1, <1>2, PTL

(***************************************************************************)
(* The ledger that checkLastClosedLedger prefers is the same whatever the  *)
(* order in which it visits the ledgers: the order of ValidationCount has  *)
(* one greatest element, for every number of peers and validators.         *)
(***************************************************************************)
THEOREM PreferenceStaysUnique ==
  ModeSpec => []PreferenceIsUnique
<1>1. ModeSpec => []ModeInv
  BY ModeInvariance
<1>2. ModeInv => PreferenceIsUnique
  <2> SUFFICES ASSUME ModeInv PROVE PreferenceIsUnique
    OBVIOUS
  <2>1. Counted /\ ops \in NetworkOPs
    BY DEF ModeInv, ModeTypeOK, Counted
  <2> QED
    BY <2>1, OneBest DEF PreferenceIsUnique
<1> QED
  BY <1>1, <1>2, PTL

(***************************************************************************)
(* The asserts of beginConsensus hold: a round begins only when the open   *)
(* ledger is built on the closed one, although the accept job of the       *)
(* previous round switches them in two steps.                              *)
(***************************************************************************)
THEOREM RoundBeginsOnClosed ==
  ModeSpec => BeginsOnClosedLedger
<1>1. ModeSpec => []ModeInv
  BY ModeInvariance
<1>2. ModeInv /\ [ModeNext]_modeVars =>
        [~inRound(ops) /\ inRound(ops') => ops'.open = ops'.closed]_modeVars
  BY ModeStep
<1> QED
  BY <1>1, <1>2, PTL DEF ModeSpec, BeginsOnClosedLedger

=============================================================================
