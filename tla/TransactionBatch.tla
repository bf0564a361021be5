-------------------------- MODULE TransactionBatch --------------------------
(***************************************************************************)
(* How NetworkOPs applies transactions to the open ledger in batches       *)
(* (processTransaction, doTransactionSync, doTransactionAsync,             *)
(* transactionBatch and apply of src/src/ripple/app/misc/NetworkOPs.cpp).  *)
(*                                                                         *)
(* A client's thread submits a transaction and waits for it; transactions  *)
(* from peers are queued and forgotten.  Whoever finds that no batch is    *)
(* running may apply what is queued: a waiting client, or a batch job.     *)
(* What is done under mMutex is one step; apply releases mMutex, works on  *)
(* its batch under the master lock, and takes mMutex again.                *)
(***************************************************************************)
EXTENDS Integers, FiniteSets

CONSTANTS
  Tx,          \* transactions: one Transaction object each (canonicalize)
  Client,      \* threads that submit and wait
  Worker,      \* threads that run batch jobs
  Result,      \* the results TxQ::apply gives here, a subset of TER
  MaxSubmits   \* bound: submissions in one behaviour

TER == {"tesSUCCESS", "tecCLAIM", "tefPAST_SEQ", "terQUEUED", "terRETRY",
        "temMALFORMED", "tefFAILURE"}

ASSUME TransactionBatchAssumption ==
  /\ Client \cap Worker = {}
  /\ Result \subseteq TER
  /\ MaxSubmits \in Nat

VARIABLES
  mTransactions,  \* the queue, as a set of TransactionStatus
  mApplying,      \* the transactions whose mApplying is set
  mDispatchState,
  jobs,           \* batch jobs in the job queue
  batch,          \* per thread: the local variable of apply
  pc, call,       \* per thread: where it is, and what its call submits
  arriving,       \* transactions of peers past the check of processTransaction
  submits, isStopping,
  bad, relayed,   \* SF_BAD and SF_RELAYED of the HashRouter
  held,           \* LedgerMaster::mHeldTransactions
  localTxs,       \* LocalTxs::m_txns
  completed       \* clients whose transaction was applied since their call

queueVars == <<mTransactions, mApplying, mDispatchState, jobs>>
threadVars == <<batch, pc, call, completed>>
effectVars == <<bad, relayed, held, localTxs>>
inputVars == <<arriving, submits, isStopping>>
vars == <<mTransactions, mApplying, mDispatchState, jobs, batch, pc, call, arriving,
          submits, isStopping, bad, relayed, held, localTxs, completed>>

Thread == Client \cup Worker
TransactionStatus == [transaction : Tx, local : BOOLEAN, failHard : BOOLEAN]
NoCall == [transaction |-> "none", local |-> FALSE, failHard |-> FALSE]
transactionsOf(B) == {e.transaction : e \in B}
RunningThreads == {h \in Thread : pc[h] \in {"applying", "applied"}}

(***************************************************************************)
(* Types.                                                                  *)
(***************************************************************************)
TypeOK ==
  /\ mTransactions \subseteq TransactionStatus
  /\ mApplying \subseteq Tx
  /\ mDispatchState \in {"none", "scheduled", "running"}
  /\ jobs \in Nat
  /\ batch \in [Thread -> SUBSET TransactionStatus]
  /\ pc \in [Thread -> {"idle", "checked", "waiting", "woken", "applying", "applied"}]
  /\ call \in [Thread -> TransactionStatus \cup {NoCall}]
  /\ arriving \subseteq Tx
  /\ submits \in 0..MaxSubmits
  /\ isStopping \in BOOLEAN
  /\ bad \subseteq Tx /\ relayed \subseteq Tx /\ held \subseteq Tx /\ localTxs \subseteq Tx
  /\ completed \subseteq Client

Init ==
  /\ mTransactions = {} /\ mApplying = {} /\ mDispatchState = "none" /\ jobs = 0
  /\ batch = [h \in Thread |-> {}]
  /\ pc = [h \in Thread |-> "idle"]
  /\ call = [h \in Thread |-> NoCall]
  /\ arriving = {} /\ submits = 0 /\ isStopping = FALSE
  /\ bad = {} /\ relayed = {} /\ held = {} /\ localTxs = {}
  /\ completed = {}

-----------------------------------------------------------------------------
(***************************************************************************)
(* processTransaction up to the choice between sync and async: nothing is  *)
(* done for a transaction that is known to be bad.  No lock is held.       *)
(***************************************************************************)
processTransactionLocal(c, x, failHard) ==
  /\ pc[c] = "idle"
  /\ x \notin bad
  /\ submits < MaxSubmits
  /\ submits' = submits + 1
  /\ pc' = [pc EXCEPT ![c] = "checked"]
  /\ call' = [call EXCEPT ![c] = [transaction |-> x, local |-> TRUE, failHard |-> failHard]]
  /\ completed' = completed \ {c}
  /\ UNCHANGED <<queueVars, batch, arriving, isStopping, effectVars>>

processTransactionPeer(x) ==
  /\ x \notin bad /\ x \notin arriving
  /\ submits < MaxSubmits
  /\ submits' = submits + 1
  /\ arriving' = arriving \cup {x}
  /\ UNCHANGED <<queueVars, threadVars, isStopping, effectVars>>

(***************************************************************************)
(* addJob of a batch job, which the job queue drops while stopping.        *)
(***************************************************************************)
addBatchJob == jobs' = IF isStopping THEN jobs ELSE jobs + 1

(***************************************************************************)
(* doTransactionAsync: queue the transaction, and schedule a batch job if  *)
(* none is on its way.                                                     *)
(***************************************************************************)
mustSchedule == mDispatchState = "none"

doTransactionAsync(x) ==
  /\ x \in arriving
  /\ arriving' = arriving \ {x}
  /\ IF x \in mApplying THEN UNCHANGED queueVars
     ELSE /\ mTransactions' = mTransactions \cup
               {[transaction |-> x, local |-> FALSE, failHard |-> FALSE]}
          /\ mApplying' = mApplying \cup {x}
          /\ IF mustSchedule THEN addBatchJob /\ mDispatchState' = "scheduled"
             ELSE UNCHANGED <<jobs, mDispatchState>>
  /\ UNCHANGED <<threadVars, submits, isStopping, effectVars>>

-----------------------------------------------------------------------------
(***************************************************************************)
(* The body of doTransactionSync's loop, with Q queued: wait for the batch *)
(* that runs, else apply Q (apply up to its unlock).                       *)
(***************************************************************************)
mayApply == mDispatchState # "running"

applyBegin(h, Q) ==
  /\ batch' = [batch EXCEPT ![h] = Q]
  /\ mTransactions' = {}
  /\ mDispatchState' = "running"
  /\ pc' = [pc EXCEPT ![h] = "applying"]

syncLoop(c, Q) ==
  IF mayApply THEN applyBegin(c, Q)
  ELSE /\ pc' = [pc EXCEPT ![c] = "waiting"]
       /\ mTransactions' = Q
       /\ UNCHANGED <<batch, mDispatchState>>

\* Mutant: a transaction is queued although it is being applied.
withCall_Always(c) == mTransactions \cup {call[c]}

withCall(c) ==
  IF call[c].transaction \in mApplying THEN mTransactions ELSE mTransactions \cup {call[c]}

doTransactionSync(c) ==
  /\ pc[c] = "checked"
  /\ syncLoop(c, withCall(c))
  /\ mApplying' = mApplying \cup {call[c].transaction}
  /\ UNCHANGED <<jobs, call, completed, inputVars, effectVars>>

\* Mutant: the first wake-up ends the wait.
mustWait_Once(c) == FALSE

(***************************************************************************)
(* mCond.wait returns, notified or not, with mMutex held; the loop goes on *)
(* while the transaction is marked.                                        *)
(***************************************************************************)
mustWait(c) == call[c].transaction \in mApplying

syncReturn(c) ==
  /\ pc' = [pc EXCEPT ![c] = "idle"]
  /\ call' = [call EXCEPT ![c] = NoCall]

SyncWake(c) ==
  /\ pc[c] \in {"waiting", "woken"}
  /\ IF mustWait(c)
       THEN syncLoop(c, mTransactions) /\ UNCHANGED call
       ELSE syncReturn(c) /\ UNCHANGED <<batch, mTransactions, mDispatchState>>
  /\ UNCHANGED <<mApplying, jobs, completed, inputVars, effectVars>>

(***************************************************************************)
(* A batch job runs: nothing to do if a batch is running or none queued.   *)
(* While stopping it is skipped, unless it passed that check before.       *)
(***************************************************************************)
transactionBatch(w) ==
  /\ pc[w] = "idle"
  /\ jobs > 0
  /\ jobs' = jobs - 1
  /\ \/ /\ mDispatchState # "running" /\ mTransactions # {}
        /\ applyBegin(w, mTransactions)
     \/ /\ mDispatchState = "running" \/ mTransactions = {} \/ isStopping
        /\ UNCHANGED <<batch, pc, mTransactions, mDispatchState>>
  /\ UNCHANGED <<mApplying, call, completed, inputVars, effectVars>>

(***************************************************************************)
(* apply under the master lock: a result for every transaction and what    *)
(* follows from it.  "full" is the operating mode.                         *)
(***************************************************************************)
holds(e, ter) ==
  \/ ter = "terQUEUED"
  \/ ter = "terRETRY" /\ ~e.failHard

addsLocal(e, ter) == e.local /\ ~(ter = "terRETRY" /\ e.failHard)

relays(e, ter, full) ==
  \/ ter \in {"tesSUCCESS", "tecCLAIM", "terQUEUED"}
  \/ ~full /\ ~e.failHard /\ e.local

applyProcess(h, result, full) ==
  /\ pc[h] = "applying"
  /\ pc' = [pc EXCEPT ![h] = "applied"]
  /\ bad' = bad \cup
       transactionsOf({e \in batch[h] : result[e.transaction] = "temMALFORMED"})
  /\ held' = held \cup transactionsOf({e \in batch[h] : holds(e, result[e.transaction])})
  /\ localTxs' = localTxs \cup
       transactionsOf({e \in batch[h] : addsLocal(e, result[e.transaction])})
  /\ relayed' = relayed \cup
       transactionsOf({e \in batch[h] : relays(e, result[e.transaction], full)})
  /\ UNCHANGED <<queueVars, batch, call, completed, inputVars>>

\* Mutant: a client does not look at the queue again.
leftOver_Ignored == FALSE

\* Mutant: nobody is woken.
notified_None(g) == FALSE

(***************************************************************************)
(* apply from its second lock: the flags are cleared and every waiting     *)
(* thread is woken.  The lock is kept: a client then schedules what was    *)
(* queued meanwhile and returns, a batch job goes on with it.              *)
(***************************************************************************)
leftOver == mTransactions # {}

notified(g) == pc[g] = "waiting"

applyEnd(h) ==
  /\ mApplying' = mApplying \ transactionsOf(batch[h])
  /\ completed' = completed \cup
       {c \in Client : /\ pc[c] \in {"waiting", "woken", "applied"}
                      /\ call[c].transaction \in transactionsOf(batch[h])}

awake == [g \in Thread |-> IF notified(g) THEN "woken" ELSE pc[g]]

SyncApplied(c) ==
  /\ pc[c] = "applied"
  /\ applyEnd(c)
  /\ IF leftOver THEN addBatchJob /\ mDispatchState' = "scheduled"
     ELSE mDispatchState' = "none" /\ UNCHANGED jobs
  /\ IF call[c].transaction \in mApplying'
       THEN pc' = [awake EXCEPT ![c] = "woken"] /\ UNCHANGED call
       ELSE pc' = [awake EXCEPT ![c] = "idle"] /\ call' = [call EXCEPT ![c] = NoCall]
  /\ batch' = [batch EXCEPT ![c] = {}]
  /\ UNCHANGED <<mTransactions, inputVars, effectVars>>

BatchApplied(w) ==
  /\ pc[w] = "applied"
  /\ applyEnd(w)
  /\ batch' = [batch EXCEPT ![w] = mTransactions]
  /\ mTransactions' = {}
  /\ mDispatchState' = IF mTransactions # {} THEN "running" ELSE "none"
  /\ pc' = [awake EXCEPT ![w] = IF mTransactions # {} THEN "applying" ELSE "idle"]
  /\ UNCHANGED <<jobs, call, inputVars, effectVars>>

StopAsync ==
  /\ ~isStopping
  /\ isStopping' = TRUE
  /\ UNCHANGED <<queueVars, threadVars, arriving, submits, effectVars>>

Process(h) ==
  \E result \in [transactionsOf(batch[h]) -> Result], full \in BOOLEAN :
    applyProcess(h, result, full)

Next ==
  \/ \E c \in Client :
       \/ \E x \in Tx, failHard \in BOOLEAN : processTransactionLocal(c, x, failHard)
       \/ doTransactionSync(c) \/ SyncWake(c) \/ SyncApplied(c)
  \/ \E x \in Tx : processTransactionPeer(x) \/ doTransactionAsync(x)
  \/ \E w \in Worker : transactionBatch(w) \/ BatchApplied(w)
  \/ \E h \in Thread : Process(h)
  \/ StopAsync

(***************************************************************************)
(* Every thread inside a call goes on, except that a thread that waits on  *)
(* mCond is only sure to go on once it was notified; batch jobs are run.   *)
(***************************************************************************)
Fairness ==
  /\ \A c \in Client :
       /\ WF_vars(doTransactionSync(c) \/ (pc[c] = "woken" /\ SyncWake(c)))
       /\ WF_vars(Process(c) \/ SyncApplied(c))
  /\ \A w \in Worker : WF_vars(transactionBatch(w) \/ Process(w) \/ BatchApplied(w))
  /\ \A x \in Tx : WF_vars(doTransactionAsync(x))

Spec == Init /\ [][Next]_vars /\ Fairness

-----------------------------------------------------------------------------
(***************************************************************************)
(* The asserts of apply: at most one batch is applied at a time, just      *)
(* while mDispatchState is running, and no batch is empty.                 *)
(***************************************************************************)
OneBatch ==
  /\ mDispatchState = "running" <=> RunningThreads # {}
  /\ \A g, h \in RunningThreads : g = h
  /\ \A h \in RunningThreads : batch[h] # {}

(***************************************************************************)
(* mApplying marks exactly the transactions queued or in the batch, each   *)
(* of them once: none is applied twice for one submission, and a client    *)
(* never waits for one that nobody holds.                                  *)
(***************************************************************************)
InFlight ==
  {e \in TransactionStatus : e \in mTransactions \/ \E h \in Thread : e \in batch[h]}

ApplyingOnce ==
  /\ mApplying = transactionsOf(InFlight)
  /\ \A d, e \in InFlight : d.transaction = e.transaction => d = e
  /\ \A h \in Thread : batch[h] \cap mTransactions = {}

(***************************************************************************)
(* Transactions that are queued are not forgotten: a batch is running, and *)
(* its thread will look at the queue again, or a job is on its way, unless *)
(* the server stops.                                                       *)
(***************************************************************************)
NothingStranded ==
  mTransactions # {} =>
    \/ mDispatchState = "running"
    \/ mDispatchState = "scheduled" /\ (jobs > 0 \/ isStopping)

(***************************************************************************)
(* "apply batch of transactions and wait for this transaction to complete" *)
(* (doTransactionSync): a client returns only after a batch with its       *)
(* transaction was applied since it called.                                *)
(***************************************************************************)
ReturnsWithResult ==
  [][\A c \in Client : pc[c] # "idle" /\ pc'[c] = "idle" => c \in completed']_vars

(***************************************************************************)
(* Every client's call of doTransactionSync returns, stopping or not.      *)
(***************************************************************************)
CallsReturn == \A c \in Client : pc[c] # "idle" ~> pc[c] = "idle"

(***************************************************************************)
(* Every transaction that is queued is applied, unless the server stops:   *)
(* doTransactionAsync leaves it to a batch that somebody else starts.      *)
(***************************************************************************)
QueuedAreApplied ==
  \A x \in Tx : x \in mApplying ~> x \notin mApplying \/ isStopping

(***************************************************************************)
(* Every submission comes to its end: the client's call returns, and what  *)
(* was queued without a client waiting for it is applied.                  *)
(***************************************************************************)
EverySubmissionEnds == CallsReturn /\ QueuedAreApplied
=============================================================================
