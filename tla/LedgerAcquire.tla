---------------------------- MODULE LedgerAcquire ----------------------------
(***************************************************************************)
(* Acquiring ledgers: InboundLedgers, its list of acquisitions, and        *)
(* InboundLedger with the timer of PeerSet.                                *)
(*                                                                         *)
(* An acquisition asks peers for the parts of a ledger it misses.  Replies *)
(* are stashed and handled by jobs, of which several may run; a timer asks *)
(* again, and gives up after RetriesMax retries without progress, but only *)
(* for the acquisition at the front of the list.  What is done stays in    *)
(* the list until it is swept, a minute after it was last touched.  A job  *)
(* that works on an acquisition may outlive it there, while another one    *)
(* for the same ledger is begun.                                           *)
(*                                                                         *)
(* The header, the state tree and the transaction tree are one part each;  *)
(* SHAMapSync models the trees.  A part that was received or found is in   *)
(* the node store for good.  Requests leave no trace here: a reply is      *)
(* taken whether or not it was asked for, so any may come at any time, or  *)
(* never, and what filterNodes holds back is left open, and so is mByHash  *)
(* where a reply triggers: it depends on the peers there were.             *)
(* A minute may pass between any two steps, so mLastAction is left out and *)
(* anything may be swept (acquire's touch of what it finds has no effect   *)
(* here).                                                                  *)
(***************************************************************************)
EXTENDS Integers, FiniteSets, FiniteSetsExt

CONSTANTS
  Ledger,       \* hashes that are acquired
  Reasons,      \* Reasons[h]: what h is acquired for (fcReason)
  NotLedger,    \* the ones that hash something else than a ledger header
  NoTx,         \* the ones without transactions (a zero transaction hash)
  NoState,      \* the ones with a zero account hash
  Misplaced,    \* trees with a node out of its bounds: pairs of a hash and a part
  Worker,       \* threads of the job queue that handle replies
  Acq,          \* bound: the acquisitions made, 1 .. n
  Stored,       \* Stored[h]: the parts that were in the node store from the start
  Pack,         \* the parts that fetch packs bring: pairs of a hash and a part
  RetriesMax,   \* ledgerTimeoutRetriesMax
  Aggressive,   \* ledgerBecomeAggressiveThreshold
  MaxReplies    \* bound: replies that come

Part == {"header", "state", "tx"}
Reason == {"fcHISTORY", "fcGENERIC", "fcVALIDATION", "fcCURRENT", "fcCONSENSUS"}

ASSUME AcquireAssumption ==
  /\ NotLedger \subseteq Ledger /\ NoTx \subseteq Ledger /\ NoState \subseteq Ledger
  /\ Ledger # {} /\ Reasons \in [Ledger -> SUBSET Reason]
  /\ Misplaced \subseteq Ledger \X {"state", "tx"}
  /\ IsFiniteSet(Acq) /\ Acq = 1 .. Cardinality(Acq)
  /\ Stored \in [Ledger -> SUBSET Part]
  /\ Pack \subseteq Ledger \X Part
  /\ RetriesMax \in Nat /\ Aggressive \in Nat /\ MaxReplies \in Nat

VARIABLES
  have,       \* have[h]: the parts of ledger h in the node store or in a fetch pack
  acq,        \* acq[x]: acquisition x, an InboundLedger
  replies,    \* how many replies came
  made,       \* how many acquisitions were made
  mLedgers,   \* the acquisitions in the list; its order is that of their numbers
  dataJobs,   \* dataJobs[h]: "processLedgerData" jobs that are queued
  doneJobs,   \* doneJobs[x]: LADispatch jobs that are queued for x
  reported,   \* the acquisitions whose outcome the ledger master, or the failures, got
  returned,   \* the ones whose ledger acquire found at once and returned
  worker      \* worker[w]: what thread w does: the part of runData it is in

vars == <<have, acq, replies, made, mLedgers, dataJobs, doneJobs, reported, returned, worker>>

(***************************************************************************)
(* An acquisition: which parts it knows to be there (mHaveHeader,          *)
(* mHaveState, mHaveTransactions), the outcome, whether the timer is set   *)
(* or its job queued, the stashed replies, and whether getMissingNodes has *)
(* found the state tree whole (not isSynching).                            *)
(***************************************************************************)
NewAcq(h) ==
  [hash |-> h, got |-> {}, mComplete |-> FALSE, mFailed |-> FALSE, mSignaled |-> FALSE,
   mTimeouts |-> 0, mProgress |-> FALSE, mReceivedData |-> {},
   mReceiveDispatched |-> FALSE, synched |-> FALSE, timer |-> FALSE]

NoJob == [at |-> "idle", x |-> 0, data |-> {}, missing |-> FALSE, chosenPeer |-> FALSE]

\* The trees that a header says are empty.
zero(h) == (IF h \in NoTx THEN {"tx"} ELSE {}) \cup (IF h \in NoState THEN {"state"} ELSE {})
needed(h) == Part \ zero(h)
isDone(o) == o.mComplete \/ o.mFailed
find(h) == {x \in mLedgers : acq[x].hash = h}

\* Acquisitions are appended, and numbered, as they are made: the front is the lowest.
isAcquiring(h) == mLedgers # {} /\ acq[Min(mLedgers)].hash = h

\* The objects that a job, or the list, holds a shared_ptr to.
held(x) == doneJobs[x] > 0 \/ \E w \in Worker : worker[w].x = x
alive(x) == x \in mLedgers \/ held(x)

Init ==
  /\ have = Stored /\ acq = [x \in Acq |-> NewAcq(CHOOSE h \in Ledger : TRUE)] /\ made = 0 /\ replies = 0
  /\ mLedgers = {}
  /\ dataJobs = [h \in Ledger |-> 0] /\ doneJobs = [x \in Acq |-> 0] /\ reported = {} /\ returned = {}
  /\ worker = [w \in Worker |-> NoJob]

-----------------------------------------------------------------------------
(***************************************************************************)
(* Steps of an InboundLedger under its lock, as functions of the object.   *)
(***************************************************************************)
\* takeHeader: an empty tree is there with the header.
withHeader(o) == [o EXCEPT !.got = @ \cup {"header"} \cup zero(o.hash)]

\* mComplete is set when the state and the transactions are there.
\* Mutant: the transactions are not asked about.
setComplete_StateOnly(o) == [o EXCEPT !.mComplete = @ \/ "state" \in o.got]
setComplete(o) == [o EXCEPT !.mComplete = @ \/ {"state", "tx"} \subseteq o.got]

\* What is found under the hash may be no ledger, and a zero account hash is not
\* accepted here: the acquisition fails, and it is the caller's to say so.
withTx(o) == [o EXCEPT !.got = @ \cup {"header"} \cup (({"tx"} \cap zero(o.hash)) \cup ({"tx"} \cap have[o.hash]))]
tryLocal(o) ==
  IF "header" \notin o.got \cup have[o.hash] THEN o
  ELSE IF "header" \notin o.got /\ o.hash \in NotLedger THEN [o EXCEPT !.mFailed = TRUE]
  ELSE IF "state" \notin o.got /\ o.hash \in NoState THEN [withTx(o) EXCEPT !.mFailed = TRUE]
  ELSE setComplete([withTx(o) EXCEPT !.got = @ \cup ({"state"} \cap have[o.hash])])

\* done: the outcome is dispatched once, when nobody else is in done.
done(o) == IF o.mSignaled THEN o ELSE [o EXCEPT !.mSignaled = TRUE]
doneIf(o) == IF isDone(o) THEN done(o) ELSE o

\* checkLocal
\* Mutant: nobody is told.
checkLocal_Silent(o) == IF isDone(o) THEN o ELSE tryLocal(o)
checkLocal(o) == IF isDone(o) THEN o ELSE doneIf(tryLocal(o))

(***************************************************************************)
(* trigger, in the parts between which it may give up the lock.  Where a   *)
(* request is sent the function returns; where filterNodes leaves nothing  *)
(* to ask for, it goes on.  At its end done is called if there is an       *)
(* outcome.                                                                *)
(***************************************************************************)
triggerTx(o) ==
  IF "tx" \in o.got \cup have[o.hash] /\ ~o.mFailed
  THEN setComplete([o EXCEPT !.got = @ \cup {"tx"}]) ELSE o

\* With the lock again after getMissingNodes: "make sure nothing happened while
\* we released the lock".
\* Mutant: nothing is looked at again.
triggerState_Unchecked(o, missing, filtered) ==
  IF ~missing THEN triggerTx(setComplete([o EXCEPT !.got = @ \cup {"state"}]))
  ELSE IF filtered THEN triggerTx(o) ELSE o
triggerState(o, missing, filtered) ==
  IF isDone(o) \/ "state" \in o.got THEN triggerTx(o)
  ELSE IF ~missing THEN triggerTx(setComplete([o EXCEPT !.got = @ \cup {"state"}]))
  ELSE IF filtered THEN triggerTx(o) ELSE o

\* trigger up to where the state tree is looked at.  After some timeouts it asks
\* by hash for what is needed, and is complete if that is nothing.
nothingNeeded(o) ==
  /\ o.mTimeouts > Aggressive /\ ~o.mProgress /\ ~o.mFailed
  /\ "header" \in o.got /\ needed(o.hash) \subseteq o.got \cup have[o.hash]
triggerHeader(o, byHash) ==
  LET p == IF "header" \in o.got THEN o ELSE tryLocal(o) IN
  IF byHash /\ nothingNeeded(p) THEN [p EXCEPT !.got = Part, !.mComplete = TRUE] ELSE p

\* getMissingNodes on the state tree.
lookForMissing(o) == [o EXCEPT !.synched = @ \/ "state" \in have[o.hash]]

\* trigger where the lock is held by the caller as well (it is recursive).
trigger(o, filtered) ==
  LET p == triggerHeader(o, TRUE) IN
  IF isDone(o) THEN o ELSE IF "header" \notin p.got \/ p.mFailed THEN p
  ELSE doneIf(triggerState(IF "state" \in p.got THEN p ELSE lookForMissing(p),
                           "state" \notin have[p.hash], filtered))

\* acq[x] becomes o; a job is queued if done was passed on the way.
update(x, o) ==
  /\ acq' = [acq EXCEPT ![x] = o]
  /\ doneJobs' = [doneJobs EXCEPT ![x] = @ + IF o.mSignaled /\ ~acq[x].mSignaled THEN 1 ELSE 0]

-----------------------------------------------------------------------------
(***************************************************************************)
(* InboundLedgers                                                          *)
(***************************************************************************)
\* acquire and init: what is all there is returned, and offered for acceptance for
\* some reasons only; a failure is kept to itself.  Else peers are asked (for
\* history, only by the timer) and the timer set.
tells(reason) == reason \in {"fcVALIDATION", "fcCURRENT", "fcCONSENSUS"}

acquire(h, reason) ==
  /\ find(h) = {} /\ made + 1 \in Acq /\ reason \in Reasons[h]
  /\ made' = made + 1 /\ mLedgers' = mLedgers \cup {made'}
  /\ LET o == tryLocal(NewAcq(h)) IN
     IF isDone(o)
     THEN /\ acq' = [acq EXCEPT ![made'] = o] /\ UNCHANGED doneJobs
          /\ returned' = IF o.mFailed THEN returned ELSE returned \cup {made'}
          /\ reported' = IF o.mFailed \/ ~tells(reason) THEN reported ELSE reported \cup {made'}
     ELSE \E f \in BOOLEAN :
          /\ LET p == IF reason = "fcHISTORY" THEN o ELSE trigger(o, f)
             IN update(made', [p EXCEPT !.timer = TRUE])
          /\ UNCHANGED <<reported, returned>>
  /\ UNCHANGED <<replies, have, dataJobs, worker>>

\* A reply from a peer stashed for a job.
\* gotStaleData keeps the state nodes of a ledger that is not acquired any more.
gotLedgerData(h, p) ==
  /\ p \in needed(h) /\ replies < MaxReplies /\ replies' = replies + 1
  /\ \/ /\ find(h) = {} \/ \E x \in find(h) : isDone(acq[x])
        /\ have' = IF find(h) # {} \/ p # "state" THEN have ELSE [have EXCEPT ![h] = @ \cup {p}]
        /\ UNCHANGED <<acq, dataJobs>>
     \/ /\ \E x \in find(h) :
             /\ ~isDone(acq[x])
             /\ acq' = [acq EXCEPT ![x].mReceivedData = @ \cup {p}, ![x].mReceiveDispatched = TRUE]
             /\ dataJobs' = [dataJobs EXCEPT ![h] = @ + IF acq[x].mReceiveDispatched THEN 0 ELSE 1]
        /\ UNCHANGED have
  /\ UNCHANGED <<made, mLedgers, doneJobs, reported, returned, worker>>

\* A fetch pack, or replies to requests by hash: every acquisition looks again.
gotFetchPack(x, p) ==
  /\ x \in mLedgers /\ <<acq[x].hash, p>> \in Pack
  /\ IF p \in have[acq[x].hash]
     THEN update(x, checkLocal(acq[x])) /\ UNCHANGED have
     ELSE have' = [have EXCEPT ![acq[x].hash] = @ \cup {p}] /\ UNCHANGED <<acq, doneJobs>>
  /\ UNCHANGED <<replies, made, mLedgers, dataJobs, reported, returned, worker>>

\* ~InboundLedger: state nodes that were not looked at are kept.
Gone(o) == [NewAcq(o.hash) EXCEPT !.mSignaled = TRUE]
destroyed(x) ==
  /\ have' = [have EXCEPT ![acq[x].hash] = @ \cup (acq[x].mReceivedData \cap {"state"})]
  /\ acq' = [acq EXCEPT ![x] = Gone(@)]

\* sweep; clearFailures and onStop, which empty the list, are several of these.
sweep(x) ==
  /\ x \in mLedgers /\ mLedgers' = mLedgers \ {x}
  /\ IF held(x) THEN UNCHANGED <<have, acq>> ELSE destroyed(x)
  /\ UNCHANGED <<replies, made, dataJobs, doneJobs, reported, returned, worker>>

\* The last job that held a swept acquisition has ended.
destroy(x) ==
  /\ x <= made /\ ~alive(x) /\ acq[x] # Gone(acq[x]) /\ destroyed(x)
  /\ UNCHANGED <<replies, made, mLedgers, dataJobs, doneJobs, reported, returned, worker>>

-----------------------------------------------------------------------------
(***************************************************************************)
(* PeerSet's timer.  Its job is one step: it holds the lock throughout.    *)
(***************************************************************************)
\* InboundLedger::onTimer.  An acquisition that is not at the front only waits.
givesUp(p) == p.mTimeouts > RetriesMax

onTimer(p, wasProgress) ==
  IF ~isAcquiring(p.hash) THEN {[p EXCEPT !.mProgress = TRUE]}
  ELSE IF givesUp(p) THEN {done([p EXCEPT !.mFailed = TRUE])}
  ELSE IF wasProgress THEN {p}
  ELSE {trigger(checkLocal(p), f) : f \in BOOLEAN}

\* The timer is set again unless there is an outcome.
setTimer(o) == [o EXCEPT !.timer = ~isDone(o)]

tick(o) == IF o.mProgress THEN [o EXCEPT !.mProgress = FALSE] ELSE [o EXCEPT !.mTimeouts = @ + 1]

invokeOnTimer(x) ==
  LET o == acq[x] IN
  /\ o.timer /\ alive(x)
  /\ \E q \in IF isDone(o) THEN {o} ELSE onTimer(tick(o), o.mProgress) : update(x, setTimer(q))
  /\ UNCHANGED <<replies, have, made, mLedgers, dataJobs, reported, returned, worker>>

-----------------------------------------------------------------------------
(***************************************************************************)
(* A job that handles replies: doLedgerData and runData                    *)
(***************************************************************************)
goto(w, j) == worker' = [worker EXCEPT ![w] = j]

doLedgerData(w, h) ==
  /\ worker[w].at = "idle" /\ dataJobs[h] > 0
  /\ dataJobs' = [dataJobs EXCEPT ![h] = @ - 1]
  /\ IF find(h) = {} THEN UNCHANGED worker
     ELSE \E x \in find(h) : goto(w, [NoJob EXCEPT !.at = "drain", !.x = x])
  /\ UNCHANGED <<replies, have, acq, made, mLedgers, doneJobs, reported, returned>>

\* Under mReceivedDataLock: take all that is stashed, or stop.
\* Mutant: the flag stays set.
drainFlag_Kept(o) == o
drainFlag(o) == [o EXCEPT !.mReceiveDispatched = FALSE]
drain(w) ==
  LET j == worker[w]  o == acq[worker[w].x] IN
  /\ j.at = "drain"
  /\ IF o.mReceivedData = {}
     THEN /\ acq' = [acq EXCEPT ![j.x] = drainFlag(o)]
          /\ goto(w, IF j.chosenPeer THEN [NoJob EXCEPT !.at = "trigger", !.x = j.x] ELSE NoJob)
     ELSE /\ acq' = [acq EXCEPT ![j.x].mReceivedData = {}]
          /\ goto(w, [j EXCEPT !.at = "process", !.data = o.mReceivedData])
  /\ UNCHANGED <<replies, have, made, mLedgers, dataJobs, doneJobs, reported, returned>>

\* processData: takeHeader, takeAsNode and takeTxNode; leaf: the reply is the
\* root of a tree that is one leaf, and so the whole tree.  A node out of its
\* bounds makes a tree Invalid, which is not synching either: the node is not
\* stored, and the tree is taken for whole.  (So the tree of an acquisition that
\* has no state, or no transactions, is never found invalid by trigger.)
takes(o, p) ==
  CASE p = "header" -> "header" \notin o.got /\ ~isDone(o) /\ o.hash \notin NotLedger
    [] OTHER -> "header" \in o.got /\ p \notin o.got /\ ~o.mFailed
isInvalid(h, p) == <<h, p>> \in Misplaced
stores(o, p) == takes(o, p) /\ ~isInvalid(o.hash, p)
isWhole(o, p, leaf) == (p = "state" /\ o.synched) \/ (p = "tx" /\ leaf) \/ isInvalid(o.hash, p)
processData(o, p, leaf) ==
  IF ~takes(o, p) THEN o
  ELSE IF p = "header" THEN [withHeader(o) EXCEPT !.mProgress = TRUE]
  ELSE LET q == [o EXCEPT !.mProgress = @ \/ p \notin have[o.hash]] IN
       IF isWhole(o, p, leaf)
       THEN doneIf(setComplete([q EXCEPT !.got = @ \cup {p}])) ELSE q

process(w) ==
  LET j == worker[w]  o == acq[worker[w].x] IN
  /\ j.at = "process"
  /\ \E p \in j.data :
       LET rest == j.data \ {p}
           next == [j EXCEPT !.data = rest, !.at = IF rest = {} THEN "drain" ELSE @] IN
       /\ \E q \in {processData(o, p, leaf) : leaf \in BOOLEAN} : update(j.x, q)
       /\ have' = IF stores(o, p) THEN [have EXCEPT ![o.hash] = @ \cup {p}] ELSE have
       /\ goto(w, [next EXCEPT !.chosenPeer = TRUE])
  /\ UNCHANGED <<replies, made, mLedgers, dataJobs, reported, returned>>

\* trigger (a reply came), up to where the lock is released.
triggerReply(w) ==
  LET j == worker[w] IN
  /\ j.at = "trigger"
  /\ \/ isDone(acq[j.x]) /\ goto(w, NoJob) /\ UNCHANGED acq
     \/ \E p \in {triggerHeader(acq[j.x], byHash) : byHash \in BOOLEAN} :
          /\ ~isDone(acq[j.x])
          /\ \/ /\ "header" \notin p.got \/ p.mFailed
                /\ acq' = [acq EXCEPT ![j.x] = p] /\ goto(w, NoJob)
             \/ /\ "header" \in p.got /\ "state" \notin p.got /\ ~p.mFailed
                /\ acq' = [acq EXCEPT ![j.x] = p] /\ goto(w, [j EXCEPT !.at = "missing"])
             \/ /\ {"header", "state"} \subseteq p.got /\ ~p.mFailed
                /\ acq' = [acq EXCEPT ![j.x] = triggerTx(p)]
                /\ goto(w, IF isDone(triggerTx(p)) THEN [j EXCEPT !.at = "done"] ELSE NoJob)
  /\ UNCHANGED <<replies, have, made, mLedgers, dataJobs, doneJobs, reported, returned>>

\* getMissingNodes without the lock.
getMissing(w) ==
  LET j == worker[w]  o == acq[worker[w].x] IN
  /\ j.at = "missing"
  /\ acq' = [acq EXCEPT ![j.x] = lookForMissing(o)]
  /\ goto(w, [j EXCEPT !.at = "relock", !.missing = "state" \notin have[o.hash]])
  /\ UNCHANGED <<replies, have, made, mLedgers, dataJobs, doneJobs, reported, returned>>

relock(w) ==
  LET j == worker[w] IN
  /\ j.at = "relock"
  /\ \E q \in {triggerState(acq[j.x], j.missing, f) : f \in BOOLEAN} :
       /\ acq' = [acq EXCEPT ![j.x] = q]
       /\ goto(w, IF isDone(q) THEN [NoJob EXCEPT !.at = "done", !.x = j.x] ELSE NoJob)
  /\ UNCHANGED <<replies, have, made, mLedgers, dataJobs, doneJobs, reported, returned>>

\* done without the lock: mSignaled is read, and then set.
doneReads(w) ==
  /\ worker[w].at = "done"
  /\ goto(w, IF acq[worker[w].x].mSignaled THEN NoJob ELSE [worker[w] EXCEPT !.at = "signal"])
  /\ UNCHANGED <<replies, have, acq, made, mLedgers, dataJobs, doneJobs, reported, returned>>

doneSets(w) ==
  LET x == worker[w].x IN
  /\ worker[w].at = "signal" /\ goto(w, NoJob)
  /\ acq' = [acq EXCEPT ![x] = [@ EXCEPT !.mSignaled = TRUE]]
  /\ doneJobs' = [doneJobs EXCEPT ![x] = @ + 1]
  /\ UNCHANGED <<replies, have, made, mLedgers, dataJobs, reported, returned>>

\* checkAccept and tryAdvance, or logFailure: the ledger master is told, or finds
\* the hash among the recent failures.
LADispatch(x) ==
  /\ doneJobs[x] > 0 /\ doneJobs' = [doneJobs EXCEPT ![x] = @ - 1]
  /\ reported' = reported \cup {x}
  /\ UNCHANGED <<replies, have, acq, made, mLedgers, dataJobs, returned, worker>>

-----------------------------------------------------------------------------
runData(w) ==
  \/ \E h \in Ledger : doLedgerData(w, h)
  \/ drain(w) \/ process(w) \/ triggerReply(w) \/ getMissing(w) \/ relock(w)
  \/ doneReads(w) \/ doneSets(w)

Next ==
  \/ \E h \in Ledger :
       \/ \E reason \in Reason : acquire(h, reason)
       \/ \E p \in Part : gotLedgerData(h, p)
  \/ \E x \in Acq :
       \/ \E p \in Part : gotFetchPack(x, p)
       \/ sweep(x) \/ destroy(x) \/ invokeOnTimer(x) \/ LADispatch(x)
  \/ \E w \in Worker : runData(w)

Spec == Init /\ [][Next]_vars

-----------------------------------------------------------------------------
Inbound ==
  [hash : Ledger, got : SUBSET Part, mComplete : BOOLEAN, mFailed : BOOLEAN,
   mSignaled : BOOLEAN, mTimeouts : 0 .. RetriesMax + 1, mProgress : BOOLEAN,
   mReceivedData : SUBSET Part, mReceiveDispatched : BOOLEAN, synched : BOOLEAN, timer : BOOLEAN]

Job ==
  [at : {"idle", "drain", "process", "trigger", "missing", "relock", "done", "signal"},
   x : 0 .. made, data : SUBSET Part, missing : BOOLEAN, chosenPeer : BOOLEAN]

\* The variables have their types; timeouts stop at the limit that makes an
\* acquisition fail (onTimer's comparison with ledgerTimeoutRetriesMax).
TypeOK ==
  /\ have \in [Ledger -> SUBSET Part] /\ replies \in 0 .. MaxReplies /\ made \in 0 .. Cardinality(Acq)
  /\ mLedgers \subseteq 1 .. made /\ reported \subseteq 1 .. made /\ returned \subseteq 1 .. made
  /\ dataJobs \in [Ledger -> Nat] /\ doneJobs \in [Acq -> Nat]
  /\ acq \in [Acq -> Inbound] /\ worker \in [Worker -> Job]

\* The parts that are in the node store when they are had.
storable(h) == {p \in needed(h) : ~isInvalid(h, p)}

\* One acquisition of a ledger is in the list at a time, and what it calls
\* complete is a ledger of which every part is there, but for a tree with a node
\* out of its bounds (acquire, and the ways in which mComplete is set: tryLocal,
\* replies, trigger and its look at what is needed).
CompleteIsWhole ==
  /\ \A x, y \in mLedgers : acq[x].hash = acq[y].hash => x = y
  /\ \A x \in Acq : acq[x].mComplete => storable(acq[x].hash) \subseteq have[acq[x].hash]

\* A reply that was stashed for an acquisition in the list is not forgotten: a
\* job for that ledger is queued or is taking replies (gotData against runData).
NoReplyForgotten ==
  \A x \in mLedgers :
    acq[x].mReceivedData # {} =>
      \/ dataJobs[acq[x].hash] > 0
      \/ \E w \in Worker : worker[w].x = x /\ worker[w].at \in {"drain", "process"}

\* The outcome of an acquisition is final: a job that held stale knowledge while
\* the lock was released does not turn a failure into a success or back.
OutcomeIsFinal ==
  [][\A x \in Acq : isDone(acq[x]) /\ alive(x)' =>
       /\ acq'[x].mComplete = acq[x].mComplete /\ acq'[x].mFailed = acq[x].mFailed]_vars

\* A failure that a look at what is here found, and that nobody was told of: init
\* and trigger return without done where tryLocal fails.
Silent(o) == o.mFailed /\ ~o.mSignaled /\ o.hash \in NotLedger \cup NoState

\* No outcome is lost, whoever found the last part and whether or not the
\* acquisition is swept meanwhile: the ledger master or the failures got it, its
\* job is queued, or a thread is on its way to queue it (the unlocked done at the
\* end of trigger against the ones under the lock).  What acquire finds at once
\* its caller has, and the ledger master only for some reasons.  The one outcome
\* nobody gets is the failure of a hash that cannot be acquired.
NoOutcomeLost ==
  \A x \in Acq : isDone(acq[x]) =>
    \/ x \in reported \cup returned \/ doneJobs[x] > 0
    \/ \E w \in Worker : worker[w].x = x /\ worker[w].at \in {"done", "signal"}
    \/ Silent(acq[x])

\* An acquisition in the list that has no outcome has its timer set, so that it
\* is retried or given up, and those behind it get their turn (init, and every
\* way out of invokeOnTimer).
NotAbandoned ==
  \A x \in mLedgers : isDone(acq[x]) \/ acq[x].timer

\* An acquisition in the list always has somebody to carry it on: a job for the
\* replies it has stashed, and its timer until it has an outcome.
NothingForgotten == NoReplyForgotten /\ NotAbandoned
=============================================================================
