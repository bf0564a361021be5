------------------------------ MODULE JobQueue ------------------------------
(***************************************************************************)
(* The job queue that every thread of radard shares                        *)
(* (src/src/ripple/core/impl/JobQueue.cpp), together with the worker pool  *)
(* that runs its jobs (src/src/beast/beast/module/core/thread/Workers.cpp, *)
(* a fixed number of threads here) and the Stoppable protocol that shuts   *)
(* it down (src/src/beast/beast/threads/impl/Stoppable.cpp).               *)
(*                                                                         *)
(* One semaphore token is one call of processTask.  A job whose type is at *)
(* its limit gets no token when it is queued; it is counted in "deferred"  *)
(* and finishJob issues the token later.  Tokens carry no job: the worker  *)
(* takes the best job whose type is below its limit.                       *)
(***************************************************************************)
EXTENDS Integers, FiniteSets

CONSTANTS
  JobType,      \* the job types, numbers ordered as the enum JobType is
  Limit,        \* [JobType -> positive number]: JobTypeInfo::limit
  SkipOnStop,   \* the types dropped while stopping: JobTypeInfo::skip
  Worker,       \* the threads of the pool
  Client,       \* the other threads that call addJob (Stoppable children)
  MaxJobs       \* bound: jobs added in one behaviour

ASSUME JobQueueAssumption ==
  /\ JobType \subseteq Nat
  /\ Limit \in [JobType -> Nat \ {0}]
  /\ SkipOnStop \subseteq JobType
  /\ Worker \cap Client = {}
  /\ IsFiniteSet(Worker)
  /\ MaxJobs \in Nat

VARIABLES
  m_lastJob,      \* index of the last job added
  m_jobSet,       \* the jobs that wait
  waiting, running, deferred,   \* JobTypeData, per type
  m_processCount, \* calls inside processTask
  m_semaphore,    \* Workers: tokens not yet taken
  pc,             \* per worker: where it is in Worker::run / processTask
  job,            \* per worker: the Job of its processTask call
  adding,         \* per thread: the type its addJob call is about to insert
  isStopping, m_childrenStopped, stoppedEvent, m_stopped,
  notified        \* stopRecursive has called onChildrenStopped

dataVars == <<waiting, running, deferred>>
stopVars == <<isStopping, m_childrenStopped, stoppedEvent, m_stopped, notified>>
vars == <<m_lastJob, m_jobSet, waiting, running, deferred, m_processCount,
          m_semaphore, pc, job, adding, isStopping, m_childrenStopped,
          stoppedEvent, m_stopped, notified>>

Job == [type : JobType, index : Nat]
NoJob == [type |-> -1, index |-> 0]
NoType == -1

(***************************************************************************)
(* Job::operator<: higher types first, then the order of insertion.        *)
(***************************************************************************)
Before(a, b) ==
  \/ a.type > b.type
  \/ a.type = b.type /\ a.index < b.index

(***************************************************************************)
(* Types; in particular no counter of JobTypeData, nor m_processCount, is  *)
(* ever decremented below zero (getNextJob, finishJob, processTask).       *)
(***************************************************************************)
TypeOK ==
  /\ m_lastJob \in Nat
  /\ m_jobSet \subseteq Job
  /\ waiting \in [JobType -> Nat]
  /\ running \in [JobType -> Nat]
  /\ deferred \in [JobType -> Nat]
  /\ m_processCount \in Nat
  /\ m_semaphore \in Nat
  /\ pc \in [Worker -> {"idle", "woken", "got", "doing", "finish"}]
  /\ job \in [Worker -> Job \cup {NoJob}]
  /\ adding \in [Worker \cup Client -> JobType \cup {NoType}]
  /\ isStopping \in BOOLEAN
  /\ m_childrenStopped \in BOOLEAN
  /\ stoppedEvent \in BOOLEAN
  /\ m_stopped \in BOOLEAN
  /\ notified \in BOOLEAN

Init ==
  /\ m_lastJob = 0
  /\ m_jobSet = {}
  /\ waiting = [t \in JobType |-> 0]
  /\ running = [t \in JobType |-> 0]
  /\ deferred = [t \in JobType |-> 0]
  /\ m_processCount = 0
  /\ m_semaphore = 0
  /\ pc = [w \in Worker |-> "idle"]
  /\ job = [w \in Worker |-> NoJob]
  /\ adding = [c \in Worker \cup Client |-> NoType]
  /\ isStopping = FALSE
  /\ m_childrenStopped = FALSE
  /\ stoppedEvent = FALSE
  /\ m_stopped = FALSE
  /\ notified = FALSE

-----------------------------------------------------------------------------
(***************************************************************************)
(* addJob, called by a job that runs or by another thread before its       *)
(* Stoppable has stopped.  isStopping is read without the lock, and the    *)
(* insertion happens under the lock later: another step of its own.        *)
(***************************************************************************)
MayAdd(c) ==
  IF c \in Worker THEN pc[c] = "doing" ELSE ~m_childrenStopped

AddJobCheck(c, t) ==
  /\ MayAdd(c)
  /\ adding[c] = NoType
  /\ ~(isStopping /\ t \in SkipOnStop)
  /\ m_lastJob + Cardinality({d \in DOMAIN adding : adding[d] # NoType}) < MaxJobs
  /\ adding' = [adding EXCEPT ![c] = t]
  /\ UNCHANGED <<m_lastJob, m_jobSet, dataVars, m_processCount, m_semaphore,
                 pc, job, stopVars>>

\* Mutant: running jobs are not counted.
HasRoom_Waiting(t) == waiting[t] < Limit[t]

(***************************************************************************)
(* queueJob: a token if the type has room, else the job is deferred.       *)
(***************************************************************************)
HasRoom(t) == waiting[t] + running[t] < Limit[t]

queueJob(t) ==
  /\ IF HasRoom(t)
       THEN m_semaphore' = m_semaphore + 1 /\ UNCHANGED deferred
       ELSE deferred' = [deferred EXCEPT ![t] = @ + 1] /\ UNCHANGED m_semaphore
  /\ waiting' = [waiting EXCEPT ![t] = @ + 1]

AddJobInsert(c) ==
  LET t == adding[c] IN
  /\ t # NoType
  /\ m_lastJob' = m_lastJob + 1
  /\ m_jobSet' = m_jobSet \cup {[type |-> t, index |-> m_lastJob']}
  /\ queueJob(t)
  /\ adding' = [adding EXCEPT ![c] = NoType]
  /\ UNCHANGED <<running, m_processCount, pc, job, stopVars>>

-----------------------------------------------------------------------------
(***************************************************************************)
(* Worker::run: m_semaphore.wait() returns.                                *)
(***************************************************************************)
Wake(w) ==
  /\ pc[w] = "idle"
  /\ m_semaphore > 0
  /\ m_semaphore' = m_semaphore - 1
  /\ pc' = [pc EXCEPT ![w] = "woken"]
  /\ UNCHANGED <<m_lastJob, m_jobSet, dataVars, m_processCount, job, adding,
                 stopVars>>

(***************************************************************************)
(* getNextJob: the first job in the set's order whose type runs below its  *)
(* limit.                                                                  *)
(***************************************************************************)
Runnable == {j \in m_jobSet : running[j.type] < Limit[j.type]}

getNextJob(w) ==
  /\ pc[w] = "woken"
  /\ \E j \in Runnable :
       /\ \A k \in Runnable \ {j} : Before(j, k)
       /\ job' = [job EXCEPT ![w] = j]
       /\ m_jobSet' = m_jobSet \ {j}
       /\ waiting' = [waiting EXCEPT ![j.type] = @ - 1]
       /\ running' = [running EXCEPT ![j.type] = @ + 1]
  /\ m_processCount' = m_processCount + 1
  /\ pc' = [pc EXCEPT ![w] = "got"]
  /\ UNCHANGED <<m_lastJob, deferred, m_semaphore, adding, stopVars>>

(***************************************************************************)
(* processTask between its two critical sections: the job is skipped when  *)
(* the queue is stopping and its type says so, else doJob is called.       *)
(***************************************************************************)
doJob(w) ==
  /\ pc[w] = "got"
  /\ pc' = [pc EXCEPT ![w] =
              IF isStopping /\ job[w].type \in SkipOnStop THEN "finish" ELSE "doing"]
  /\ UNCHANGED <<m_lastJob, m_jobSet, dataVars, m_processCount, m_semaphore,
                 job, adding, stopVars>>

(***************************************************************************)
(* The job's function returns.                                             *)
(***************************************************************************)
JobReturns(w) ==
  /\ pc[w] = "doing"
  /\ adding[w] = NoType
  /\ pc' = [pc EXCEPT ![w] = "finish"]
  /\ UNCHANGED <<m_lastJob, m_jobSet, dataVars, m_processCount, m_semaphore,
                 job, adding, stopVars>>

\* Mutant: jobs being processed are forgotten.
checkStopped_Busy ==
  stoppedEvent' = (stoppedEvent \/ (isStopping /\ m_childrenStopped /\ m_jobSet' = {}))

\* Mutant: nobody announces the end.
checkStopped_Never == stoppedEvent' = stoppedEvent

(***************************************************************************)
(* checkStopped, evaluated on the values at the end of a critical section. *)
(***************************************************************************)
checkStopped ==
  stoppedEvent' = (stoppedEvent \/ ( /\ isStopping
                                     /\ m_childrenStopped
                                     /\ m_processCount' = 0
                                     /\ m_jobSet' = {}))

\* Mutant: the token is forgotten.
release_NoToken(t) ==
  /\ deferred' = [deferred EXCEPT ![t] = IF @ > 0 THEN @ - 1 ELSE 0]
  /\ UNCHANGED m_semaphore

(***************************************************************************)
(* finishJob: a deferred job of the type gets its token.                   *)
(***************************************************************************)
release(t) ==
  IF deferred[t] > 0
    THEN /\ deferred' = [deferred EXCEPT ![t] = @ - 1]
         /\ m_semaphore' = m_semaphore + 1
    ELSE UNCHANGED <<deferred, m_semaphore>>

finishJob(w) ==
  LET t == job[w].type IN
  /\ pc[w] = "finish"
  /\ release(t)
  /\ running' = [running EXCEPT ![t] = @ - 1]
  /\ m_processCount' = m_processCount - 1
  /\ job' = [job EXCEPT ![w] = NoJob]
  /\ pc' = [pc EXCEPT ![w] = "idle"]
  /\ UNCHANGED <<m_lastJob, m_jobSet, waiting, adding, isStopping,
                 m_childrenStopped, m_stopped, notified>>
  /\ checkStopped

-----------------------------------------------------------------------------
(***************************************************************************)
(* RootStoppable::stopAsync; JobQueue::onStop does nothing.                *)
(***************************************************************************)
StopAsync ==
  /\ ~isStopping
  /\ isStopping' = TRUE
  /\ UNCHANGED <<m_lastJob, m_jobSet, dataVars, m_processCount, m_semaphore,
                 pc, job, adding, m_childrenStopped, stoppedEvent, m_stopped,
                 notified>>

(***************************************************************************)
(* Stoppable::stopRecursive: every child has stopped, so none of its       *)
(* threads is inside addJob, and m_childrenStopped is set without a lock.  *)
(***************************************************************************)
ChildrenStopped ==
  /\ isStopping
  /\ ~m_childrenStopped
  /\ \A c \in Client : adding[c] = NoType
  /\ m_childrenStopped' = TRUE
  /\ UNCHANGED <<m_lastJob, m_jobSet, dataVars, m_processCount, m_semaphore,
                 pc, job, adding, isStopping, stoppedEvent, m_stopped, notified>>

(***************************************************************************)
(* Then it calls onChildrenStopped, which takes the queue's lock.          *)
(***************************************************************************)
onChildrenStopped ==
  /\ m_childrenStopped
  /\ ~notified
  /\ notified' = TRUE
  /\ UNCHANGED <<m_lastJob, m_jobSet, dataVars, m_processCount, m_semaphore,
                 pc, job, adding, isStopping, m_childrenStopped, m_stopped>>
  /\ checkStopped

(***************************************************************************)
(* stopRecursive's wait on m_stoppedEvent returns.                         *)
(***************************************************************************)
StopDone ==
  /\ notified
  /\ stoppedEvent
  /\ ~m_stopped
  /\ m_stopped' = TRUE
  /\ UNCHANGED <<m_lastJob, m_jobSet, dataVars, m_processCount, m_semaphore,
                 pc, job, adding, isStopping, m_childrenStopped, stoppedEvent,
                 notified>>

Next ==
  \/ \E c \in Worker \cup Client :
       \/ \E t \in JobType : AddJobCheck(c, t)
       \/ AddJobInsert(c)
  \/ \E w \in Worker :
       Wake(w) \/ getNextJob(w) \/ doJob(w) \/ JobReturns(w) \/ finishJob(w)
  \/ StopAsync \/ ChildrenStopped \/ onChildrenStopped \/ StopDone

(***************************************************************************)
(* The operating system runs every thread, and a job's function returns.   *)
(* Nobody has to call addJob or stop the server; once it is told to stop,  *)
(* the thread in RootStoppable::stop carries on.                           *)
(***************************************************************************)
Fairness ==
  /\ \A c \in Worker \cup Client : WF_vars(AddJobInsert(c))
  /\ \A w \in Worker : WF_vars(Wake(w) \/ getNextJob(w) \/ doJob(w)
                                 \/ JobReturns(w) \/ finishJob(w))
  /\ WF_vars(ChildrenStopped) /\ WF_vars(onChildrenStopped) /\ WF_vars(StopDone)

Spec == Init /\ [][Next]_vars /\ Fairness

-----------------------------------------------------------------------------
JobsOf(t) == {j \in m_jobSet : j.type = t}
RunnersOf(t) == {w \in Worker : job[w].type = t}
Woken == {w \in Worker : pc[w] = "woken"}

(***************************************************************************)
(* JobQueue::getNextJob asserts that it finds a job below its limit: a     *)
(* thread that was woken always finds one, whatever job the token was      *)
(* issued for and however many other threads took jobs before it.          *)
(***************************************************************************)
WokenFindsJob ==
  \A w \in Worker : pc[w] = "woken" => Runnable # {}

(***************************************************************************)
(* No type ever runs above its limit, and a deferral is outstanding only   *)
(* while the tokens issued and the jobs running fill the limit: the assert *)
(* in finishJob, in the exact form the accounting keeps.                   *)
(***************************************************************************)
LimitRespected ==
  \A t \in JobType :
    /\ running[t] = Cardinality(RunnersOf(t))
    /\ waiting[t] = Cardinality(JobsOf(t))
    /\ deferred[t] <= waiting[t]
    /\ waiting[t] - deferred[t] + running[t] <= Limit[t]
    /\ deferred[t] > 0 => waiting[t] - deferred[t] + running[t] = Limit[t]

(***************************************************************************)
(* Every call of addTask leads to one call of processTask: the tokens left *)
(* and the threads woken by one together are as many as the jobs that wait *)
(* and are not deferred, whichever jobs one counts as the deferred ones.   *)
(***************************************************************************)
CountAsDeferred(D) ==
  /\ \A t \in JobType : Cardinality(D \cap JobsOf(t)) = deferred[t]
  /\ m_semaphore + Cardinality(Woken) = Cardinality(m_jobSet \ D)

TokensMatchJobs == \E D \in SUBSET m_jobSet : CountAsDeferred(D)

(***************************************************************************)
(* checkStopped: once the queue has announced that it stopped, no job      *)
(* waits, none is being processed and none can still be inserted.          *)
(***************************************************************************)
StoppedIsQuiet ==
  stoppedEvent => /\ m_jobSet = {}
                  /\ m_processCount = 0
                  /\ \A c \in Worker \cup Client : adding[c] = NoType

(***************************************************************************)
(* "If JobQueue exists, and has at least one thread, Job will eventually   *)
(* run" (JobQueue.h): no job waits for ever, deferred ones included.       *)
(***************************************************************************)
EveryJobLeaves ==
  \A i \in 1..MaxJobs :
    (\E j \in m_jobSet : j.index = i) ~> ~(\E j \in m_jobSet : j.index = i)

(***************************************************************************)
(* A stop that was requested completes.                                    *)
(***************************************************************************)
StopCompletes == isStopping ~> m_stopped
=============================================================================
