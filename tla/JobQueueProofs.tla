--------------------------- MODULE JobQueueProofs ---------------------------
(***************************************************************************)
(* Proofs about the job queue, for every set of job types and limits, every *)
(* number of worker threads, clients and jobs.                             *)
(***************************************************************************)
EXTENDS JobQueue, FiniteSetTheorems, TLAPS

Busy == {w \in Worker : pc[w] \in {"got", "doing", "finish"}}

(***************************************************************************)
(* What the code keeps besides the properties: the set is finite and       *)
(* ordered by index, a worker holds a job exactly inside processTask, only *)
(* a running job or a live client is inside addJob, and the end is         *)
(* announced on an empty queue.                                            *)
(***************************************************************************)
Structure ==
  /\ IsFiniteSet(m_jobSet)
  /\ \A j \in m_jobSet : j.index <= m_lastJob
  /\ \A w \in Worker : job[w] = NoJob <=> pc[w] \in {"idle", "woken"}
  /\ \A w \in Worker : adding[w] # NoType => pc[w] = "doing"
  /\ m_processCount = Cardinality(Busy)

StopOrder ==
  /\ m_childrenStopped => isStopping /\ \A c \in Client : adding[c] = NoType
  /\ stoppedEvent => m_childrenStopped /\ m_jobSet = {} /\ m_processCount = 0

IInv == TypeOK /\ Structure /\ StopOrder /\ LimitRespected /\ TokensMatchJobs

-----------------------------------------------------------------------------
(***************************************************************************)
(* Adding and removing an element changes a cardinality by one.            *)
(***************************************************************************)
LEMMA CardAdd ==
  ASSUME NEW S, IsFiniteSet(S), NEW x, x \notin S
  PROVE  /\ IsFiniteSet(S \cup {x})
         /\ Cardinality(S) \in Nat
         /\ Cardinality(S \cup {x}) = Cardinality(S) + 1
  BY FS_AddElement, FS_CardinalityType

LEMMA CardRemove ==
  ASSUME NEW S, IsFiniteSet(S), NEW x \in S
  PROVE  /\ IsFiniteSet(S \ {x})
         /\ Cardinality(S) \in Nat
         /\ Cardinality(S) > 0
         /\ Cardinality(S \ {x}) = Cardinality(S) - 1
<1>1. /\ IsFiniteSet(S \ {x})
      /\ Cardinality(S \ {x}) = Cardinality(S) - 1
  BY FS_RemoveElement
<1>2. Cardinality(S) \in Nat /\ Cardinality(S \ {x}) \in Nat
  BY <1>1, FS_CardinalityType
<1> QED
  BY <1>1, <1>2

(***************************************************************************)
(* The sets whose sizes the invariants speak of are finite.                *)
(***************************************************************************)
LEMMA FiniteParts ==
  ASSUME TypeOK, Structure
  PROVE  /\ \A t \in JobType : IsFiniteSet(JobsOf(t)) /\ IsFiniteSet(RunnersOf(t))
         /\ IsFiniteSet(Woken)
         /\ IsFiniteSet(Busy)
<1>1. IsFiniteSet(m_jobSet) /\ IsFiniteSet(Worker)
  BY JobQueueAssumption DEF Structure
<1>2. ASSUME NEW t \in JobType
      PROVE  IsFiniteSet(JobsOf(t)) /\ IsFiniteSet(RunnersOf(t))
  <2>1. JobsOf(t) \subseteq m_jobSet /\ RunnersOf(t) \subseteq Worker
    BY DEF JobsOf, RunnersOf
  <2> QED
    BY <1>1, <2>1, FS_Subset
<1>3. Woken \subseteq Worker /\ Busy \subseteq Worker
  BY DEF Woken, Busy
<1> QED
  BY <1>1, <1>2, <1>3, FS_Subset

-----------------------------------------------------------------------------
(***************************************************************************)
(* The queue starts empty.                                                 *)
(***************************************************************************)
LEMMA InitInv == Init => IInv
<1> SUFFICES ASSUME Init
             PROVE  IInv
  OBVIOUS
<1> USE JobQueueAssumption
<1>e. IsFiniteSet({}) /\ Cardinality({}) = 0
  BY FS_EmptySet
<1>1. TypeOK
  BY DEF Init, TypeOK, NoType, NoJob
<1>2. Structure
  <2>1. Busy = {}
    BY DEF Init, Busy
  <2> QED
    BY <1>e, <2>1 DEF Init, Structure, NoType
<1>3. StopOrder
  BY DEF Init, StopOrder
<1>4. LimitRespected
  <2> SUFFICES ASSUME NEW t \in JobType
               PROVE  /\ RunnersOf(t) = {}
                      /\ JobsOf(t) = {}
    BY <1>e DEF Init, LimitRespected
  <2> QED
    BY DEF Init, RunnersOf, JobsOf, NoJob
<1>5. TokensMatchJobs
  <2>1. Woken = {} /\ m_jobSet \ {} = {}
    BY DEF Init, Woken
  <2>2. \A t \in JobType : {} \cap JobsOf(t) = {}
    OBVIOUS
  <2>3. CountAsDeferred({})
    BY <1>e, <2>1, <2>2 DEF Init, CountAsDeferred
  <2> QED
    BY <2>3 DEF TokensMatchJobs
<1> QED
  BY <1>1, <1>2, <1>3, <1>4, <1>5 DEF IInv

-----------------------------------------------------------------------------
(***************************************************************************)
(* addJob's insertion: the new job gets a token or joins the deferred ones. *)
(***************************************************************************)
LEMMA AddJobInsertInv ==
  ASSUME IInv, NEW c \in Worker \cup Client, AddJobInsert(c)
  PROVE  IInv'
<1> USE JobQueueAssumption
<1>0. TypeOK /\ Structure /\ StopOrder /\ LimitRespected
  BY DEF IInv
<1>t. PICK t \in JobType : t = adding[c]
  BY <1>0 DEF AddJobInsert, TypeOK
<1>j. PICK j : j = [type |-> t, index |-> m_lastJob + 1]
  OBVIOUS
<1>1. /\ j \in Job
      /\ j.type = t
      /\ j.index = m_lastJob + 1
      /\ j \notin m_jobSet
      /\ m_jobSet' = m_jobSet \cup {j}
      /\ m_lastJob' = m_lastJob + 1
      /\ waiting' = [waiting EXCEPT ![t] = @ + 1]
      /\ UNCHANGED <<running, m_processCount, pc, job, stopVars>>
      /\ adding' = [adding EXCEPT ![c] = NoType]
  BY <1>0, <1>t, <1>j DEF AddJobInsert, queueJob, TypeOK, Structure, Job
<1>2. \/ HasRoom(t) /\ m_semaphore' = m_semaphore + 1 /\ deferred' = deferred
      \/ ~HasRoom(t) /\ m_semaphore' = m_semaphore
           /\ deferred' = [deferred EXCEPT ![t] = @ + 1]
  BY <1>t DEF AddJobInsert, queueJob
<1>3. TypeOK'
  <2>1. UNCHANGED <<isStopping, m_childrenStopped, stoppedEvent, m_stopped, notified>>
    BY <1>1 DEF stopVars
  <2>2. m_jobSet' \subseteq Job /\ m_lastJob' \in Nat
    BY <1>0, <1>1 DEF TypeOK
  <2>3. /\ waiting' \in [JobType -> Nat]
        /\ deferred' \in [JobType -> Nat]
        /\ m_semaphore' \in Nat
    BY <1>0, <1>1, <1>2 DEF TypeOK
  <2>4. adding' \in [Worker \cup Client -> JobType \cup {NoType}]
    BY <1>0, <1>1 DEF TypeOK
  <2> QED
    BY <1>0, <1>1, <2>1, <2>2, <2>3, <2>4 DEF TypeOK
<1>4. Structure'
  <2>1. IsFiniteSet(m_jobSet')
    BY <1>0, <1>1, CardAdd DEF Structure
  <2>2. \A k \in m_jobSet' : k.index <= m_lastJob'
    <3>1. \A k \in m_jobSet : k.index \in Nat /\ k.index <= m_lastJob
      BY <1>0 DEF Structure, TypeOK, Job
    <3>2. m_lastJob \in Nat
      BY <1>0 DEF TypeOK
    <3> QED
      BY <1>1, <3>1, <3>2
  <2>3. Busy' = Busy
    BY <1>1 DEF Busy
  <2> QED
    BY <1>0, <1>1, <2>1, <2>2, <2>3 DEF Structure, TypeOK, stopVars
<1>5. ~stoppedEvent
  <2> SUFFICES ASSUME stoppedEvent
               PROVE  FALSE
    OBVIOUS
  <2>1. c \in Worker
    BY <1>0, <1>1, <1>t DEF StopOrder, NoType
  <2>2. c \in Busy /\ Cardinality(Busy) = 0
    BY <1>0, <1>1, <1>t, <2>1 DEF StopOrder, Structure, Busy, NoType
  <2>3. IsFiniteSet(Busy)
    BY <1>0, FiniteParts
  <2>4. Cardinality(Busy) > 0
    BY <2>2, <2>3, CardRemove
  <2> QED
    BY <2>2, <2>4
<1>6. StopOrder'
  BY <1>0, <1>1, <1>5 DEF StopOrder, stopVars, TypeOK
<1>7. LimitRespected'
  <2> SUFFICES ASSUME NEW u \in JobType
               PROVE  /\ running'[u] = Cardinality(RunnersOf(u)')
                      /\ waiting'[u] = Cardinality(JobsOf(u)')
                      /\ deferred'[u] <= waiting'[u]
                      /\ waiting'[u] - deferred'[u] + running'[u] <= Limit[u]
                      /\ deferred'[u] > 0 =>
                           waiting'[u] - deferred'[u] + running'[u] = Limit[u]
    BY DEF LimitRespected
  <2>1. RunnersOf(u)' = RunnersOf(u)
    BY <1>1 DEF RunnersOf
  <2>2. JobsOf(u)' = IF u = t THEN JobsOf(u) \cup {j} ELSE JobsOf(u)
    BY <1>1 DEF JobsOf
  <2>3. j \notin JobsOf(u) /\ IsFiniteSet(JobsOf(u))
    BY <1>0, <1>1, FiniteParts DEF JobsOf
  <2>4. waiting'[u] = Cardinality(JobsOf(u)')
    <3>1. waiting[u] = Cardinality(JobsOf(u))
      BY <1>0 DEF LimitRespected
    <3>2. waiting'[u] = IF u = t THEN waiting[u] + 1 ELSE waiting[u]
      BY <1>0, <1>1 DEF TypeOK
    <3> QED
      BY <2>2, <2>3, <3>1, <3>2, CardAdd
  <2>5. /\ running[u] = Cardinality(RunnersOf(u))
        /\ deferred[u] <= waiting[u]
        /\ waiting[u] - deferred[u] + running[u] <= Limit[u]
        /\ deferred[u] > 0 => waiting[u] - deferred[u] + running[u] = Limit[u]
        /\ {waiting[u], deferred[u], running[u], Limit[u]} \subseteq Nat
    BY <1>0 DEF LimitRespected, TypeOK
  <2>6. running' = running
    BY <1>1
  <2>7. CASE u # t
    <3>1. waiting'[u] = waiting[u] /\ deferred'[u] = deferred[u]
      BY <1>0, <1>1, <1>2, <2>7 DEF TypeOK
    <3> QED
      BY <2>1, <2>4, <2>5, <2>6, <3>1
  <2>8. CASE u = t
    <3>1. waiting'[u] = waiting[u] + 1
      BY <1>0, <1>1, <2>8 DEF TypeOK
    <3>2. \/ waiting[u] + running[u] < Limit[u] /\ deferred'[u] = deferred[u]
          \/ ~(waiting[u] + running[u] < Limit[u]) /\ deferred'[u] = deferred[u] + 1
      BY <1>0, <1>2, <2>8 DEF TypeOK, HasRoom
    <3> QED
      BY <2>1, <2>4, <2>5, <2>6, <3>1, <3>2
  <2> QED
    BY <2>7, <2>8
<1>8. TokensMatchJobs'
  <2>1. PICK D \in SUBSET m_jobSet : CountAsDeferred(D)
    BY DEF IInv, TokensMatchJobs
  <2>2. IsFiniteSet(D) /\ j \notin D /\ IsFiniteSet(m_jobSet \ D)
    BY <1>0, <1>1, FS_Subset DEF Structure
  <2>3. Woken' = Woken
    BY <1>1 DEF Woken
  <2>4. CASE HasRoom(t)
    <3>1. \A u \in JobType : D \cap JobsOf(u)' = D \cap JobsOf(u)
      BY <1>1, <2>2 DEF JobsOf
    <3>2. m_jobSet' \ D = (m_jobSet \ D) \cup {j}
      BY <1>1, <2>2
    <3>3. Cardinality(m_jobSet' \ D) = Cardinality(m_jobSet \ D) + 1
      BY <1>1, <2>2, <3>2, CardAdd
    <3>4. m_semaphore' + Cardinality(Woken') = Cardinality(m_jobSet' \ D)
      <4>1. Cardinality(Woken) \in Nat
        BY <1>0, FiniteParts, FS_CardinalityType
      <4> QED
        BY <1>0, <1>2, <2>1, <2>3, <2>4, <3>3, <4>1 DEF CountAsDeferred, TypeOK
    <3>5. CountAsDeferred(D)'
      BY <1>2, <2>1, <2>4, <3>1, <3>4 DEF CountAsDeferred
    <3> QED
      BY <1>1, <3>5 DEF TokensMatchJobs
  <2>5. CASE ~HasRoom(t)
    <3>0. PICK E : E = D \cup {j}
      OBVIOUS
    <3>1. ASSUME NEW u \in JobType
          PROVE  Cardinality(E \cap JobsOf(u)') = deferred'[u]
      <4>1. E \cap JobsOf(u)' =
              IF u = t THEN (D \cap JobsOf(u)) \cup {j} ELSE D \cap JobsOf(u)
        BY <1>1, <2>2, <3>0 DEF JobsOf
      <4>2. IsFiniteSet(D \cap JobsOf(u)) /\ j \notin D \cap JobsOf(u)
        BY <2>2, FS_Subset
      <4>3. Cardinality(D \cap JobsOf(u)) = deferred[u]
        BY <2>1 DEF CountAsDeferred
      <4>4. deferred'[u] = IF u = t THEN deferred[u] + 1 ELSE deferred[u]
        BY <1>0, <1>1, <1>2, <2>5 DEF TypeOK
      <4> QED
        BY <4>1, <4>2, <4>3, <4>4, CardAdd
    <3>2. m_jobSet' \ E = m_jobSet \ D
      BY <1>1, <3>0
    <3>3. CountAsDeferred(E)'
      BY <1>2, <2>1, <2>3, <2>5, <3>1, <3>2 DEF CountAsDeferred
    <3> QED
      BY <1>1, <3>0, <3>3 DEF TokensMatchJobs
  <2> QED
    BY <2>4, <2>5
<1> QED
  BY <1>3, <1>4, <1>6, <1>7, <1>8 DEF IInv

(***************************************************************************)
(* A thread takes a token.                                                 *)
(***************************************************************************)
LEMMA WakeInv ==
  ASSUME IInv, NEW w \in Worker, Wake(w)
  PROVE  IInv'
<1> USE JobQueueAssumption
<1>0. TypeOK /\ Structure /\ StopOrder /\ LimitRespected
  BY DEF IInv
<1>1. /\ pc[w] = "idle"
      /\ m_semaphore' = m_semaphore - 1
      /\ m_semaphore > 0
      /\ pc' = [pc EXCEPT ![w] = "woken"]
      /\ UNCHANGED <<m_lastJob, m_jobSet, waiting, running, deferred,
                     m_processCount, job, adding, stopVars>>
  BY DEF Wake, dataVars
<1>2. TypeOK'
  BY <1>0, <1>1 DEF TypeOK, stopVars
<1>3. Structure'
  <2>1. Busy' = Busy
    BY <1>0, <1>1 DEF Busy, TypeOK
  <2> QED
    BY <1>0, <1>1, <2>1 DEF Structure, TypeOK
<1>4. StopOrder'
  BY <1>0, <1>1 DEF StopOrder, stopVars
<1>5. \A t \in JobType : RunnersOf(t)' = RunnersOf(t) /\ JobsOf(t)' = JobsOf(t)
  BY <1>1 DEF RunnersOf, JobsOf
<1>6. LimitRespected'
  BY <1>0, <1>1, <1>5 DEF LimitRespected
<1>7. TokensMatchJobs'
  <2>1. PICK D \in SUBSET m_jobSet : CountAsDeferred(D)
    BY DEF IInv, TokensMatchJobs
  <2>2. Woken' = Woken \cup {w} /\ w \notin Woken
    BY <1>0, <1>1 DEF Woken, TypeOK
  <2>3. /\ Cardinality(Woken') = Cardinality(Woken) + 1
        /\ Cardinality(Woken) \in Nat
    BY <1>0, <2>2, FiniteParts, CardAdd
  <2>4. m_semaphore' + Cardinality(Woken') = m_semaphore + Cardinality(Woken)
    BY <1>0, <1>1, <2>3 DEF TypeOK
  <2>5. CountAsDeferred(D)'
    BY <1>1, <1>5, <2>1, <2>4 DEF CountAsDeferred
  <2> QED
    BY <1>1, <2>5 DEF TokensMatchJobs
<1> QED
  BY <1>2, <1>3, <1>4, <1>6, <1>7 DEF IInv
(***************************************************************************)
(* getNextJob: if the job taken was counted as deferred, another job of    *)
(* its type takes its place, for the type runs below its limit.            *)
(***************************************************************************)
LEMMA GetNextJobInv ==
  ASSUME IInv, NEW w \in Worker, getNextJob(w)
  PROVE  IInv'
<1> USE JobQueueAssumption
<1>0. TypeOK /\ Structure /\ StopOrder /\ LimitRespected
  BY DEF IInv
<1>1. PICK j \in m_jobSet :
        /\ running[j.type] < Limit[j.type]
        /\ job' = [job EXCEPT ![w] = j]
        /\ m_jobSet' = m_jobSet \ {j}
        /\ waiting' = [waiting EXCEPT ![j.type] = @ - 1]
        /\ running' = [running EXCEPT ![j.type] = @ + 1]
  BY DEF getNextJob, Runnable
<1>2. /\ pc[w] = "woken"
      /\ m_processCount' = m_processCount + 1
      /\ pc' = [pc EXCEPT ![w] = "got"]
      /\ UNCHANGED <<m_lastJob, deferred, m_semaphore, adding, isStopping,
                     m_childrenStopped, stoppedEvent, m_stopped, notified>>
  BY DEF getNextJob, stopVars
<1>t. PICK t \in JobType : t = j.type
  BY <1>0 DEF TypeOK, Job
<1>j. j \in Job /\ j # NoJob
  BY <1>0 DEF TypeOK, Job, NoJob
<1>3. /\ IsFiniteSet(JobsOf(t)) /\ j \in JobsOf(t)
      /\ waiting[t] = Cardinality(JobsOf(t))
      /\ waiting[t] > 0
      /\ deferred[t] < waiting[t]
      /\ {waiting[t], deferred[t], running[t], Limit[t]} \subseteq Nat
  <2>1. IsFiniteSet(JobsOf(t)) /\ j \in JobsOf(t)
    BY <1>0, <1>t, FiniteParts DEF JobsOf
  <2>2. Cardinality(JobsOf(t)) > 0
    BY <2>1, CardRemove
  <2>3. /\ waiting[t] = Cardinality(JobsOf(t))
        /\ deferred[t] <= waiting[t]
        /\ deferred[t] > 0 => waiting[t] - deferred[t] + running[t] = Limit[t]
        /\ {waiting[t], deferred[t], running[t], Limit[t]} \subseteq Nat
    BY <1>0 DEF LimitRespected, TypeOK
  <2> QED
    BY <1>1, <1>t, <2>1, <2>2, <2>3
<1>4. TypeOK'
  <2>1. waiting' \in [JobType -> Nat] /\ running' \in [JobType -> Nat]
    BY <1>0, <1>1, <1>3, <1>t DEF TypeOK
  <2>2. job' \in [Worker -> Job \cup {NoJob}]
    BY <1>0, <1>1, <1>j DEF TypeOK
  <2> QED
    BY <1>0, <1>1, <1>2, <2>1, <2>2 DEF TypeOK
<1>5. Structure'
  <2>1. IsFiniteSet(m_jobSet')
    BY <1>0, <1>1, FS_Subset DEF Structure
  <2>2. Busy' = Busy \cup {w} /\ w \notin Busy
    BY <1>0, <1>2 DEF Busy, TypeOK
  <2>3. m_processCount' = Cardinality(Busy')
    BY <1>0, <1>2, <2>2, FiniteParts, CardAdd DEF Structure
  <2>4. \A v \in Worker : job'[v] = NoJob <=> pc'[v] \in {"idle", "woken"}
    BY <1>0, <1>1, <1>2, <1>j DEF Structure, TypeOK
  <2>5. \A v \in Worker : adding'[v] # NoType => pc'[v] = "doing"
    BY <1>0, <1>2 DEF Structure, TypeOK
  <2> QED
    BY <1>0, <1>1, <1>2, <2>1, <2>3, <2>4, <2>5 DEF Structure
<1>6. StopOrder'
  BY <1>0, <1>1, <1>2 DEF StopOrder
<1>7. LimitRespected'
  <2> SUFFICES ASSUME NEW u \in JobType
               PROVE  /\ running'[u] = Cardinality(RunnersOf(u)')
                      /\ waiting'[u] = Cardinality(JobsOf(u)')
                      /\ deferred'[u] <= waiting'[u]
                      /\ waiting'[u] - deferred'[u] + running'[u] <= Limit[u]
                      /\ deferred'[u] > 0 =>
                           waiting'[u] - deferred'[u] + running'[u] = Limit[u]
    BY DEF LimitRespected
  <2>1. /\ running[u] = Cardinality(RunnersOf(u))
        /\ waiting[u] = Cardinality(JobsOf(u))
        /\ deferred[u] <= waiting[u]
        /\ waiting[u] - deferred[u] + running[u] <= Limit[u]
        /\ deferred[u] > 0 => waiting[u] - deferred[u] + running[u] = Limit[u]
        /\ {waiting[u], deferred[u], running[u], Limit[u]} \subseteq Nat
    BY <1>0 DEF LimitRespected, TypeOK
  <2>2. IsFiniteSet(JobsOf(u)) /\ IsFiniteSet(RunnersOf(u))
    BY <1>0, FiniteParts
  <2>3. CASE u # t
    <3>1. waiting'[u] = waiting[u] /\ running'[u] = running[u]
      BY <1>0, <1>1, <1>t, <2>3 DEF TypeOK
    <3>2. JobsOf(u)' = JobsOf(u)
      BY <1>1, <1>t, <2>3 DEF JobsOf
    <3>3. RunnersOf(u)' = RunnersOf(u)
      <4>1. job[w] = NoJob /\ NoJob.type # u /\ j.type # u
        BY <1>0, <1>2, <1>t, <2>3 DEF Structure, NoJob
      <4> QED
        BY <1>0, <1>1, <4>1 DEF RunnersOf, TypeOK
    <3> QED
      BY <1>2, <2>1, <3>1, <3>2, <3>3
  <2>4. CASE u = t
    <3>1. waiting'[u] = waiting[u] - 1 /\ running'[u] = running[u] + 1
      BY <1>0, <1>1, <1>t, <2>4 DEF TypeOK
    <3>2. JobsOf(u)' = JobsOf(u) \ {j} /\ j \in JobsOf(u)
      BY <1>1, <1>t, <2>4 DEF JobsOf
    <3>3. RunnersOf(u)' = RunnersOf(u) \cup {w} /\ w \notin RunnersOf(u)
      <4>1. job[w] = NoJob /\ NoJob.type # u /\ j.type = u
        BY <1>0, <1>2, <1>t, <2>4 DEF Structure, NoJob
      <4> QED
        BY <1>0, <1>1, <4>1 DEF RunnersOf, TypeOK
    <3>4. /\ Cardinality(JobsOf(u)') = Cardinality(JobsOf(u)) - 1
          /\ Cardinality(RunnersOf(u)') = Cardinality(RunnersOf(u)) + 1
      BY <2>2, <3>2, <3>3, CardAdd, CardRemove
    <3> QED
      BY <1>2, <1>3, <2>1, <2>4, <3>1, <3>4
  <2> QED
    BY <2>3, <2>4
<1>8. TokensMatchJobs'
  <2>1. PICK D \in SUBSET m_jobSet : CountAsDeferred(D)
    BY DEF IInv, TokensMatchJobs
  <2>2. IsFiniteSet(D) /\ IsFiniteSet(m_jobSet \ D)
    BY <1>0, FS_Subset DEF Structure
  <2>3. /\ Cardinality(Woken') = Cardinality(Woken) - 1
        /\ Cardinality(Woken) \in Nat
    <3>1. Woken' = Woken \ {w} /\ w \in Woken
      BY <1>0, <1>2 DEF Woken, TypeOK
    <3> QED
      BY <1>0, <3>1, FiniteParts, CardRemove
  <2>4. ASSUME NEW x \in m_jobSet \ D, NEW E, E \subseteq m_jobSet \ {j},
               m_jobSet' \ E = (m_jobSet \ D) \ {x},
               \A u \in JobType :
                 Cardinality(E \cap JobsOf(u)') = Cardinality(D \cap JobsOf(u))
        PROVE  TokensMatchJobs'
    <3>1. Cardinality(m_jobSet' \ E) = Cardinality(m_jobSet \ D) - 1
      BY <2>2, <2>4, CardRemove
    <3>2. m_semaphore' + Cardinality(Woken') = Cardinality(m_jobSet' \ E)
      BY <1>0, <1>2, <2>1, <2>3, <3>1 DEF CountAsDeferred, TypeOK
    <3>3. CountAsDeferred(E)'
      BY <1>2, <2>1, <2>4, <3>2 DEF CountAsDeferred
    <3> QED
      BY <1>1, <2>4, <3>3 DEF TokensMatchJobs
  <2>5. CASE j \notin D
    <3>1. m_jobSet' \ D = (m_jobSet \ D) \ {j} /\ D \subseteq m_jobSet \ {j}
      BY <1>1, <2>5
    <3>2. \A u \in JobType : D \cap JobsOf(u)' = D \cap JobsOf(u)
      BY <1>1, <2>5 DEF JobsOf
    <3> QED
      BY <2>4, <2>5, <3>1, <3>2
  <2>6. CASE j \in D
    <3>1. PICK k \in JobsOf(t) : k \notin D
      <4> SUFFICES ASSUME JobsOf(t) \subseteq D
                   PROVE  FALSE
        OBVIOUS
      <4>1. D \cap JobsOf(t) = JobsOf(t)
        OBVIOUS
      <4>2. deferred[t] = waiting[t]
        BY <1>3, <2>1, <4>1 DEF CountAsDeferred
      <4> QED
        BY <1>3, <4>2
    <3>2. k \in m_jobSet \ D /\ k.type = t /\ k # j
      BY <2>6, <3>1 DEF JobsOf
    <3>3. PICK E : E = (D \ {j}) \cup {k}
      OBVIOUS
    <3>4. E \subseteq m_jobSet \ {j} /\ m_jobSet' \ E = (m_jobSet \ D) \ {k}
      BY <1>1, <2>6, <3>2, <3>3
    <3>5. ASSUME NEW u \in JobType
          PROVE  Cardinality(E \cap JobsOf(u)') = Cardinality(D \cap JobsOf(u))
      <4>1. CASE u # t
        <5>1. E \cap JobsOf(u)' = D \cap JobsOf(u)
          BY <1>1, <1>t, <3>2, <3>3, <4>1 DEF JobsOf
        <5> QED
          BY <5>1
      <4>2. CASE u = t
        <5>1. E \cap JobsOf(u)' = ((D \cap JobsOf(u)) \ {j}) \cup {k}
          BY <1>1, <1>t, <2>6, <3>2, <3>3, <4>2 DEF JobsOf
        <5>2. IsFiniteSet(D \cap JobsOf(u)) /\ j \in D \cap JobsOf(u)
          BY <1>3, <2>2, <2>6, <4>2, FS_Subset
        <5>3. k \notin (D \cap JobsOf(u)) \ {j}
          BY <3>2
        <5>4. /\ IsFiniteSet((D \cap JobsOf(u)) \ {j})
              /\ Cardinality((D \cap JobsOf(u)) \ {j}) = Cardinality(D \cap JobsOf(u)) - 1
              /\ Cardinality(D \cap JobsOf(u)) \in Nat
          BY <5>2, CardRemove
        <5>5. Cardinality(((D \cap JobsOf(u)) \ {j}) \cup {k})
                = Cardinality((D \cap JobsOf(u)) \ {j}) + 1
          BY <5>3, <5>4, CardAdd
        <5>6. Cardinality(((D \cap JobsOf(u)) \ {j}) \cup {k})
                = Cardinality(D \cap JobsOf(u))
          BY <5>4, <5>5
        <5> QED
          BY <5>1, <5>6, Zenon
      <4> QED
        BY <4>1, <4>2
    <3> QED
      BY <2>4, <3>2, <3>4, <3>5
  <2> QED
    BY <2>5, <2>6
<1> QED
  BY <1>4, <1>5, <1>6, <1>7, <1>8 DEF IInv
(***************************************************************************)
(* finishJob: one of the jobs counted as deferred gets the token.          *)
(***************************************************************************)
LEMMA FinishJobInv ==
  ASSUME IInv, NEW w \in Worker, finishJob(w)
  PROVE  IInv'
<1> USE JobQueueAssumption
<1>0. TypeOK /\ Structure /\ StopOrder /\ LimitRespected
  BY DEF IInv
<1>1. /\ pc[w] = "finish"
      /\ running' = [running EXCEPT ![job[w].type] = @ - 1]
      /\ m_processCount' = m_processCount - 1
      /\ job' = [job EXCEPT ![w] = NoJob]
      /\ pc' = [pc EXCEPT ![w] = "idle"]
      /\ UNCHANGED <<m_lastJob, m_jobSet, waiting, adding, isStopping,
                     m_childrenStopped, m_stopped, notified>>
  BY DEF finishJob
<1>t. PICK t \in JobType : t = job[w].type
  <2>1. job[w] \in Job
    BY <1>0, <1>1 DEF Structure, TypeOK
  <2> QED
    BY <2>1 DEF Job
<1>2. \/ /\ deferred[t] > 0
         /\ deferred' = [deferred EXCEPT ![t] = @ - 1]
         /\ m_semaphore' = m_semaphore + 1
      \/ ~(deferred[t] > 0) /\ UNCHANGED <<deferred, m_semaphore>>
  BY <1>t DEF finishJob, release
<1>3. stoppedEvent' = (stoppedEvent \/ ( /\ isStopping
                                         /\ m_childrenStopped
                                         /\ m_processCount' = 0
                                         /\ m_jobSet' = {}))
  BY DEF finishJob, checkStopped
<1>4. w \in Busy /\ IsFiniteSet(Busy) /\ m_processCount = Cardinality(Busy)
  BY <1>0, <1>1, FiniteParts DEF Busy, Structure
<1>5. /\ m_processCount > 0
      /\ Cardinality(Busy \ {w}) = m_processCount - 1
  BY <1>4, CardRemove
<1>6. /\ w \in RunnersOf(t) /\ IsFiniteSet(RunnersOf(t))
      /\ running[t] = Cardinality(RunnersOf(t))
      /\ running[t] > 0
  <2>1. /\ w \in RunnersOf(t) /\ IsFiniteSet(RunnersOf(t))
        /\ running[t] = Cardinality(RunnersOf(t))
    BY <1>0, <1>t, FiniteParts DEF RunnersOf, LimitRespected
  <2>2. Cardinality(RunnersOf(t)) > 0
    BY <2>1, CardRemove
  <2> QED
    BY <2>1, <2>2
<1>7. TypeOK'
  <2>1. running' \in [JobType -> Nat]
    BY <1>0, <1>1, <1>6, <1>t DEF TypeOK
  <2>2. deferred' \in [JobType -> Nat] /\ m_semaphore' \in Nat
    BY <1>0, <1>2 DEF TypeOK
  <2>3. m_processCount' \in Nat
    BY <1>0, <1>1, <1>5 DEF TypeOK
  <2>4. stoppedEvent' \in BOOLEAN
    BY <1>3
  <2>5. /\ job' \in [Worker -> Job \cup {NoJob}]
        /\ pc' \in [Worker -> {"idle", "woken", "got", "doing", "finish"}]
    BY <1>0, <1>1 DEF TypeOK
  <2> QED
    BY <1>0, <1>1, <2>1, <2>2, <2>3, <2>4, <2>5 DEF TypeOK
<1>8. Structure'
  <2>1. Busy' = Busy \ {w}
    BY <1>0, <1>1 DEF Busy, TypeOK
  <2>2. m_processCount' = Cardinality(Busy')
    BY <1>1, <1>5, <2>1
  <2>3. \A v \in Worker : job'[v] = NoJob <=> pc'[v] \in {"idle", "woken"}
    BY <1>0, <1>1 DEF Structure, TypeOK
  <2>4. \A v \in Worker : adding'[v] # NoType => pc'[v] = "doing"
    BY <1>0, <1>1 DEF Structure, TypeOK
  <2> QED
    BY <1>0, <1>1, <2>2, <2>3, <2>4 DEF Structure
<1>9. StopOrder'
  <2>1. ~stoppedEvent
    BY <1>0, <1>5 DEF StopOrder
  <2>2. stoppedEvent' => m_childrenStopped' /\ m_jobSet' = {} /\ m_processCount' = 0
    BY <1>1, <1>3, <2>1
  <2> QED
    BY <1>0, <1>1, <2>2 DEF StopOrder
<1>10. LimitRespected'
  <2> SUFFICES ASSUME NEW u \in JobType
               PROVE  /\ running'[u] = Cardinality(RunnersOf(u)')
                      /\ waiting'[u] = Cardinality(JobsOf(u)')
                      /\ deferred'[u] <= waiting'[u]
                      /\ waiting'[u] - deferred'[u] + running'[u] <= Limit[u]
                      /\ deferred'[u] > 0 =>
                           waiting'[u] - deferred'[u] + running'[u] = Limit[u]
    BY DEF LimitRespected
  <2>1. /\ running[u] = Cardinality(RunnersOf(u))
        /\ waiting[u] = Cardinality(JobsOf(u))
        /\ deferred[u] <= waiting[u]
        /\ waiting[u] - deferred[u] + running[u] <= Limit[u]
        /\ deferred[u] > 0 => waiting[u] - deferred[u] + running[u] = Limit[u]
        /\ {waiting[u], deferred[u], running[u], Limit[u]} \subseteq Nat
    BY <1>0 DEF LimitRespected, TypeOK
  <2>2. JobsOf(u)' = JobsOf(u) /\ waiting'[u] = waiting[u]
    BY <1>1 DEF JobsOf
  <2>3. CASE u # t
    <3>1. running'[u] = running[u] /\ deferred'[u] = deferred[u]
      BY <1>0, <1>1, <1>2, <1>t, <2>3 DEF TypeOK
    <3>2. RunnersOf(u)' = RunnersOf(u)
      <4>1. job[w].type # u /\ NoJob.type # u
        BY <1>t, <2>3 DEF NoJob
      <4> QED
        BY <1>0, <1>1, <4>1 DEF RunnersOf, TypeOK
    <3> QED
      BY <2>1, <2>2, <3>1, <3>2
  <2>4. CASE u = t
    <3>1. RunnersOf(u)' = RunnersOf(u) \ {w}
      <4>1. NoJob.type # u
        BY DEF NoJob
      <4> QED
        BY <1>0, <1>1, <4>1 DEF RunnersOf, TypeOK
    <3>2. Cardinality(RunnersOf(u)') = Cardinality(RunnersOf(u)) - 1
      BY <1>6, <2>4, <3>1, CardRemove
    <3>3. running'[u] = running[u] - 1
      BY <1>0, <1>1, <1>t, <2>4 DEF TypeOK
    <3>4. \/ deferred[u] > 0 /\ deferred'[u] = deferred[u] - 1
          \/ ~(deferred[u] > 0) /\ deferred'[u] = deferred[u]
      BY <1>0, <1>2, <2>4 DEF TypeOK
    <3> QED
      BY <2>1, <2>2, <3>2, <3>3, <3>4
  <2> QED
    BY <2>3, <2>4
<1>11. TokensMatchJobs'
  <2>1. PICK D \in SUBSET m_jobSet : CountAsDeferred(D)
    BY DEF IInv, TokensMatchJobs
  <2>2. IsFiniteSet(D) /\ IsFiniteSet(m_jobSet \ D)
    BY <1>0, FS_Subset DEF Structure
  <2>3. Woken' = Woken /\ \A u \in JobType : JobsOf(u)' = JobsOf(u)
    BY <1>0, <1>1 DEF Woken, JobsOf, TypeOK
  <2>4. CASE ~(deferred[t] > 0)
    <3>1. CountAsDeferred(D)'
      BY <1>1, <1>2, <2>1, <2>3, <2>4 DEF CountAsDeferred
    <3> QED
      BY <1>1, <3>1 DEF TokensMatchJobs
  <2>5. CASE deferred[t] > 0
    <3>1. Cardinality(D \cap JobsOf(t)) = deferred[t]
      BY <2>1 DEF CountAsDeferred
    <3>2. PICK k : k \in D \cap JobsOf(t)
      <4> SUFFICES ASSUME D \cap JobsOf(t) = {}
                   PROVE  FALSE
        OBVIOUS
      <4>1. Cardinality(D \cap JobsOf(t)) = 0
        BY FS_EmptySet
      <4> QED
        BY <2>5, <3>1, <4>1
    <3>3. PICK E : E = D \ {k}
      OBVIOUS
    <3>4. ASSUME NEW u \in JobType
          PROVE  Cardinality(E \cap JobsOf(u)') = deferred'[u]
      <4>1. Cardinality(D \cap JobsOf(u)) = deferred[u]
        BY <2>1 DEF CountAsDeferred
      <4>2. CASE u # t
        <5>1. E \cap JobsOf(u)' = D \cap JobsOf(u)
          BY <1>1, <3>2, <3>3, <4>2 DEF JobsOf
        <5>2. deferred'[u] = deferred[u]
          BY <1>0, <1>2, <4>2 DEF TypeOK
        <5> QED
          BY <4>1, <5>1, <5>2
      <4>3. CASE u = t
        <5>1. E \cap JobsOf(u)' = (D \cap JobsOf(u)) \ {k} /\ k \in D \cap JobsOf(u)
          BY <2>3, <3>2, <3>3, <4>3
        <5>2. IsFiniteSet(D \cap JobsOf(u))
          BY <2>2, FS_Subset
        <5>3. Cardinality((D \cap JobsOf(u)) \ {k}) = deferred[u] - 1
          BY <4>1, <5>1, <5>2, CardRemove
        <5>4. deferred'[u] = deferred[u] - 1
          BY <1>0, <1>2, <2>5, <4>3 DEF TypeOK
        <5> QED
          BY <5>1, <5>3, <5>4
      <4> QED
        BY <4>2, <4>3
    <3>5. m_jobSet' \ E = (m_jobSet \ D) \cup {k} /\ k \notin m_jobSet \ D
      BY <1>1, <3>2, <3>3
    <3>6. Cardinality(m_jobSet' \ E) = Cardinality(m_jobSet \ D) + 1
      BY <2>2, <3>5, CardAdd
    <3>7. m_semaphore' + Cardinality(Woken') = Cardinality(m_jobSet' \ E)
      <4>1. Cardinality(Woken) \in Nat
        BY <1>0, FiniteParts, FS_CardinalityType
      <4> QED
        BY <1>0, <1>2, <2>1, <2>3, <2>5, <3>6, <4>1 DEF CountAsDeferred, TypeOK
    <3>8. CountAsDeferred(E)'
      BY <3>4, <3>7 DEF CountAsDeferred
    <3> QED
      BY <1>1, <3>3, <3>8 DEF TokensMatchJobs
  <2> QED
    BY <2>4, <2>5
<1> QED
  BY <1>7, <1>8, <1>9, <1>10, <1>11 DEF IInv
-----------------------------------------------------------------------------
(***************************************************************************)
(* A step that moves no job and no token keeps the accounting.             *)
(***************************************************************************)
LEMMA KeepsAccounting ==
  ASSUME IInv, Woken' = Woken,
         UNCHANGED <<m_jobSet, dataVars, m_semaphore, job>>
  PROVE  LimitRespected' /\ TokensMatchJobs'
<1>1. \A t \in JobType : RunnersOf(t)' = RunnersOf(t) /\ JobsOf(t)' = JobsOf(t)
  BY DEF RunnersOf, JobsOf
<1>2. UNCHANGED <<m_jobSet, waiting, running, deferred, m_semaphore>>
  BY DEF dataVars
<1>3. LimitRespected'
  BY <1>1, <1>2 DEF IInv, LimitRespected
<1>4. PICK D \in SUBSET m_jobSet : CountAsDeferred(D)
  BY DEF IInv, TokensMatchJobs
<1>5. CountAsDeferred(D)'
  BY <1>1, <1>2, <1>4 DEF CountAsDeferred
<1>6. TokensMatchJobs'
  BY <1>2, <1>5 DEF TokensMatchJobs
<1> QED
  BY <1>3, <1>6

(***************************************************************************)
(* addJob's test of isStopping, and a job that starts or returns.          *)
(***************************************************************************)
LEMMA ThreadStepInv ==
  ASSUME IInv,
         \/ \E c \in Worker \cup Client, t \in JobType : AddJobCheck(c, t)
         \/ \E w \in Worker : doJob(w) \/ JobReturns(w)
  PROVE  IInv'
<1> USE JobQueueAssumption
<1>0. TypeOK /\ Structure /\ StopOrder
  BY DEF IInv
<1>1. ASSUME NEW c \in Worker \cup Client, NEW t \in JobType, AddJobCheck(c, t)
      PROVE  IInv'
  <2>1. /\ adding' = [adding EXCEPT ![c] = t]
        /\ UNCHANGED <<m_lastJob, m_jobSet, dataVars, m_processCount,
                       m_semaphore, pc, job, stopVars>>
        /\ c \in Worker => pc[c] = "doing"
        /\ c \notin Worker => ~m_childrenStopped
    BY <1>1 DEF AddJobCheck, MayAdd
  <2>2. Woken' = Woken /\ Busy' = Busy
    BY <2>1 DEF Woken, Busy
  <2>3. TypeOK'
    BY <1>0, <2>1 DEF TypeOK, dataVars, stopVars
  <2>4. Structure'
    BY <1>0, <2>1, <2>2 DEF Structure, TypeOK
  <2>5. StopOrder'
    BY <1>0, <2>1 DEF StopOrder, TypeOK, stopVars
  <2> QED
    BY <2>1, <2>2, <2>3, <2>4, <2>5, KeepsAccounting DEF IInv
<1>2. ASSUME NEW w \in Worker, doJob(w) \/ JobReturns(w)
      PROVE  IInv'
  <2>1. /\ pc[w] \in {"got", "doing"}
        /\ adding[w] = NoType
        /\ \E p \in {"doing", "finish"} : pc' = [pc EXCEPT ![w] = p]
        /\ UNCHANGED <<m_lastJob, m_jobSet, dataVars, m_processCount,
                       m_semaphore, job, adding, stopVars>>
    BY <1>0, <1>2 DEF doJob, JobReturns, Structure
  <2>2. Woken' = Woken /\ Busy' = Busy
    BY <1>0, <2>1 DEF Woken, Busy, TypeOK
  <2>3. TypeOK'
    BY <1>0, <2>1 DEF TypeOK, dataVars, stopVars
  <2>4. Structure'
    BY <1>0, <2>1, <2>2 DEF Structure, TypeOK
  <2>5. StopOrder'
    BY <1>0, <2>1 DEF StopOrder, stopVars
  <2> QED
    BY <2>1, <2>2, <2>3, <2>4, <2>5, KeepsAccounting DEF IInv
<1> QED
  BY <1>1, <1>2

(***************************************************************************)
(* The four steps of the thread that stops the server.                     *)
(***************************************************************************)
LEMMA StopStepInv ==
  ASSUME IInv, StopAsync \/ ChildrenStopped \/ onChildrenStopped \/ StopDone
  PROVE  IInv'
<1> USE JobQueueAssumption
<1>0. TypeOK /\ Structure /\ StopOrder
  BY DEF IInv
<1>1. UNCHANGED <<m_lastJob, m_jobSet, dataVars, m_processCount, m_semaphore,
                  pc, job, adding>>
  BY DEF StopAsync, ChildrenStopped, onChildrenStopped, StopDone
<1>2. Woken' = Woken /\ Busy' = Busy
  BY <1>1 DEF Woken, Busy
<1>3. TypeOK'
  <2>1. /\ isStopping' \in BOOLEAN
        /\ m_childrenStopped' \in BOOLEAN
        /\ stoppedEvent' \in BOOLEAN
        /\ m_stopped' \in BOOLEAN
        /\ notified' \in BOOLEAN
    BY <1>0 DEF TypeOK, StopAsync, ChildrenStopped, onChildrenStopped, StopDone,
                checkStopped
  <2> QED
    BY <1>0, <1>1, <2>1 DEF TypeOK, dataVars
<1>4. Structure'
  BY <1>0, <1>1, <1>2 DEF Structure
<1>5. StopOrder'
  <2>1. CASE StopAsync
    BY <1>0, <1>1, <2>1 DEF StopOrder, StopAsync
  <2>2. CASE ChildrenStopped
    BY <1>0, <1>1, <2>2 DEF StopOrder, ChildrenStopped
  <2>4. CASE onChildrenStopped
    <3>1. UNCHANGED <<isStopping, m_childrenStopped>>
      BY <2>4 DEF onChildrenStopped
    <3>2. stoppedEvent' => stoppedEvent \/ ( /\ m_childrenStopped'
                                            /\ m_jobSet' = {}
                                            /\ m_processCount' = 0)
      BY <2>4 DEF onChildrenStopped, checkStopped
    <3> QED
      BY <1>0, <1>1, <3>1, <3>2 DEF StopOrder
  <2>3. CASE StopDone
    BY <1>0, <1>1, <2>3 DEF StopOrder, StopDone
  <2> QED
    BY <2>1, <2>2, <2>3, <2>4
<1> QED
  BY <1>1, <1>2, <1>3, <1>4, <1>5, KeepsAccounting DEF IInv

(***************************************************************************)
(* Every step of the queue preserves the inductive invariant.              *)
(***************************************************************************)
LEMMA NextInv == IInv /\ [Next]_vars => IInv'
<1> SUFFICES ASSUME IInv, [Next]_vars
             PROVE  IInv'
  OBVIOUS
<1>1. CASE UNCHANGED vars
  <2>1. /\ UNCHANGED <<m_lastJob, m_jobSet, dataVars, m_processCount,
                       m_semaphore, pc, job, adding, stopVars>>
    BY <1>1 DEF vars, dataVars, stopVars
  <2>2. Woken' = Woken /\ Busy' = Busy
    BY <2>1 DEF Woken, Busy
  <2>3. TypeOK' /\ Structure' /\ StopOrder'
    BY <2>1, <2>2 DEF IInv, TypeOK, Structure, StopOrder, dataVars, stopVars
  <2> QED
    BY <2>1, <2>2, <2>3, KeepsAccounting DEF IInv
<1>2. CASE \E c \in Worker \cup Client :
             (\E t \in JobType : AddJobCheck(c, t)) \/ AddJobInsert(c)
  BY <1>2, ThreadStepInv, AddJobInsertInv
<1>3. CASE \E w \in Worker : Wake(w) \/ getNextJob(w) \/ doJob(w)
                               \/ JobReturns(w) \/ finishJob(w)
  BY <1>3, WakeInv, GetNextJobInv, ThreadStepInv, FinishJobInv
<1>4. CASE StopAsync \/ ChildrenStopped \/ onChildrenStopped \/ StopDone
  BY <1>4, StopStepInv
<1> QED
  BY <1>1, <1>2, <1>3, <1>4 DEF Next

(***************************************************************************)
(* The inductive invariant holds in every state of the queue.              *)
(***************************************************************************)
THEOREM Invariance == Spec => []IInv
  BY InitInv, NextInv, PTL DEF Spec

-----------------------------------------------------------------------------
(***************************************************************************)
(* Counters of JobTypeData never go below zero (getNextJob's --waiting,    *)
(* finishJob's --running and --deferred) and all variables keep their      *)
(* types.                                                                  *)
(***************************************************************************)
THEOREM TypeCorrect == Spec => []TypeOK
<1>1. IInv => TypeOK
  BY DEF IInv
<1> QED
  BY Invariance, <1>1, PTL

(***************************************************************************)
(* The counters are the numbers of jobs they stand for, no type runs above *)
(* its limit, and a job is deferred only while its type fills its limit    *)
(* (queueJob, getNextJob, finishJob).                                      *)
(***************************************************************************)
THEOREM LimitsHold == Spec => []LimitRespected
<1>1. IInv => LimitRespected
  BY DEF IInv
<1> QED
  BY Invariance, <1>1, PTL

(***************************************************************************)
(* As many tokens and woken threads as jobs that are not deferred          *)
(* (m_workers.addTask in queueJob and finishJob).                          *)
(***************************************************************************)
THEOREM TokensHold == Spec => []TokensMatchJobs
<1>1. IInv => TokensMatchJobs
  BY DEF IInv
<1> QED
  BY Invariance, <1>1, PTL

(***************************************************************************)
(* The assert of getNextJob: a thread that calls processTask finds a job   *)
(* whose type is below its limit.                                          *)
(***************************************************************************)
THEOREM WokenNeverStarves == Spec => []WokenFindsJob
<1> USE JobQueueAssumption
<1>1. ASSUME IInv
      PROVE  WokenFindsJob
  <2> SUFFICES ASSUME NEW w \in Worker, pc[w] = "woken"
               PROVE  Runnable # {}
    BY DEF WokenFindsJob
  <2>0. TypeOK /\ Structure /\ LimitRespected
    BY <1>1 DEF IInv
  <2>1. PICK D \in SUBSET m_jobSet : CountAsDeferred(D)
    BY <1>1 DEF IInv, TokensMatchJobs
  <2>2. Cardinality(Woken) > 0 /\ Cardinality(Woken) \in Nat
    <3>1. w \in Woken /\ IsFiniteSet(Woken)
      BY <2>0, FiniteParts DEF Woken
    <3> QED
      BY <3>1, CardRemove
  <2>3. Cardinality(m_jobSet \ D) > 0
    BY <2>0, <2>1, <2>2 DEF CountAsDeferred, TypeOK
  <2>4. PICK j : j \in m_jobSet \ D
    <3> SUFFICES ASSUME m_jobSet \ D = {}
                 PROVE  FALSE
      OBVIOUS
    <3>1. Cardinality(m_jobSet \ D) = 0
      BY FS_EmptySet
    <3> QED
      BY <2>3, <3>1
  <2>5. PICK t \in JobType : t = j.type
    BY <2>0, <2>4 DEF TypeOK, Job
  <2>6. deferred[t] < waiting[t]
    <3>1. j \in JobsOf(t) /\ j \notin D \cap JobsOf(t) /\ IsFiniteSet(JobsOf(t))
      BY <2>0, <2>4, <2>5, FiniteParts DEF JobsOf
    <3>2. D \cap JobsOf(t) \subseteq JobsOf(t) \ {j}
      BY <3>1
    <3>3. /\ IsFiniteSet(JobsOf(t) \ {j})
          /\ Cardinality(JobsOf(t) \ {j}) = Cardinality(JobsOf(t)) - 1
          /\ Cardinality(JobsOf(t)) \in Nat
      BY <3>1, CardRemove
    <3>4. Cardinality(D \cap JobsOf(t)) <= Cardinality(JobsOf(t) \ {j})
      BY <3>2, <3>3, FS_Subset
    <3>5. /\ Cardinality(D \cap JobsOf(t)) = deferred[t]
          /\ Cardinality(JobsOf(t)) = waiting[t]
          /\ {deferred[t], waiting[t]} \subseteq Nat
      BY <2>0, <2>1 DEF CountAsDeferred, LimitRespected, TypeOK
    <3> QED
      BY <3>3, <3>4, <3>5
  <2>7. running[t] < Limit[t]
    <3>1. /\ waiting[t] - deferred[t] + running[t] <= Limit[t]
          /\ {waiting[t], deferred[t], running[t], Limit[t]} \subseteq Nat
      BY <2>0 DEF LimitRespected, TypeOK
    <3> QED
      BY <2>6, <3>1
  <2> QED
    BY <2>4, <2>5, <2>7 DEF Runnable
<1> QED
  BY Invariance, <1>1, PTL

(***************************************************************************)
(* When checkStopped has announced the end, the queue is empty and nobody  *)
(* is inside processTask or addJob.                                        *)
(***************************************************************************)
THEOREM StopIsFinal == Spec => []StoppedIsQuiet
<1>1. ASSUME IInv
      PROVE  StoppedIsQuiet
  <2> SUFFICES ASSUME stoppedEvent
               PROVE  /\ m_jobSet = {}
                      /\ m_processCount = 0
                      /\ \A c \in Worker \cup Client : adding[c] = NoType
    BY DEF StoppedIsQuiet
  <2>0. TypeOK /\ Structure /\ StopOrder
    BY <1>1 DEF IInv
  <2>1. m_jobSet = {} /\ m_processCount = 0 /\ \A c \in Client : adding[c] = NoType
    BY <2>0 DEF StopOrder
  <2>2. ASSUME NEW w \in Worker, adding[w] # NoType
        PROVE  FALSE
    <3>1. w \in Busy /\ IsFiniteSet(Busy) /\ Cardinality(Busy) = 0
      BY <2>0, <2>1, <2>2, FiniteParts DEF Structure, Busy
    <3>2. Cardinality(Busy) > 0
      BY <3>1, CardRemove
    <3> QED
      BY <3>1, <3>2
  <2> QED
    BY <2>1, <2>2
<1> QED
  BY Invariance, <1>1, PTL
=============================================================================
