-------------------------- MODULE LedgerSaveProofs --------------------------
(***************************************************************************)
(* Proofs about the saving of validated ledgers, for every set of ledgers  *)
(* (several of one sequence among them), of callers, of worker threads and *)
(* of requests.                                                            *)
(***************************************************************************)
EXTENDS LedgerSave, FiniteSetTheorems, TLAPS

(***************************************************************************)
(* Sequence s is accounted for: its row is there, or its save is pending   *)
(* or about to be entered, or a save of it failed.                         *)
(***************************************************************************)
Saved(s) == s \in failed \/ table[s] # NoLedger \/ map_[s] # "none" \/ aboutToSave(s)

\* A thread inside pendSaveValidated or in a save job has a ledger.
Busy(t) == thread[t].at # "idle"
ThreadsHaveLedgers == \A t \in Thread : Busy(t) => thread[t].l \in Ledger

(***************************************************************************)
(* OneSaver without counting: no two threads work on a sequence, and the   *)
(* entry says "working" exactly when one does or has left by an exception, *)
(* after which nobody can become the saver again.                          *)
(***************************************************************************)
Saves(t, s) == thread[t].at \in Working /\ seqOf(t) = s

SaverIsUnique ==
  /\ \A t, u \in Thread : \A s \in Seqs : Saves(t, s) /\ Saves(u, s) => t = u
  /\ \A s \in Seqs : map_[s] = "working" <=> s \in thrown \/ \E t \in Thread : Saves(t, s)
  /\ \A s \in thrown, t \in Thread : ~Saves(t, s)

(***************************************************************************)
(* How far the one saver has come: no row while the transactions are being *)
(* written, then the transactions, and at the end the row or a failure.    *)
(***************************************************************************)
SaverProgress ==
  \A t \in Thread :
    /\ thread[t].at \in {"txns", "insert"} => table[seqOf(t)] = NoLedger
    /\ thread[t].at = "insert" => txns[seqOf(t)] = thread[t].l
    /\ thread[t].at = "finish" => table[seqOf(t)] # NoLedger \/ seqOf(t) \in failed

(***************************************************************************)
(* Whoever is told that a ledger is saved, or will find so, is right: the  *)
(* flag SF_SAVED, the threads and jobs under way, the complete and the     *)
(* published sequences, and a range that a client has read.                *)
(***************************************************************************)
NothingHidden ==
  /\ \A l \in flagged \cup handed : Saved(LedgerSeq[l])
  /\ \A l \in Ledger : jobs[l] > 0 => Saved(LedgerSeq[l])
  /\ \A t \in Thread : Busy(t) => Saved(seqOf(t))
  /\ \A s \in mCompleteLedgers : Saved(s)
  /\ mPubLedgerSeq # 0 => Saved(mPubLedgerSeq)
  /\ range.at = "read" => /\ range.min \in 1 .. range.max
                          /\ \A s \in range.min .. range.max : s \in Seqs /\ Saved(s)

IInv ==
  /\ TypeOK /\ ThreadsHaveLedgers /\ IsFiniteSet(pendingSaves)
  /\ SaverIsUnique /\ SaverProgress /\ RowHasTransactions
  /\ DispatchedIsDone /\ NothingHidden

-----------------------------------------------------------------------------
(***************************************************************************)
(* Sets of naturals have a least element, bounded ones a greatest: what    *)
(* Min and Max choose.                                                     *)
(***************************************************************************)
LEMMA LeastNatural ==
  ASSUME NEW T \in SUBSET Nat, T # {}
  PROVE  \E x \in T : \A y \in T : x <= y
<1>1. PICK x \in T : \A y \in T : ~(<<y, x>> \in OpToRel(<, Nat))
  BY WFMin, NatLessThanWellFounded
<1>2. \A y \in T : <<y, x>> \in OpToRel(<, Nat) <=> y < x
  BY DEF OpToRel
<1>3. \A y \in T : ~(y < x)
  BY <1>1, <1>2, Zenon
<1> QED
  BY <1>3

LEMMA MinIsLeast ==
  ASSUME NEW T \in SUBSET Nat, T # {}
  PROVE  Min(T) \in T /\ \A y \in T : Min(T) <= y
  BY LeastNatural DEF Min

LEMMA MaxIsGreatest ==
  ASSUME NEW T \in SUBSET Nat, T # {}, NEW k \in Nat, \A y \in T : y <= k
  PROVE  Max(T) \in T /\ \A y \in T : Max(T) >= y
<1> DEFINE D == {d \in Nat : k - d \in T}
<1>1. D # {}
  <2>1. PICK y \in T : TRUE
    OBVIOUS
  <2>2. k - y \in Nat /\ k - (k - y) = y
    OBVIOUS
  <2> QED
    BY <2>1, <2>2
<1>2. PICK d \in D : \A e \in D : d <= e
  BY <1>1, LeastNatural
<1>3. \A y \in T : y <= k - d
  <2> SUFFICES ASSUME NEW y \in T PROVE y <= k - d
    OBVIOUS
  <2>1. k - y \in Nat /\ k - (k - y) = y
    OBVIOUS
  <2>2. d <= k - y
    BY <1>2, <2>1
  <2> QED
    BY <2>2
<1> QED
  BY <1>3 DEF Max

(***************************************************************************)
(* A function defined by recursion over 0 .. k exists, and has its type.   *)
(***************************************************************************)
HasRecursion(S, base, step, k) ==
  \E f \in [0 .. k -> S] : f[0] = base /\ \A n \in 1 .. k : f[n] = step[<<n, f[n - 1]>>]

LEMMA RecursionExists ==
  ASSUME NEW S, NEW base \in S, NEW step \in [Nat \X S -> S], NEW k \in Nat
  PROVE  HasRecursion(S, base, step, k)
<1> DEFINE Fits(j, f) == f[0] = base /\ \A n \in 1 .. j : f[n] = step[<<n, f[n - 1]>>]
           Bad == {j \in Nat : ~\E f \in [0 .. j -> S] : Fits(j, f)}
<1>1. Bad = {}
  <2> SUFFICES ASSUME Bad # {} PROVE FALSE
    OBVIOUS
  <2>1. PICK j \in Bad : \A i \in Bad : j <= i
    BY LeastNatural
  <2>2. j # 0
    <3>1. [n \in 0 .. 0 |-> base] \in [0 .. 0 -> S] /\ Fits(0, [n \in 0 .. 0 |-> base])
      OBVIOUS
    <3> QED
      BY <3>1
  <2>3. j - 1 \in Nat /\ j - 1 \notin Bad
    BY <2>1, <2>2
  <2>4. PICK f \in [0 .. j - 1 -> S] : Fits(j - 1, f)
    BY <2>3
  <2> DEFINE g == [n \in 0 .. j |-> IF n = j THEN step[<<j, f[j - 1]>>] ELSE f[n]]
  <2>5. g \in [0 .. j -> S]
    BY <2>3, <2>4
  <2>6. Fits(j, g)
    <3>1. g[0] = base
      BY <2>2, <2>4
    <3>2. ASSUME NEW n \in 1 .. j
          PROVE  g[n] = step[<<n, g[n - 1]>>]
      <4>1. n - 1 \in 0 .. j /\ n - 1 # j /\ n \in 0 .. j
        OBVIOUS
      <4>2. g[n - 1] = f[n - 1]
        BY <4>1
      <4>3. CASE n = j
        BY <4>1, <4>2, <4>3
      <4>4. CASE n # j
        <5>1. n \in 1 .. j - 1 /\ g[n] = f[n]
          BY <4>1, <4>4
        <5> QED
          BY <2>4, <4>2, <5>1
      <4> QED
        BY <4>3, <4>4
    <3> QED
      BY <3>1, <3>2
  <2> QED
    BY <2>5, <2>6
<1> QED
  BY <1>1 DEF HasRecursion

-----------------------------------------------------------------------------
(***************************************************************************)
(* What every action leaves to show.                                       *)
(***************************************************************************)
At == {"idle", "double", "should", "wait", "start", "mark"} \cup Working
ThreadState == [at : At, l : Ledger \cup {NoLedger}, sync : BOOLEAN, then : Then]

LEMMA SeqOfLedger == \A l \in Ledger : LedgerSeq[l] \in Seqs /\ LedgerSeq[l] \in Nat /\ LedgerSeq[l] # 0
  BY SaveAssumption DEF Seqs

LEMMA SeqIsPositive == \A s \in Seqs : s \in Nat /\ s # 0
  BY SaveAssumption DEF Seqs

LEMMA HiddenKept ==
  ASSUME IInv,
         \A s \in Seqs : Saved(s) => Saved(s)',
         \A l \in flagged' \cup handed' : l \in flagged \cup handed \/ Saved(LedgerSeq[l])',
         \A l \in Ledger : jobs'[l] > 0 => jobs[l] > 0 \/ Saved(LedgerSeq[l])',
         \A u \in Thread : Busy(u)' => \/ Saved(seqOf(u))'
                                       \/ Busy(u) /\ thread'[u].l = thread[u].l,
         \A s \in mCompleteLedgers' : s \in mCompleteLedgers \/ Saved(s)',
         mPubLedgerSeq' = mPubLedgerSeq \/ Saved(mPubLedgerSeq)',
         range' = range
  PROVE  NothingHidden'
<1>0. TypeOK /\ ThreadsHaveLedgers /\ NothingHidden
  BY DEF IInv
<1>1. \A l \in flagged' \cup handed' : Saved(LedgerSeq[l])'
  BY <1>0, SeqOfLedger DEF TypeOK, NothingHidden
<1>2. \A l \in Ledger : jobs'[l] > 0 => Saved(LedgerSeq[l])'
  BY <1>0, SeqOfLedger DEF NothingHidden
<1>3. ASSUME NEW u \in Thread, Busy(u)'
      PROVE  Saved(seqOf(u))'
  <2>1. CASE Busy(u) /\ thread'[u].l = thread[u].l
    <3>1. seqOf(u) \in Seqs /\ seqOf(u)' = seqOf(u) /\ Saved(seqOf(u))
      BY <1>0, <2>1, SeqOfLedger DEF ThreadsHaveLedgers, NothingHidden, seqOf
    <3> QED
      BY <3>1
  <2> QED
    BY <1>3, <2>1
<1>4. \A s \in mCompleteLedgers' : Saved(s)'
  BY <1>0 DEF TypeOK, NothingHidden
<1>5. mPubLedgerSeq' # 0 => Saved(mPubLedgerSeq)'
  BY <1>0 DEF TypeOK, NothingHidden
<1>6. range'.at = "read" =>
        /\ range'.min \in 1 .. range'.max
        /\ \A s \in range'.min .. range'.max : s \in Seqs /\ Saved(s)'
  BY <1>0 DEF NothingHidden
<1> QED
  BY <1>1, <1>2, <1>3, <1>4, <1>5, <1>6 DEF NothingHidden

\* Nobody begins or ends to write rows.
LEMMA SaversKept ==
  ASSUME IInv,
         \A u \in Thread : \/ thread'[u] = thread[u]
                           \/ thread[u].at \notin Working /\ thread'[u].at \notin Working,
         \A s \in Seqs : map_'[s] = "working" <=> map_[s] = "working",
         UNCHANGED <<table, txns, failed, thrown>>
  PROVE  SaverIsUnique' /\ SaverProgress' /\ RowHasTransactions'
<1>1. \A u \in Thread, s \in Seqs : Saves(u, s)' <=> Saves(u, s)
  BY DEF Saves, seqOf
<1>2. SaverIsUnique'
  <2>1. thrown \subseteq Seqs
    BY DEF IInv, TypeOK
  <2> QED
    BY <1>1, <2>1 DEF IInv, SaverIsUnique
<1>3. SaverProgress'
  BY DEF IInv, SaverProgress, Working, seqOf
<1>4. RowHasTransactions'
  BY DEF IInv, RowHasTransactions
<1> QED
  BY <1>2, <1>3, <1>4

LEMMA PendingKept ==
  ASSUME IInv, \A s \in Seqs : map_'[s] # "none" => map_[s] # "none"
  PROVE  IsFiniteSet(pendingSaves')
<1>1. pendingSaves' \subseteq pendingSaves
  BY DEF pendingSaves
<1> QED
  BY <1>1, FS_Subset DEF IInv

-----------------------------------------------------------------------------
LEMMA InitInv == Init => IInv
<1> SUFFICES ASSUME Init PROVE IInv
  OBVIOUS
<1>1. TypeOK
  BY SaveAssumption DEF Init, TypeOK, Idle, Then
<1>2. pendingSaves = {}
  BY DEF Init, pendingSaves
<1>3. IsFiniteSet(pendingSaves)
  BY <1>2, FS_EmptySet
<1>4. ThreadsHaveLedgers /\ SaverIsUnique /\ SaverProgress
  BY DEF Init, Idle, Busy, ThreadsHaveLedgers, SaverIsUnique, SaverProgress, Saves, Working
<1>5. RowHasTransactions /\ DispatchedIsDone /\ NothingHidden
  BY DEF Init, Idle, Busy, RowHasTransactions, DispatchedIsDone, NothingHidden
<1> QED
  BY <1>1, <1>3, <1>4, <1>5 DEF IInv

(***************************************************************************)
(* pendSaveValidated: whoever finds the flag set is right that the ledger  *)
(* is accounted for; whoever sets it is about to save.                     *)
(***************************************************************************)
LEMMA PendInv ==
  ASSUME IInv, NEW t \in Thread, NEW r \in Request, pendSaveValidated(t, r)
  PROVE  IInv'
<1> DEFINE q == [at |-> IF r.l \in flagged THEN "double" ELSE "should",
                 l |-> r.l, sync |-> r.sync, then |-> r.then]
<1>0. /\ UNCHANGED <<map_, jobs, table, txns, mCompleteLedgers, mPubLedgerSeq, range, failed,
                     thrown>>
      /\ handed' = handed \cup {r.l}
      /\ thread[t] = Idle /\ thread' = [thread EXCEPT ![t] = q]
      /\ flagged' = flagged \cup {r.l} /\ calls' = calls + 1 /\ calls < MaxCalls
  BY DEF pendSaveValidated
<1>1. TypeOK /\ thread \in [Thread -> ThreadState]
  BY DEF IInv, TypeOK, ThreadState, At
<1>2. r.l \in Ledger /\ r.sync \in BOOLEAN /\ r.then \in Then
  BY SaveAssumption
<1>3. q \in ThreadState /\ thread'[t] = q /\ \A u \in Thread \ {t} : thread'[u] = thread[u]
  BY <1>0, <1>1, <1>2 DEF ThreadState, At
<1>4. TypeOK'
  <2>1. thread' \in [Thread -> ThreadState]
    BY <1>0, <1>1, <1>3
  <2>2. calls' \in 0 .. MaxCalls
    BY <1>0, <1>1, SaveAssumption DEF TypeOK
  <2> QED
    BY <1>0, <1>1, <1>2, <2>1, <2>2 DEF TypeOK, ThreadState, At
<1>5. ThreadsHaveLedgers'
  BY <1>2, <1>3 DEF IInv, ThreadsHaveLedgers, Busy
<1>6. SaverIsUnique' /\ SaverProgress' /\ RowHasTransactions'
  <2>1. Idle.at \notin Working /\ q.at \notin Working
    BY DEF Idle, Working
  <2> QED
    BY <1>0, <1>3, <2>1, SaversKept
<1>7. IsFiniteSet(pendingSaves')
  BY <1>0, PendingKept
<1>8. DispatchedIsDone'
  <2>1. \A u \in Thread : thread[u].at = "start" => thread'[u] = thread[u]
    BY <1>0, <1>3 DEF Idle
  <2> QED
    BY <1>0, <2>1 DEF IInv, DispatchedIsDone, seqOf
<1>9. NothingHidden'
  <2>1. \A s \in Seqs : Saved(s) => Saved(s)'
    <3>1. \A u \in Thread : thread[u].at = "should" => thread'[u] = thread[u]
      BY <1>0, <1>3 DEF Idle
    <3> QED
      BY <1>0, <3>1 DEF Saved, aboutToSave, seqOf
  <2>2. Saved(LedgerSeq[r.l])'
    <3>1. CASE r.l \in flagged
      BY <1>2, <2>1, <3>1, SeqOfLedger DEF IInv, NothingHidden
    <3>2. CASE r.l \notin flagged
      BY <1>3, <3>2 DEF Saved, aboutToSave, seqOf
    <3> QED
      BY <3>1, <3>2
  <2>3. Saved(seqOf(t))'
    BY <1>3, <2>2 DEF seqOf
  <2> QED
    BY <1>0, <1>3, <2>1, <2>2, <2>3, HiddenKept DEF Busy
<1> QED
  BY <1>4, <1>5, <1>6, <1>7, <1>8, <1>9 DEF IInv

\* The router forgets a ledger.
LEMMA ExpireInv ==
  ASSUME IInv, NEW l \in Ledger, expireFlag(l)
  PROVE  IInv'
<1>0. /\ flagged' = flagged \ {l}
      /\ UNCHANGED <<map_, jobs, thread, table, txns, mCompleteLedgers, mPubLedgerSeq, range,
                     failed, thrown, handed, calls>>
  BY DEF expireFlag
<1>1. TypeOK' /\ ThreadsHaveLedgers'
  BY <1>0 DEF IInv, TypeOK, ThreadsHaveLedgers, Busy
<1>2. SaverIsUnique' /\ SaverProgress' /\ RowHasTransactions' /\ IsFiniteSet(pendingSaves')
  BY <1>0, SaversKept, PendingKept
<1>3. DispatchedIsDone'
  BY <1>0 DEF IInv, DispatchedIsDone, seqOf
<1>4. NothingHidden'
  BY <1>0, HiddenKept DEF Saved, aboutToSave, seqOf, Busy
<1> QED
  BY <1>1, <1>2, <1>3, <1>4 DEF IInv
-----------------------------------------------------------------------------
(***************************************************************************)
(* A thread goes on to its next place, or leaves pendSaveValidated.        *)
(***************************************************************************)
LEMMA GotoFacts ==
  ASSUME IInv, NEW t \in Thread, Busy(t), NEW a \in At, a # "idle",
         thread' = [thread EXCEPT ![t].at = a]
  PROVE  /\ thread' \in [Thread -> ThreadState] /\ ThreadsHaveLedgers'
         /\ thread'[t].at = a /\ thread'[t].l = thread[t].l /\ seqOf(t)' = seqOf(t)
         /\ \A u \in Thread \ {t} : thread'[u] = thread[u]
         /\ thread[t].l \in Ledger /\ seqOf(t) \in Seqs
         /\ \A u \in Thread : Busy(u)' => Busy(u) /\ thread'[u].l = thread[u].l
<1>1. thread \in [Thread -> ThreadState] /\ ThreadsHaveLedgers
  BY DEF IInv, TypeOK, ThreadState, At
<1>2. thread[t] \in ThreadState /\ thread[t].l \in Ledger
  BY <1>1 DEF ThreadsHaveLedgers
<1>3. thread' = [thread EXCEPT ![t] = [thread[t] EXCEPT !.at = a]]
  BY <1>1
<1>4. [thread[t] EXCEPT !.at = a] \in ThreadState
  BY <1>2 DEF ThreadState
<1>5. /\ thread'[t] = [thread[t] EXCEPT !.at = a]
      /\ \A u \in Thread \ {t} : thread'[u] = thread[u]
      /\ thread' \in [Thread -> ThreadState]
  BY <1>1, <1>3, <1>4
<1>6. thread'[t].at = a /\ thread'[t].l = thread[t].l
  BY <1>2, <1>5 DEF ThreadState
<1> QED
  BY <1>1, <1>2, <1>5, <1>6, SeqOfLedger DEF ThreadsHaveLedgers, Busy, seqOf

LEMMA ReturnFacts ==
  ASSUME IInv, NEW t \in Thread, Busy(t), NEW th, th = Return(t)
  PROVE  /\ th \in [Thread -> ThreadState]
         /\ th[t].at \in {"idle", "mark"} /\ (th[t].at # "idle" => th[t].l = thread[t].l)
         /\ \A u \in Thread \ {t} : th[u] = thread[u]
         /\ thread[t].l \in Ledger /\ seqOf(t) \in Seqs
         /\ \A u \in Thread : th[u].at # "idle" => Busy(u) /\ th[u].l = thread[u].l
<1>1. thread \in [Thread -> ThreadState] /\ ThreadsHaveLedgers
  BY DEF IInv, TypeOK, ThreadState, At
<1>2. thread[t] \in ThreadState /\ thread[t].l \in Ledger
  BY <1>1 DEF ThreadsHaveLedgers
<1>3. PICK q \in ThreadState :
         th = [thread EXCEPT ![t] = q] /\ q.at \in {"idle", "mark"} /\ (q.at # "idle" => q.l = thread[t].l)
  <2>1. CASE thread[t].then = "return"
    <3>1. Idle \in ThreadState /\ Idle.at = "idle"
      BY DEF Idle, ThreadState, At, Then
    <3> QED
      BY <2>1, <3>1 DEF Return
  <2>2. CASE thread[t].then # "return"
    <3> DEFINE q == [thread[t] EXCEPT !.at = "mark"]
    <3>1. q \in ThreadState /\ q.at = "mark" /\ q.l = thread[t].l
      BY <1>2 DEF ThreadState, At
    <3>2. th = [thread EXCEPT ![t] = q]
      BY <1>1, <2>2 DEF Return
    <3> QED
      BY <3>1, <3>2
  <2> QED
    BY <2>1, <2>2
<1>4. th[t] = q /\ th \in [Thread -> ThreadState] /\ \A u \in Thread \ {t} : th[u] = thread[u]
  BY <1>1, <1>3
<1> QED
  BY <1>2, <1>3, <1>4, SeqOfLedger DEF Busy, seqOf

(***************************************************************************)
(* doublePend: the flag was set, so the ledger is accounted for; only a    *)
(* synchronous caller with a pending save goes on.                         *)
(***************************************************************************)
LEMMA DoublePendInv ==
  ASSUME IInv, NEW t \in Thread, doublePend(t)
  PROVE  IInv'
<1>0. /\ UNCHANGED <<map_, flagged, jobs, table, txns, mCompleteLedgers, mPubLedgerSeq, range,
                     failed, thrown, handed, calls>>
      /\ thread[t].at = "double" /\ Busy(t)
  BY DEF doublePend, Busy
<1>1. /\ thread' \in [Thread -> ThreadState]
      /\ thread'[t].at \in {"idle", "mark", "should"}
      /\ \A u \in Thread \ {t} : thread'[u] = thread[u]
      /\ \A u \in Thread : Busy(u)' => Busy(u) /\ thread'[u].l = thread[u].l
  <2>1. CASE thread' = Return(t)
    BY <1>0, <2>1, ReturnFacts DEF Busy
  <2>2. CASE thread' = [thread EXCEPT ![t].at = "should"]
    <3>1. "should" \in At
      BY DEF At
    <3> QED
      BY <1>0, <2>2, <3>1, GotoFacts
  <2> QED
    BY <2>1, <2>2 DEF doublePend
<1>2. TypeOK' /\ ThreadsHaveLedgers'
  BY <1>0, <1>1 DEF IInv, TypeOK, ThreadState, At, ThreadsHaveLedgers
<1>3. SaverIsUnique' /\ SaverProgress' /\ RowHasTransactions' /\ IsFiniteSet(pendingSaves')
  <2>1. thread[t].at \notin Working /\ thread'[t].at \notin Working
    BY <1>0, <1>1 DEF Working
  <2> QED
    BY <1>0, <1>1, <2>1, SaversKept, PendingKept
<1>4. DispatchedIsDone'
  BY <1>0, <1>1 DEF IInv, DispatchedIsDone, seqOf
<1>5. NothingHidden'
  <2>1. \A s \in Seqs : Saved(s) => Saved(s)'
    BY <1>0, <1>1 DEF Saved, aboutToSave, seqOf
  <2> QED
    BY <1>0, <1>1, <2>1, HiddenKept
<1> QED
  BY <1>2, <1>3, <1>4, <1>5 DEF IInv

(***************************************************************************)
(* shouldWork: after it the sequence has an entry, whoever made it.        *)
(***************************************************************************)
LEMMA ShouldWorkInv ==
  ASSUME IInv, NEW t \in Thread, shouldWork(t)
  PROVE  IInv'
<1>s. PICK s0 \in Seqs : s0 = seqOf(t) /\ s0 = LedgerSeq[thread[t].l]
  BY SeqOfLedger DEF shouldWork, IInv, ThreadsHaveLedgers, Busy, seqOf
<1>0. /\ UNCHANGED <<flagged, table, txns, mCompleteLedgers, mPubLedgerSeq, range, failed,
                     thrown, handed, calls>>
      /\ thread[t].at = "should" /\ Busy(t)
      /\ map_' = IF map_[s0] = "none" THEN [map_ EXCEPT ![s0] = "dispatched"] ELSE map_
      /\ jobs' = IF map_[s0] = "none" /\ ~thread[t].sync
                 THEN [jobs EXCEPT ![thread[t].l] = @ + 1] ELSE jobs
      /\ thread' = IF ~thread[t].sync THEN Return(t)
                   ELSE [thread EXCEPT ![t].at = IF map_[s0] = "working" THEN "wait" ELSE "start"]
  BY <1>s DEF shouldWork, Busy
<1>t. TypeOK
  BY DEF IInv
<1>1. /\ thread' \in [Thread -> ThreadState]
      /\ thread'[t].at \in {"idle", "mark", "wait", "start"}
      /\ thread[t].sync /\ map_[s0] # "working" => thread'[t].at = "start" /\ seqOf(t)' = s0
      /\ \A u \in Thread \ {t} : thread'[u] = thread[u]
      /\ \A u \in Thread : Busy(u)' => Busy(u) /\ thread'[u].l = thread[u].l
      /\ thread[t].l \in Ledger /\ s0 \in Seqs
  <2>1. CASE ~thread[t].sync
    BY <1>s, <1>0, <2>1, ReturnFacts DEF Busy
  <2>2. CASE thread[t].sync
    <3> DEFINE a == IF map_[s0] = "working" THEN "wait" ELSE "start"
    <3>1. a \in At /\ a # "idle" /\ thread' = [thread EXCEPT ![t].at = a]
      BY <1>0, <2>2 DEF At
    <3> HIDE DEF a
    <3>2. /\ thread' \in [Thread -> ThreadState] /\ thread'[t].at = a /\ seqOf(t)' = s0
          /\ \A u \in Thread \ {t} : thread'[u] = thread[u]
          /\ \A u \in Thread : Busy(u)' => Busy(u) /\ thread'[u].l = thread[u].l
          /\ thread[t].l \in Ledger /\ s0 \in Seqs
      BY <1>s, <1>0, <3>1, GotoFacts
    <3> QED
      BY <3>2 DEF a
  <2> QED
    BY <2>1, <2>2
<1>2. TypeOK' /\ ThreadsHaveLedgers'
  <2>1. map_' \in [Seqs -> {"none", "dispatched", "working"}] /\ jobs' \in [Ledger -> Nat]
    BY <1>0, <1>1, <1>t DEF TypeOK
  <2> QED
    BY <1>0, <1>1, <1>t, <2>1 DEF IInv, TypeOK, ThreadState, At, ThreadsHaveLedgers
<1>3. /\ \A s \in Seqs \ {s0} : map_'[s] = map_[s]
      /\ map_'[s0] # "none" /\ (map_[s0] # "none" => map_'[s0] = map_[s0])
      /\ (map_[s0] = "none" => map_'[s0] = "dispatched")
  BY <1>0, <1>1, <1>t DEF TypeOK
<1>4. SaverIsUnique' /\ SaverProgress' /\ RowHasTransactions'
  <2>1. thread[t].at \notin Working /\ thread'[t].at \notin Working
    BY <1>0, <1>1 DEF Working
  <2>2. \A s \in Seqs : map_'[s] = "working" <=> map_[s] = "working"
    BY <1>3
  <2> QED
    BY <1>0, <1>1, <2>1, <2>2, SaversKept
<1>5. IsFiniteSet(pendingSaves')
  <2>1. pendingSaves' = pendingSaves \cup {s0}
    BY <1>1, <1>3 DEF pendingSaves
  <2> QED
    BY <2>1, FS_AddElement DEF IInv
<1>6. DispatchedIsDone'
  <2> SUFFICES ASSUME NEW s \in Seqs, map_'[s] = "dispatched"
               PROVE  \/ \E l \in Ledger : LedgerSeq[l] = s /\ jobs'[l] > 0
                      \/ \E u \in Thread : thread'[u].at = "start" /\ seqOf(u)' = s
    BY DEF DispatchedIsDone
  <2>1. CASE map_[s] = "dispatched"
    <3>1. CASE \E l \in Ledger : LedgerSeq[l] = s /\ jobs[l] > 0
      <4>1. \A l \in Ledger : jobs[l] > 0 => jobs'[l] > 0
        BY <1>0, <1>1, <1>t DEF TypeOK
      <4> QED
        BY <3>1, <4>1
    <3>2. CASE \E u \in Thread : thread[u].at = "start" /\ seqOf(u) = s
      BY <1>0, <1>1, <3>2 DEF seqOf
    <3> QED
      BY <2>1, <3>1, <3>2 DEF IInv, DispatchedIsDone
  <2>2. CASE map_[s] # "dispatched"
    <3>1. s = s0 /\ map_[s0] = "none"
      BY <1>3, <2>2
    <3>2. CASE thread[t].sync
      BY <1>1, <3>1, <3>2
    <3>3. CASE ~thread[t].sync
      <4>1. jobs'[thread[t].l] = jobs[thread[t].l] + 1 /\ jobs[thread[t].l] \in Nat
        BY <1>0, <1>1, <1>t, <3>1, <3>3 DEF TypeOK
      <4> QED
        BY <1>s, <1>1, <3>1, <4>1
    <3> QED
      BY <3>2, <3>3
  <2> QED
    BY <2>1, <2>2
<1>7. NothingHidden'
  <2>1. Saved(s0)'
    BY <1>3 DEF Saved
  <2>2. \A s \in Seqs : Saved(s) => Saved(s)'
    <3> SUFFICES ASSUME NEW s \in Seqs, Saved(s), s # s0
                 PROVE  Saved(s)'
      BY <2>1
    <3>1. aboutToSave(s) => aboutToSave(s)'
      BY <1>s, <1>1 DEF aboutToSave, seqOf
    <3> QED
      BY <1>0, <1>3, <3>1 DEF Saved
  <2>3. \A l \in Ledger : jobs'[l] > 0 => jobs[l] > 0 \/ Saved(LedgerSeq[l])'
    <3>1. \A l \in Ledger : l # thread[t].l => jobs'[l] = jobs[l]
      BY <1>0, <1>t DEF TypeOK
    <3> QED
      BY <1>s, <2>1, <3>1
  <2> QED
    BY <1>0, <1>1, <2>2, <2>3, HiddenKept
<1> QED
  BY <1>2, <1>4, <1>5, <1>6, <1>7 DEF IInv

\* A worker takes a job.
LEMMA RunJobInv ==
  ASSUME IInv, NEW w \in Thread, NEW l \in Ledger, runJob(w, l)
  PROVE  IInv'
<1> DEFINE q == [Idle EXCEPT !.at = "start", !.l = l]
<1>0. /\ UNCHANGED <<map_, flagged, table, txns, mCompleteLedgers, mPubLedgerSeq, range, failed,
                     thrown, handed, calls>>
      /\ thread[w] = Idle /\ jobs[l] > 0 /\ jobs' = [jobs EXCEPT ![l] = @ - 1]
      /\ thread' = [thread EXCEPT ![w] = q]
  BY DEF runJob
<1>1. TypeOK /\ thread \in [Thread -> ThreadState]
  BY DEF IInv, TypeOK, ThreadState, At
<1>2. q \in ThreadState /\ q.at = "start" /\ q.l = l
  BY DEF Idle, ThreadState, At, Then
<1> HIDE DEF q
<1>3. /\ thread' \in [Thread -> ThreadState] /\ thread'[w] = q
      /\ \A u \in Thread \ {w} : thread'[u] = thread[u]
  BY <1>0, <1>1, <1>2
<1>4. jobs' \in [Ledger -> Nat] /\ \A m \in Ledger : (jobs'[m] > 0 => jobs[m] > 0) /\ (m # l => jobs'[m] = jobs[m])
  BY <1>0, <1>1 DEF TypeOK
<1>5. TypeOK' /\ ThreadsHaveLedgers'
  BY <1>0, <1>1, <1>2, <1>3, <1>4 DEF IInv, TypeOK, ThreadState, At, ThreadsHaveLedgers, Busy
<1>6. SaverIsUnique' /\ SaverProgress' /\ RowHasTransactions' /\ IsFiniteSet(pendingSaves')
  <2>1. thread[w].at \notin Working /\ thread'[w].at \notin Working
    BY <1>0, <1>2, <1>3 DEF Idle, Working
  <2> QED
    BY <1>0, <1>3, <2>1, SaversKept, PendingKept
<1>7. \A u \in Thread : thread[u].at # "idle" => thread'[u] = thread[u]
  BY <1>0, <1>3 DEF Idle
<1>8. DispatchedIsDone'
  <2> SUFFICES ASSUME NEW s \in Seqs, map_'[s] = "dispatched"
               PROVE  \/ \E m \in Ledger : LedgerSeq[m] = s /\ jobs'[m] > 0
                      \/ \E u \in Thread : thread'[u].at = "start" /\ seqOf(u)' = s
    BY DEF DispatchedIsDone
  <2>1. CASE s = LedgerSeq[l]
    BY <1>2, <1>3, <2>1 DEF seqOf
  <2>2. CASE s # LedgerSeq[l]
    <3>1. \/ \E m \in Ledger : LedgerSeq[m] = s /\ jobs[m] > 0
          \/ \E u \in Thread : thread[u].at = "start" /\ seqOf(u) = s
      BY <1>0 DEF IInv, DispatchedIsDone
    <3> QED
      BY <1>4, <1>7, <2>2, <3>1 DEF seqOf
  <2> QED
    BY <2>1, <2>2
<1>9. NothingHidden'
  <2>1. \A s \in Seqs : Saved(s) => Saved(s)'
    BY <1>0, <1>7 DEF Saved, aboutToSave, seqOf
  <2>2. Saved(seqOf(w))'
    BY <1>0, <1>2, <1>3, <2>1, SeqOfLedger DEF IInv, NothingHidden, seqOf
  <2>3. \A u \in Thread : Busy(u)' => Saved(seqOf(u))' \/ (Busy(u) /\ thread'[u].l = thread[u].l)
    BY <1>3, <2>2 DEF Busy
  <2> QED
    BY <1>0, <1>4, <2>1, <2>3, HiddenKept
<1> QED
  BY <1>5, <1>6, <1>8, <1>9 DEF IInv

(***************************************************************************)
(* startWork: the thread that finds the entry dispatched is its only       *)
(* saver; the others leave.                                                *)
(***************************************************************************)
LEMMA StartWorkInv ==
  ASSUME IInv, NEW t \in Thread, startWork(t)
  PROVE  IInv'
<1>s. PICK s0 \in Seqs : s0 = seqOf(t)
  BY SeqOfLedger DEF startWork, IInv, ThreadsHaveLedgers, Busy, seqOf
<1>0. /\ UNCHANGED <<flagged, jobs, table, txns, mCompleteLedgers, mPubLedgerSeq, range, failed,
                     thrown, handed, calls>>
      /\ thread[t].at = "start" /\ Busy(t)
      /\ IF map_[s0] = "dispatched"
         THEN map_' = [map_ EXCEPT ![s0] = "working"] /\ thread' = [thread EXCEPT ![t].at = "store"]
         ELSE thread' = Return(t) /\ UNCHANGED map_
  BY <1>s DEF startWork, Busy, Goto
<1>t. TypeOK
  BY DEF IInv
<1>1. /\ thread' \in [Thread -> ThreadState]
      /\ map_[s0] = "dispatched" => thread'[t].at = "store" /\ seqOf(t)' = s0
      /\ map_[s0] # "dispatched" => thread'[t].at \in {"idle", "mark"}
      /\ \A u \in Thread \ {t} : thread'[u] = thread[u]
      /\ \A u \in Thread : Busy(u)' => Busy(u) /\ thread'[u].l = thread[u].l
  <2>1. CASE map_[s0] # "dispatched"
    BY <1>s, <1>0, <2>1, ReturnFacts DEF Busy
  <2>2. CASE map_[s0] = "dispatched"
    <3>1. "store" \in At /\ "store" # "idle"
      BY DEF At, Working
    <3> QED
      BY <1>s, <1>0, <2>2, <3>1, GotoFacts
  <2> QED
    BY <2>1, <2>2
<1>2. TypeOK' /\ ThreadsHaveLedgers'
  <2>1. map_' \in [Seqs -> {"none", "dispatched", "working"}]
    BY <1>0, <1>t DEF TypeOK
  <2> QED
    BY <1>0, <1>1, <1>t, <2>1 DEF IInv, TypeOK, ThreadState, At, ThreadsHaveLedgers
<1>3. /\ \A s \in Seqs \ {s0} : map_'[s] = map_[s]
      /\ map_'[s0] # "dispatched"
      /\ map_[s0] = "dispatched" => map_'[s0] = "working"
      /\ map_[s0] # "dispatched" => map_'[s0] = map_[s0]
  BY <1>0, <1>t DEF TypeOK
<1>4. SaverIsUnique' /\ SaverProgress' /\ RowHasTransactions'
  <2>1. CASE map_[s0] # "dispatched"
    <3>1. thread[t].at \notin Working /\ thread'[t].at \notin Working
      BY <1>0, <1>1, <2>1 DEF Working
    <3>2. \A s \in Seqs : map_'[s] = "working" <=> map_[s] = "working"
      BY <1>3, <2>1
    <3> QED
      BY <1>0, <1>1, <3>1, <3>2, SaversKept
  <2>2. CASE map_[s0] = "dispatched"
    <3>1. s0 \notin thrown /\ \A u \in Thread : ~Saves(u, s0)
      BY <2>2 DEF IInv, SaverIsUnique
    <3>2. Saves(t, s0)' /\ \A s \in Seqs \ {s0} : ~Saves(t, s)' /\ ~Saves(t, s)
      BY <1>s, <1>1, <2>2 DEF Saves, Working
    <3>3. \A u \in Thread \ {t}, s \in Seqs : Saves(u, s)' <=> Saves(u, s)
      BY <1>1 DEF Saves, seqOf
    <3>4. SaverIsUnique'
      <4>1. ASSUME NEW u \in Thread, NEW v \in Thread, NEW s \in Seqs, Saves(u, s)', Saves(v, s)'
            PROVE  u = v
        BY <3>1, <3>2, <3>3, <4>1 DEF IInv, SaverIsUnique
      <4>2. ASSUME NEW s \in Seqs
            PROVE  map_'[s] = "working" <=> s \in thrown' \/ \E u \in Thread : Saves(u, s)'
        <5>1. CASE s = s0
          BY <1>3, <2>2, <3>2, <5>1
        <5>2. CASE s # s0
          <6>1. \A u \in Thread : Saves(u, s)' <=> Saves(u, s)
            BY <3>2, <3>3, <5>2
          <6> QED
            BY <1>0, <1>3, <5>2, <6>1 DEF IInv, SaverIsUnique
        <5> QED
          BY <5>1, <5>2
      <4>3. \A s \in thrown', u \in Thread : ~Saves(u, s)'
        <5>1. thrown' = thrown /\ thrown \subseteq Seqs
          BY <1>0, <1>t DEF TypeOK
        <5> QED
          BY <3>1, <3>2, <3>3, <5>1 DEF IInv, SaverIsUnique
      <4> QED
        BY <4>1, <4>2, <4>3 DEF SaverIsUnique
    <3>5. SaverProgress'
      BY <1>0, <1>1, <2>2 DEF IInv, SaverProgress, seqOf
    <3>6. RowHasTransactions'
      BY <1>0 DEF IInv, RowHasTransactions
    <3> QED
      BY <3>4, <3>5, <3>6
  <2> QED
    BY <2>1, <2>2
<1>5. IsFiniteSet(pendingSaves')
  BY <1>3, PendingKept
<1>6. DispatchedIsDone'
  <2> SUFFICES ASSUME NEW s \in Seqs, map_'[s] = "dispatched"
               PROVE  \/ \E l \in Ledger : LedgerSeq[l] = s /\ jobs'[l] > 0
                      \/ \E u \in Thread : thread'[u].at = "start" /\ seqOf(u)' = s
    BY DEF DispatchedIsDone
  <2>1. s # s0 /\ map_[s] = "dispatched"
    BY <1>3
  <2> QED
    BY <1>s, <1>0, <1>1, <2>1 DEF IInv, DispatchedIsDone, seqOf
<1>7. NothingHidden'
  <2>1. \A s \in Seqs : Saved(s) => Saved(s)'
    <3>1. \A u \in Thread : thread[u].at = "should" => thread'[u] = thread[u]
      BY <1>0, <1>1
    <3> QED
      BY <1>0, <1>3, <3>1 DEF Saved, aboutToSave, seqOf
  <2> QED
    BY <1>0, <1>1, <2>1, HiddenKept
<1> QED
  BY <1>2, <1>4, <1>5, <1>6, <1>7 DEF IInv

-----------------------------------------------------------------------------
(***************************************************************************)
(* The one saver of a sequence goes from one place to the next: it stays   *)
(* the one saver, and nobody else is concerned.                            *)
(***************************************************************************)
LEMMA WorkKept ==
  ASSUME IInv, NEW t \in Thread, thread[t].at \in Working, NEW a \in Working,
         thread' = [thread EXCEPT ![t].at = a],
         UNCHANGED <<map_, flagged, jobs, mPubLedgerSeq, range, thrown, handed>>,
         mCompleteLedgers' \subseteq mCompleteLedgers
  PROVE  /\ thread' \in [Thread -> ThreadState] /\ ThreadsHaveLedgers'
         /\ SaverIsUnique' /\ DispatchedIsDone' /\ IsFiniteSet(pendingSaves')
         /\ thread'[t].at = a /\ thread'[t].l = thread[t].l /\ seqOf(t)' = seqOf(t)
         /\ thread[t].l \in Ledger /\ seqOf(t) \in Seqs /\ map_[seqOf(t)] = "working"
         /\ \A u \in Thread \ {t} : thread'[u] = thread[u] /\ (thread[u].at \in Working => seqOf(u) # seqOf(t))
         /\ (\A s \in Seqs : s \in failed \/ table[s] # NoLedger => map_[s] # "none" \/ s \in failed' \/ table'[s] # NoLedger)
              => NothingHidden'
<1>0. Busy(t) /\ a \in At /\ a # "idle"
  BY DEF Busy, Working, At
<1>1. /\ thread' \in [Thread -> ThreadState] /\ ThreadsHaveLedgers'
      /\ thread'[t].at = a /\ thread'[t].l = thread[t].l /\ seqOf(t)' = seqOf(t)
      /\ \A u \in Thread \ {t} : thread'[u] = thread[u]
      /\ thread[t].l \in Ledger /\ seqOf(t) \in Seqs
      /\ \A u \in Thread : Busy(u)' => Busy(u) /\ thread'[u].l = thread[u].l
  BY <1>0, GotoFacts
<1>2. \A u \in Thread, s \in Seqs : Saves(u, s)' <=> Saves(u, s)
  BY <1>1 DEF Saves, seqOf
<1>3. SaverIsUnique'
  <2>1. thrown \subseteq Seqs
    BY DEF IInv, TypeOK
  <2> QED
    BY <1>2, <2>1 DEF IInv, SaverIsUnique
<1>4. DispatchedIsDone'
  BY <1>1 DEF IInv, DispatchedIsDone, seqOf, Working
<1>5. IsFiniteSet(pendingSaves')
  BY PendingKept
<1>6. Saves(t, seqOf(t)) /\ map_[seqOf(t)] = "working"
  BY <1>1 DEF Saves, IInv, SaverIsUnique
<1>7. \A u \in Thread \ {t} : thread[u].at \in Working => seqOf(u) # seqOf(t)
  BY <1>1, <1>6 DEF Saves, IInv, SaverIsUnique
<1>8. ASSUME \A s \in Seqs : s \in failed \/ table[s] # NoLedger
               => map_[s] # "none" \/ s \in failed' \/ table'[s] # NoLedger
      PROVE  NothingHidden'
  <2>1. \A u \in Thread : thread[u].at = "should" => thread'[u] = thread[u]
    BY <1>1 DEF Working
  <2>2. \A s \in Seqs : Saved(s) => Saved(s)'
    BY <1>8, <2>1 DEF Saved, aboutToSave, seqOf
  <2> QED
    BY <1>1, <2>2, HiddenKept
<1> QED
  BY <1>1, <1>3, <1>4, <1>5, <1>6, <1>7, <1>8

LEMMA FailedSaveInv ==
  ASSUME IInv, NEW t \in Thread, failedSave(t)
  PROVE  IInv'
<1>0. /\ thread[t].at \in Working /\ "finish" \in Working
      /\ thread' = [thread EXCEPT ![t].at = "finish"]
      /\ failed' = failed \cup {seqOf(t)} /\ mCompleteLedgers' = mCompleteLedgers \ {seqOf(t)}
      /\ UNCHANGED <<map_, flagged, jobs, table, txns, mPubLedgerSeq, range, thrown, handed, calls>>
  BY DEF failedSave, Goto, Working
<1>1. mCompleteLedgers' \subseteq mCompleteLedgers
  BY <1>0
<1>2. /\ thread' \in [Thread -> ThreadState] /\ ThreadsHaveLedgers'
      /\ SaverIsUnique' /\ DispatchedIsDone' /\ IsFiniteSet(pendingSaves') /\ NothingHidden'
      /\ thread'[t].at = "finish" /\ seqOf(t)' = seqOf(t) /\ seqOf(t) \in Seqs
      /\ \A u \in Thread \ {t} : thread'[u] = thread[u]
  BY <1>0, <1>1, WorkKept
<1>3. TypeOK'
  BY <1>0, <1>2 DEF IInv, TypeOK, ThreadState, At
<1>4. SaverProgress'
  BY <1>0, <1>2 DEF IInv, SaverProgress, seqOf
<1>5. RowHasTransactions'
  BY <1>0 DEF IInv, RowHasTransactions
<1> QED
  BY <1>2, <1>3, <1>4, <1>5 DEF IInv

(***************************************************************************)
(* saveThrows: the entry stays without a saver, and no other can come.     *)
(***************************************************************************)
LEMMA SaveThrowsInv ==
  ASSUME IInv, NEW t \in Thread, saveThrows(t)
  PROVE  IInv'
<1>s. PICK s0 \in Seqs : s0 = seqOf(t)
  BY SeqOfLedger DEF saveThrows, IInv, ThreadsHaveLedgers, Busy, seqOf
<1>0. /\ UNCHANGED <<map_, flagged, jobs, table, txns, mCompleteLedgers, mPubLedgerSeq, range,
                     handed, calls>>
      /\ thread[t].at = "store" /\ Busy(t)
      /\ failed' = failed \cup {s0} /\ thrown' = thrown \cup {s0}
      /\ thread' = [thread EXCEPT ![t] = Idle]
  BY <1>s DEF saveThrows, Busy
<1>1. TypeOK /\ thread \in [Thread -> ThreadState]
  BY DEF IInv, TypeOK, ThreadState, At
<1>2. Idle \in ThreadState /\ Idle.at = "idle"
  BY DEF Idle, ThreadState, At, Then
<1>3. /\ thread' \in [Thread -> ThreadState] /\ thread'[t].at = "idle"
      /\ \A u \in Thread \ {t} : thread'[u] = thread[u]
  BY <1>0, <1>1, <1>2
<1>4. TypeOK' /\ ThreadsHaveLedgers'
  BY <1>s, <1>0, <1>1, <1>3 DEF IInv, TypeOK, ThreadState, At, ThreadsHaveLedgers, Busy
<1>5. SaverIsUnique'
  <2>1. Saves(t, s0) /\ map_[s0] = "working" /\ \A u \in Thread \ {t} : ~Saves(u, s0)
    BY <1>s, <1>0 DEF IInv, SaverIsUnique, Saves, Working
  <2>2. \A u \in Thread, s \in Seqs : Saves(u, s)' <=> u # t /\ Saves(u, s)
    BY <1>3 DEF Saves, seqOf, Working
  <2>3. ASSUME NEW s \in Seqs
        PROVE  map_'[s] = "working" <=> s \in thrown' \/ \E u \in Thread : Saves(u, s)'
    <3>1. CASE s = s0
      BY <1>0, <2>1, <3>1
    <3>2. CASE s # s0
      <4>1. ~Saves(t, s)
        BY <1>s, <3>2 DEF Saves
      <4> QED
        BY <1>0, <2>2, <3>2, <4>1 DEF IInv, SaverIsUnique
    <3> QED
      BY <3>1, <3>2
  <2>4. \A s \in thrown', u \in Thread : ~Saves(u, s)'
    <3>1. thrown \subseteq Seqs
      BY <1>1 DEF TypeOK
    <3> QED
      BY <1>0, <2>1, <2>2, <3>1 DEF IInv, SaverIsUnique
  <2> QED
    BY <2>2, <2>3, <2>4 DEF IInv, SaverIsUnique
<1>6. SaverProgress' /\ RowHasTransactions' /\ IsFiniteSet(pendingSaves')
  BY <1>0, <1>3, PendingKept DEF IInv, SaverProgress, RowHasTransactions, seqOf
<1>7. DispatchedIsDone'
  BY <1>0, <1>3 DEF IInv, DispatchedIsDone, seqOf
<1>8. NothingHidden'
  <2>1. \A s \in Seqs : Saved(s) => Saved(s)'
    BY <1>0, <1>3 DEF Saved, aboutToSave, seqOf
  <2>2. \A u \in Thread : Busy(u)' => Busy(u) /\ thread'[u].l = thread[u].l
    BY <1>3 DEF Busy
  <2> QED
    BY <1>0, <2>1, <2>2, HiddenKept
<1> QED
  BY <1>4, <1>5, <1>6, <1>7, <1>8 DEF IInv

\* The row goes while the entry is in the map: a reader leaves the sequence out.
LEMMA DeleteLedgerInv ==
  ASSUME IInv, NEW t \in Thread, deleteLedger(t)
  PROVE  IInv'
<1>0. /\ thread[t].at \in Working /\ "txns" \in Working
      /\ thread' = [thread EXCEPT ![t].at = "txns"]
      /\ table' = [table EXCEPT ![seqOf(t)] = NoLedger]
      /\ UNCHANGED <<map_, flagged, jobs, txns, mCompleteLedgers, mPubLedgerSeq, range, failed,
                     thrown, handed, calls>>
  BY DEF deleteLedger, Goto, Working
<1>1. /\ thread' \in [Thread -> ThreadState] /\ ThreadsHaveLedgers'
      /\ SaverIsUnique' /\ DispatchedIsDone' /\ IsFiniteSet(pendingSaves')
      /\ thread'[t].at = "txns" /\ seqOf(t)' = seqOf(t) /\ seqOf(t) \in Seqs
      /\ map_[seqOf(t)] = "working"
      /\ \A u \in Thread \ {t} : thread'[u] = thread[u] /\ (thread[u].at \in Working => seqOf(u) # seqOf(t))
      /\ (\A s \in Seqs : s \in failed \/ table[s] # NoLedger => map_[s] # "none" \/ s \in failed' \/ table'[s] # NoLedger)
           => NothingHidden'
  BY <1>0, WorkKept
<1>2. table \in [Seqs -> Ledger \cup {NoLedger}]
  BY DEF IInv, TypeOK
<1>3. /\ table' \in [Seqs -> Ledger \cup {NoLedger}] /\ table'[seqOf(t)] = NoLedger
      /\ \A s \in Seqs : s # seqOf(t) => table'[s] = table[s]
  BY <1>0, <1>1, <1>2
<1>4. TypeOK'
  BY <1>0, <1>1, <1>3 DEF IInv, TypeOK, ThreadState, At
<1>5. SaverProgress'
  <2> SUFFICES ASSUME NEW u \in Thread
               PROVE  /\ thread'[u].at \in {"txns", "insert"} => table'[seqOf(u)'] = NoLedger
                      /\ thread'[u].at = "insert" => txns'[seqOf(u)'] = thread'[u].l
                      /\ thread'[u].at = "finish" => table'[seqOf(u)'] # NoLedger \/ seqOf(u)' \in failed'
    BY DEF SaverProgress
  <2>1. CASE u = t
    BY <1>1, <1>3, <2>1
  <2>2. CASE u # t
    <3>1. seqOf(u)' = seqOf(u) /\ thread'[u] = thread[u]
      BY <1>1, <2>2 DEF seqOf
    <3>2. thread[u].at \in Working => seqOf(u) \in Seqs /\ seqOf(u) # seqOf(t)
      BY <1>1, <2>2, SeqOfLedger DEF IInv, ThreadsHaveLedgers, Busy, Working, seqOf
    <3> QED
      BY <1>0, <1>3, <3>1, <3>2 DEF IInv, SaverProgress, Working
  <2> QED
    BY <2>1, <2>2
<1>6. RowHasTransactions'
  BY <1>0, <1>3 DEF IInv, RowHasTransactions
<1>7. NothingHidden'
  BY <1>0, <1>1, <1>3
<1> QED
  BY <1>1, <1>4, <1>5, <1>6, <1>7 DEF IInv

\* No row is there while the transactions are replaced.
LEMMA SaveTransactionsInv ==
  ASSUME IInv, NEW t \in Thread, saveTransactions(t)
  PROVE  IInv'
<1>0. /\ thread[t].at \in Working /\ "insert" \in Working /\ thread[t].at = "txns"
      /\ thread' = [thread EXCEPT ![t].at = "insert"]
      /\ txns' = [txns EXCEPT ![seqOf(t)] = thread[t].l]
      /\ UNCHANGED <<map_, flagged, jobs, table, mCompleteLedgers, mPubLedgerSeq, range, failed,
                     thrown, handed, calls>>
  BY DEF saveTransactions, Goto, Working
<1>1. /\ thread' \in [Thread -> ThreadState] /\ ThreadsHaveLedgers'
      /\ SaverIsUnique' /\ DispatchedIsDone' /\ IsFiniteSet(pendingSaves') /\ NothingHidden'
      /\ thread'[t].at = "insert" /\ thread'[t].l = thread[t].l
      /\ seqOf(t)' = seqOf(t) /\ seqOf(t) \in Seqs /\ thread[t].l \in Ledger
      /\ \A u \in Thread \ {t} : thread'[u] = thread[u] /\ (thread[u].at \in Working => seqOf(u) # seqOf(t))
  BY <1>0, WorkKept
<1>2. txns \in [Seqs -> Ledger \cup {NoLedger}]
  BY DEF IInv, TypeOK
<1>3. /\ txns' \in [Seqs -> Ledger \cup {NoLedger}] /\ txns'[seqOf(t)] = thread[t].l
      /\ \A s \in Seqs : s # seqOf(t) => txns'[s] = txns[s]
  BY <1>0, <1>1, <1>2
<1>4. TypeOK'
  BY <1>0, <1>1, <1>3 DEF IInv, TypeOK, ThreadState, At
<1>5. table[seqOf(t)] = NoLedger
  BY <1>0 DEF IInv, SaverProgress
<1>6. SaverProgress'
  <2> SUFFICES ASSUME NEW u \in Thread
               PROVE  /\ thread'[u].at \in {"txns", "insert"} => table'[seqOf(u)'] = NoLedger
                      /\ thread'[u].at = "insert" => txns'[seqOf(u)'] = thread'[u].l
                      /\ thread'[u].at = "finish" => table'[seqOf(u)'] # NoLedger \/ seqOf(u)' \in failed'
    BY DEF SaverProgress
  <2>1. CASE u = t
    BY <1>0, <1>1, <1>3, <1>5, <2>1
  <2>2. CASE u # t
    <3>1. seqOf(u)' = seqOf(u) /\ thread'[u] = thread[u]
      BY <1>1, <2>2 DEF seqOf
    <3>2. thread[u].at \in Working => seqOf(u) \in Seqs /\ seqOf(u) # seqOf(t)
      BY <1>1, <2>2, SeqOfLedger DEF IInv, ThreadsHaveLedgers, Busy, Working, seqOf
    <3> QED
      BY <1>0, <1>3, <3>1, <3>2 DEF IInv, SaverProgress, Working
  <2> QED
    BY <2>1, <2>2
<1>7. RowHasTransactions'
  BY <1>0, <1>3, <1>5 DEF IInv, RowHasTransactions
<1> QED
  BY <1>1, <1>4, <1>6, <1>7 DEF IInv

\* The row comes when its transactions are there.
LEMMA AddLedgerInv ==
  ASSUME IInv, NEW t \in Thread, addLedger(t)
  PROVE  IInv'
<1>0. /\ thread[t].at \in Working /\ "finish" \in Working /\ thread[t].at = "insert"
      /\ thread' = [thread EXCEPT ![t].at = "finish"]
      /\ table' = [table EXCEPT ![seqOf(t)] = thread[t].l] /\ failed' = failed \ {seqOf(t)}
      /\ UNCHANGED <<map_, flagged, jobs, txns, mCompleteLedgers, mPubLedgerSeq, range, thrown,
                     handed, calls>>
  BY DEF addLedger, Goto, Working
<1>1. /\ thread' \in [Thread -> ThreadState] /\ ThreadsHaveLedgers'
      /\ SaverIsUnique' /\ DispatchedIsDone' /\ IsFiniteSet(pendingSaves')
      /\ thread'[t].at = "finish" /\ thread'[t].l = thread[t].l
      /\ seqOf(t)' = seqOf(t) /\ seqOf(t) \in Seqs /\ thread[t].l \in Ledger
      /\ map_[seqOf(t)] = "working"
      /\ \A u \in Thread \ {t} : thread'[u] = thread[u] /\ (thread[u].at \in Working => seqOf(u) # seqOf(t))
      /\ (\A s \in Seqs : s \in failed \/ table[s] # NoLedger => map_[s] # "none" \/ s \in failed' \/ table'[s] # NoLedger)
           => NothingHidden'
  BY <1>0, WorkKept
<1>2. table \in [Seqs -> Ledger \cup {NoLedger}]
  BY DEF IInv, TypeOK
<1>3. /\ table' \in [Seqs -> Ledger \cup {NoLedger}] /\ table'[seqOf(t)] = thread[t].l
      /\ \A s \in Seqs : s # seqOf(t) => table'[s] = table[s]
  BY <1>0, <1>1, <1>2
<1>4. TypeOK'
  BY <1>0, <1>1, <1>3 DEF IInv, TypeOK, ThreadState, At
<1>5. txns[seqOf(t)] = thread[t].l /\ thread[t].l # NoLedger
  BY <1>0, <1>1, SaveAssumption DEF IInv, SaverProgress
<1>6. SaverProgress'
  <2> SUFFICES ASSUME NEW u \in Thread
               PROVE  /\ thread'[u].at \in {"txns", "insert"} => table'[seqOf(u)'] = NoLedger
                      /\ thread'[u].at = "insert" => txns'[seqOf(u)'] = thread'[u].l
                      /\ thread'[u].at = "finish" => table'[seqOf(u)'] # NoLedger \/ seqOf(u)' \in failed'
    BY DEF SaverProgress
  <2>1. CASE u = t
    BY <1>0, <1>1, <1>3, <1>5, <2>1
  <2>2. CASE u # t
    <3>1. seqOf(u)' = seqOf(u) /\ thread'[u] = thread[u]
      BY <1>1, <2>2 DEF seqOf
    <3>2. thread[u].at \in Working => seqOf(u) \in Seqs /\ seqOf(u) # seqOf(t)
      BY <1>1, <2>2, SeqOfLedger DEF IInv, ThreadsHaveLedgers, Busy, Working, seqOf
    <3> QED
      BY <1>0, <1>3, <3>1, <3>2 DEF IInv, SaverProgress, Working
  <2> QED
    BY <2>1, <2>2
<1>7. RowHasTransactions'
  BY <1>0, <1>3, <1>5 DEF IInv, RowHasTransactions
<1>8. NothingHidden'
  BY <1>0, <1>1, <1>3, <1>5
<1> QED
  BY <1>1, <1>4, <1>6, <1>7, <1>8 DEF IInv

(***************************************************************************)
(* finishWork: the row is there or the save has failed, so the entry may   *)
(* go; the waiters are about to enter it again.                            *)
(***************************************************************************)
LEMMA FinishWorkInv ==
  ASSUME IInv, NEW t \in Thread, finishWork(t)
  PROVE  IInv'
<1>s. PICK s0 \in Seqs : s0 = seqOf(t)
  BY SeqOfLedger DEF finishWork, IInv, ThreadsHaveLedgers, Busy, seqOf
<1>0. /\ UNCHANGED <<flagged, jobs, table, txns, mCompleteLedgers, mPubLedgerSeq, range, failed,
                     thrown, handed, calls>>
      /\ thread[t].at = "finish" /\ Busy(t)
      /\ map_' = [map_ EXCEPT ![s0] = "none"]
  BY <1>s DEF finishWork, Busy
<1>t. TypeOK /\ thread \in [Thread -> ThreadState]
  BY DEF IInv, TypeOK, ThreadState, At
<1>r. PICK th : /\ th = Return(t) /\ th \in [Thread -> ThreadState]
                /\ th[t].at \in {"idle", "mark"}
                /\ \A u \in Thread \ {t} : th[u] = thread[u]
                /\ \A u \in Thread : th[u].at # "idle" => Busy(u) /\ th[u].l = thread[u].l
  BY <1>0, ReturnFacts
<1>1. thread' = [u \in Thread |-> IF thread[u].at = "wait" THEN [thread[u] EXCEPT !.at = "should"]
                                  ELSE th[u]]
  BY <1>r DEF finishWork
<1>2. \A u \in Thread : thread[u].at = "wait" =>
        thread'[u] \in ThreadState /\ thread'[u].at = "should" /\ thread'[u].l = thread[u].l
  BY <1>t, <1>1 DEF ThreadState, At
<1>3. \A u \in Thread : thread[u].at # "wait" => thread'[u] = th[u]
  BY <1>1
<1>4. /\ thread' \in [Thread -> ThreadState]
      /\ thread'[t].at \in {"idle", "mark"}
      /\ \A u \in Thread \ {t} : thread[u].at # "wait" => thread'[u] = thread[u]
      /\ \A u \in Thread : Busy(u)' => Busy(u) /\ thread'[u].l = thread[u].l
  <2>1. thread' \in [Thread -> ThreadState]
    BY <1>r, <1>1, <1>2, <1>3
  <2> QED
    BY <1>0, <1>r, <1>2, <1>3, <2>1 DEF Busy
<1>5. TypeOK' /\ ThreadsHaveLedgers'
  <2>1. map_' \in [Seqs -> {"none", "dispatched", "working"}]
    BY <1>0, <1>t DEF TypeOK
  <2> QED
    BY <1>0, <1>4, <1>t, <2>1 DEF IInv, TypeOK, ThreadState, At, ThreadsHaveLedgers
<1>6. map_'[s0] = "none" /\ \A s \in Seqs \ {s0} : map_'[s] = map_[s]
  BY <1>0, <1>t DEF TypeOK
<1>7. \A u \in Thread : /\ thread'[u].at \in Working => u # t /\ thread'[u] = thread[u]
                        /\ u # t /\ thread[u].at \in Working => thread'[u] = thread[u]
  BY <1>2, <1>4 DEF Working
<1>8. SaverIsUnique'
  <2>1. Saves(t, s0) /\ s0 \notin thrown /\ \A u \in Thread \ {t} : ~Saves(u, s0)
    BY <1>s, <1>0 DEF IInv, SaverIsUnique, Saves, Working
  <2>2. \A u \in Thread, s \in Seqs : Saves(u, s)' <=> u # t /\ Saves(u, s)
    BY <1>7 DEF Saves, seqOf
  <2>3. ASSUME NEW s \in Seqs
        PROVE  map_'[s] = "working" <=> s \in thrown' \/ \E u \in Thread : Saves(u, s)'
    <3>1. CASE s = s0
      BY <1>0, <1>6, <2>1, <2>2, <3>1
    <3>2. CASE s # s0
      <4>1. ~Saves(t, s)
        BY <1>s, <3>2 DEF Saves
      <4> QED
        BY <1>0, <1>6, <2>2, <3>2, <4>1 DEF IInv, SaverIsUnique
    <3> QED
      BY <3>1, <3>2
  <2>4. \A s \in thrown', u \in Thread : ~Saves(u, s)'
    <3>1. thrown' = thrown /\ thrown \subseteq Seqs
      BY <1>0, <1>t DEF TypeOK
    <3> QED
      BY <2>2, <3>1 DEF IInv, SaverIsUnique
  <2> QED
    BY <2>2, <2>3, <2>4 DEF IInv, SaverIsUnique
<1>9. SaverProgress' /\ RowHasTransactions'
  BY <1>0, <1>7 DEF IInv, SaverProgress, RowHasTransactions, Working, seqOf
<1>10. IsFiniteSet(pendingSaves')
  BY <1>6, PendingKept
<1>11. DispatchedIsDone'
  BY <1>0, <1>4, <1>6 DEF IInv, DispatchedIsDone, seqOf
<1>12. NothingHidden'
  <2>1. table[s0] # NoLedger \/ s0 \in failed
    BY <1>s, <1>0 DEF IInv, SaverProgress
  <2>2. \A u \in Thread : thread[u].at = "should" => thread'[u] = thread[u]
    BY <1>0, <1>4
  <2>3. \A s \in Seqs : Saved(s) => Saved(s)'
    BY <1>0, <1>6, <2>1, <2>2 DEF Saved, aboutToSave, seqOf
  <2> QED
    BY <1>0, <1>4, <2>3, HiddenKept
<1> QED
  BY <1>5, <1>8, <1>9, <1>10, <1>11, <1>12 DEF IInv

\* What is marked complete, or published, is accounted for.
LEMMA MarkCompleteInv ==
  ASSUME IInv, NEW t \in Thread, markComplete(t)
  PROVE  IInv'
<1>s. PICK s0 \in Seqs : s0 = seqOf(t)
  BY SeqOfLedger DEF markComplete, IInv, ThreadsHaveLedgers, Busy, seqOf
<1>0. /\ UNCHANGED <<map_, flagged, jobs, table, txns, range, failed,
                     thrown, handed, calls>>
      /\ thread[t].at = "mark" /\ Busy(t)
      /\ mCompleteLedgers' = mCompleteLedgers \cup {s0}
      /\ mPubLedgerSeq' \in {mPubLedgerSeq, s0}
      /\ thread' = [thread EXCEPT ![t] = Idle]
  BY <1>s DEF markComplete, Busy
<1>1. TypeOK /\ thread \in [Thread -> ThreadState]
  BY DEF IInv, TypeOK, ThreadState, At
<1>2. Idle \in ThreadState /\ Idle.at = "idle"
  BY DEF Idle, ThreadState, At, Then
<1>3. /\ thread' \in [Thread -> ThreadState] /\ thread'[t].at = "idle"
      /\ \A u \in Thread \ {t} : thread'[u] = thread[u]
  BY <1>0, <1>1, <1>2
<1>4. TypeOK' /\ ThreadsHaveLedgers'
  BY <1>s, <1>0, <1>1, <1>3 DEF IInv, TypeOK, ThreadState, At, ThreadsHaveLedgers, Busy
<1>5. SaverIsUnique' /\ SaverProgress' /\ RowHasTransactions' /\ IsFiniteSet(pendingSaves')
  <2>1. thread[t].at \notin Working /\ thread'[t].at \notin Working
    BY <1>0, <1>3 DEF Working
  <2> QED
    BY <1>0, <1>3, <2>1, SaversKept, PendingKept
<1>6. DispatchedIsDone'
  BY <1>0, <1>3 DEF IInv, DispatchedIsDone, seqOf
<1>7. NothingHidden'
  <2>1. \A s \in Seqs : Saved(s) => Saved(s)'
    BY <1>0, <1>3 DEF Saved, aboutToSave, seqOf
  <2>2. Saved(s0)'
    BY <1>s, <1>0, <2>1 DEF IInv, NothingHidden
  <2>3. \A s \in mCompleteLedgers' : s \in mCompleteLedgers \/ Saved(s)'
    BY <1>0, <2>2
  <2>4. mPubLedgerSeq' = mPubLedgerSeq \/ Saved(mPubLedgerSeq)'
    <3>1. CASE mPubLedgerSeq' = s0
      BY <2>2, <3>1 DEF Saved, aboutToSave, seqOf
    <3> QED
      BY <1>0, <3>1
  <2>5. \A u \in Thread : Busy(u)' => Busy(u) /\ thread'[u].l = thread[u].l
    BY <1>3 DEF Busy
  <2> QED
    BY <1>0, <2>1, <2>3, <2>4, <2>5, HiddenKept
<1> QED
  BY <1>4, <1>5, <1>6, <1>7 DEF IInv

(***************************************************************************)
(* readRange: the sequences down to the first one missing are complete,    *)
(* the one at the top is published.                                        *)
(***************************************************************************)
LEMMA ReadRangeInv ==
  ASSUME IInv, readRange
  PROVE  IInv'
<1>0. /\ UNCHANGED <<map_, flagged, jobs, thread, table, txns, mCompleteLedgers, mPubLedgerSeq,
                     failed, thrown, handed, calls>>
      /\ mPubLedgerSeq # 0
      /\ range' = [at |-> "read", min |-> prevMissing(mPubLedgerSeq) + 1, max |-> mPubLedgerSeq]
  BY DEF readRange
<1>1. TypeOK /\ NothingHidden
  BY DEF IInv
<1>2. mPubLedgerSeq \in Seqs /\ mPubLedgerSeq \in Nat
  BY <1>0, <1>1, SeqIsPositive DEF TypeOK
<1> DEFINE gap == {n \in 0 .. mPubLedgerSeq - 1 : n \notin mCompleteLedgers}
<1>3. 0 \in gap
  BY <1>0, <1>1, <1>2, SeqIsPositive DEF TypeOK
<1>4. Max(gap) \in gap /\ \A y \in gap : Max(gap) >= y
  <2>1. gap \in SUBSET Nat /\ gap # {} /\ \A y \in gap : y <= mPubLedgerSeq
    BY <1>2, <1>3
  <2> HIDE DEF gap
  <2> QED
    BY <1>2, <2>1, MaxIsGreatest
<1>5. PICK p \in 0 .. mPubLedgerSeq - 1 :
        p = prevMissing(mPubLedgerSeq) /\ \A n \in p + 1 .. mPubLedgerSeq - 1 : n \in mCompleteLedgers
  <2>1. Max(gap) \in 0 .. mPubLedgerSeq - 1
    BY <1>4
  <2>2. \A n \in Max(gap) + 1 .. mPubLedgerSeq - 1 : n \in mCompleteLedgers
    <3> SUFFICES ASSUME NEW n \in Max(gap) + 1 .. mPubLedgerSeq - 1, n \notin mCompleteLedgers PROVE FALSE
      OBVIOUS
    <3>1. n \in gap /\ n > Max(gap)
      BY <1>2, <2>1
    <3> QED
      BY <1>4, <2>1, <3>1
  <2> QED
    BY <2>1, <2>2 DEF prevMissing
<1>6. range'.at = "read" /\ range'.min = p + 1 /\ range'.max = mPubLedgerSeq
  BY <1>0, <1>5
<1>7. TypeOK'
  BY <1>0, <1>1, <1>2, <1>5 DEF TypeOK
<1>8. SaverIsUnique' /\ SaverProgress' /\ RowHasTransactions' /\ IsFiniteSet(pendingSaves')
  BY <1>0, SaversKept, PendingKept
<1>9. ThreadsHaveLedgers' /\ DispatchedIsDone'
  BY <1>0 DEF IInv, ThreadsHaveLedgers, Busy, DispatchedIsDone, seqOf
<1>10. NothingHidden'
  <2>1. \A s : Saved(s)' <=> Saved(s)
    BY <1>0 DEF Saved, aboutToSave, seqOf
  <2>2. \A s \in p + 1 .. mPubLedgerSeq : s \in Seqs /\ Saved(s)'
    <3>1. \A s \in p + 1 .. mPubLedgerSeq : s = mPubLedgerSeq \/ s \in mCompleteLedgers
      BY <1>2, <1>5
    <3>2. mCompleteLedgers \subseteq Seqs
      BY <1>1 DEF TypeOK
    <3> QED
      BY <1>0, <1>1, <1>2, <2>1, <3>1, <3>2 DEF NothingHidden
  <2>3. range'.min \in 1 .. range'.max
    BY <1>2, <1>5, <1>6
  <2>4. \A u \in Thread : seqOf(u)' = seqOf(u) /\ Busy(u)' = Busy(u)
    BY <1>0 DEF seqOf, Busy
  <2> QED
    BY <1>0, <1>1, <1>6, <2>1, <2>2, <2>3, <2>4 DEF NothingHidden
<1> QED
  BY <1>7, <1>8, <1>9, <1>10 DEF IInv

LEMMA NextInv == IInv /\ [Next]_vars => IInv'
<1> SUFFICES ASSUME IInv, [Next]_vars PROVE IInv'
  OBVIOUS
<1>1. CASE UNCHANGED vars
  <2>1. TypeOK' /\ ThreadsHaveLedgers'
    BY <1>1 DEF vars, IInv, TypeOK, ThreadsHaveLedgers, Busy
  <2>2. SaverIsUnique' /\ SaverProgress' /\ RowHasTransactions' /\ IsFiniteSet(pendingSaves')
    BY <1>1, SaversKept, PendingKept DEF vars
  <2>3. DispatchedIsDone' /\ NothingHidden'
    BY <1>1, HiddenKept DEF vars, IInv, DispatchedIsDone, Saved, aboutToSave, seqOf, Busy
  <2> QED
    BY <2>1, <2>2, <2>3 DEF IInv
<1>2. CASE \E t \in Thread, r \in Request : pendSaveValidated(t, r)
  BY <1>2, PendInv
<1>3. CASE \E w \in Thread, l \in Ledger : runJob(w, l)
  BY <1>3, RunJobInv
<1>4. ASSUME NEW t \in Thread, Step(t)
      PROVE  IInv'
  BY <1>4, DoublePendInv, ShouldWorkInv, StartWorkInv, FailedSaveInv, SaveThrowsInv,
     DeleteLedgerInv, SaveTransactionsInv, AddLedgerInv, FinishWorkInv, MarkCompleteInv DEF Step
<1>5. CASE \E l \in Ledger : expireFlag(l)
  BY <1>5, ExpireInv
<1>6. CASE readRange
  BY <1>6, ReadRangeInv
<1> QED
  BY <1>1, <1>2, <1>3, <1>4, <1>5, <1>6 DEF Next

(***************************************************************************)
(* The inductive invariant of pendSaveValidated, saveValidatedLedger and   *)
(* PendingSaves holds in every reachable state.                            *)
(***************************************************************************)
THEOREM SaveInvariance == Spec => []IInv
<1>1. Init => IInv
  BY InitInv
<1>2. IInv /\ [Next]_vars => IInv'
  BY NextInv
<1> QED
  BY <1>1, <1>2, PTL DEF Spec

(***************************************************************************)
(* PendingSaves keeps the savers of a sequence apart: startWork never lets *)
(* a second thread into saveValidatedLedger's writes, whatever jobs, callers*)
(* and ledgers compete.                                                    *)
(***************************************************************************)
THEOREM OneSaverHolds == Spec => []OneSaver
<1>1. IInv => OneSaver
  <2> SUFFICES ASSUME IInv, NEW s \in Seqs
               PROVE  Cardinality({t \in Thread : Saves(t, s)})
                        = IF map_[s] = "working" /\ s \notin thrown THEN 1 ELSE 0
    BY DEF OneSaver, Saves
  <2>1. CASE map_[s] = "working" /\ s \notin thrown
    <3>1. PICK t \in Thread : Saves(t, s)
      BY <2>1 DEF IInv, SaverIsUnique
    <3>2. {u \in Thread : Saves(u, s)} = {t}
      BY <3>1 DEF IInv, SaverIsUnique
    <3> QED
      BY <2>1, <3>2, FS_Singleton
  <2>2. CASE ~(map_[s] = "working" /\ s \notin thrown)
    <3>1. {u \in Thread : Saves(u, s)} = {}
      BY <2>2 DEF IInv, SaverIsUnique
    <3> QED
      BY <2>2, <3>1, FS_EmptySet
  <2> QED
    BY <2>1, <2>2
<1> QED
  BY <1>1, SaveInvariance, PTL

(***************************************************************************)
(* Only what was handed to pendSaveValidated is worked on, queued and in   *)
(* the table, and a row stands at its ledger's sequence.                   *)
(***************************************************************************)
RowsAreHanded ==
  /\ \A t \in Thread : Busy(t) => thread[t].l \in handed
  /\ \A l \in Ledger : jobs[l] > 0 => l \in handed
  /\ \A s \in Seqs : table[s] # NoLedger => table[s] \in handed /\ LedgerSeq[table[s]] = s

LEMMA RowsKept ==
  ASSUME RowsAreHanded, handed \subseteq handed',
         \A u \in Thread : Busy(u)' => (Busy(u) /\ thread'[u].l = thread[u].l) \/ thread'[u].l \in handed',
         \A l \in Ledger : jobs'[l] > 0 => jobs[l] > 0 \/ l \in handed',
         \A s \in Seqs : table'[s] = table[s] \/ table'[s] = NoLedger
                           \/ (table'[s] \in handed' /\ LedgerSeq[table'[s]] = s)
  PROVE  RowsAreHanded'
  BY DEF RowsAreHanded

LEMMA RowsAreHandedKept ==
  ASSUME IInv, RowsAreHanded, [Next]_vars
  PROVE  RowsAreHanded'
<1>0. TypeOK /\ thread \in [Thread -> ThreadState] /\ ThreadsHaveLedgers
  BY DEF IInv, TypeOK, ThreadState, At
<1>1. CASE UNCHANGED vars \/ readRange \/ \E l \in Ledger : expireFlag(l)
  BY <1>1, RowsKept DEF vars, readRange, expireFlag, Busy
<1>2. ASSUME NEW t \in Thread, NEW r \in Request, pendSaveValidated(t, r)
      PROVE  RowsAreHanded'
  <2>1. /\ handed' = handed \cup {r.l} /\ UNCHANGED <<jobs, table>>
        /\ \A u \in Thread : thread'[u] = thread[u] \/ thread'[u].l = r.l
    BY <1>0, <1>2 DEF pendSaveValidated
  <2> QED
    BY <2>1, RowsKept DEF Busy
<1>3. ASSUME NEW w \in Thread, NEW l \in Ledger, runJob(w, l)
      PROVE  RowsAreHanded'
  <2>1. [Idle EXCEPT !.at = "start", !.l = l].l = l
    BY DEF Idle
  <2>2. /\ UNCHANGED <<handed, table>> /\ jobs[l] > 0 /\ l \in handed
        /\ \A u \in Thread : thread'[u] = thread[u] \/ thread'[u].l = l
    BY <1>0, <1>3, <2>1 DEF runJob, RowsAreHanded
  <2>3. \A m \in Ledger : jobs'[m] > 0 => jobs[m] > 0
    BY <1>0, <1>3 DEF runJob, TypeOK
  <2> QED
    BY <2>2, <2>3, RowsKept DEF Busy
<1>4. ASSUME NEW t \in Thread, Step(t)
      PROVE  RowsAreHanded'
  <2>0. /\ thread[t].at # "idle" /\ Busy(t) /\ thread[t].l \in Ledger /\ thread[t].l \in handed
        /\ handed' = handed /\ seqOf(t) \in Seqs
    BY <1>0, <1>4, SeqOfLedger
    DEF Step, doublePend, shouldWork, startWork, failedSave, saveThrows, deleteLedger,
        saveTransactions, addLedger, finishWork, markComplete, Busy, RowsAreHanded,
        ThreadsHaveLedgers, seqOf
  <2>1. \A l \in Ledger : jobs'[l] > 0 => jobs[l] > 0 \/ l \in handed'
    <3>1. CASE shouldWork(t)
      <4>1. \A l \in Ledger : l # thread[t].l => jobs'[l] = jobs[l]
        BY <1>0, <3>1 DEF shouldWork, TypeOK
      <4> QED
        BY <2>0, <4>1
    <3>2. CASE ~shouldWork(t)
      <4>1. jobs' = jobs
        BY <1>4, <3>2
        DEF Step, doublePend, startWork, failedSave, saveThrows, deleteLedger,
            saveTransactions, addLedger, finishWork, markComplete
      <4> QED
        BY <4>1
    <3> QED
      BY <3>1, <3>2
  <2>2. \A s \in Seqs : table'[s] = table[s] \/ table'[s] = NoLedger
                          \/ (table'[s] \in handed' /\ LedgerSeq[table'[s]] = s)
    <3>1. CASE addLedger(t)
      <4>1. table' = [table EXCEPT ![seqOf(t)] = thread[t].l] /\ table \in [Seqs -> Ledger \cup {NoLedger}]
        BY <1>0, <3>1 DEF addLedger, TypeOK
      <4> QED
        BY <2>0, <4>1 DEF seqOf
    <3>2. CASE deleteLedger(t)
      <4>1. table' = [table EXCEPT ![seqOf(t)] = NoLedger] /\ table \in [Seqs -> Ledger \cup {NoLedger}]
        BY <1>0, <3>2 DEF deleteLedger, TypeOK
      <4> QED
        BY <4>1
    <3>3. CASE ~addLedger(t) /\ ~deleteLedger(t)
      <4>1. table' = table
        BY <1>4, <3>3
        DEF Step, doublePend, shouldWork, startWork, failedSave, saveThrows,
            saveTransactions, finishWork, markComplete
      <4> QED
        BY <4>1
    <3> QED
      BY <3>1, <3>2, <3>3
  <2>3. \A u \in Thread : Busy(u)' => Busy(u) /\ thread'[u].l = thread[u].l
    <3>1. CASE thread' = Return(t)
      BY <2>0, <3>1, ReturnFacts DEF Busy
    <3>2. ASSUME NEW a \in At, a # "idle", thread' = [thread EXCEPT ![t].at = a]
          PROVE  \A u \in Thread : Busy(u)' => Busy(u) /\ thread'[u].l = thread[u].l
      BY <2>0, <3>2, GotoFacts
    <3>3. CASE thread' = [thread EXCEPT ![t] = Idle]
      BY <1>0, <3>3 DEF Idle, Busy
    <3>4. CASE finishWork(t)
      <4>1. PICK th : th = Return(t) /\ \A u \in Thread : th[u].at # "idle" => Busy(u) /\ th[u].l = thread[u].l
        BY <2>0, ReturnFacts
      <4>2. thread' = [u \in Thread |-> IF thread[u].at = "wait" THEN [thread[u] EXCEPT !.at = "should"]
                                        ELSE th[u]]
        BY <3>4, <4>1 DEF finishWork
      <4>3. \A u \in Thread : thread[u].at = "wait" => thread'[u].l = thread[u].l
        BY <1>0, <4>2 DEF ThreadState
      <4>4. \A u \in Thread : thread[u].at # "wait" => thread'[u] = th[u]
        BY <4>2
      <4> QED
        BY <4>1, <4>3, <4>4 DEF Busy
    <3>5. {"should", "wait", "start", "store", "txns", "insert", "finish"} \subseteq At
      BY DEF At, Working
    <3>6. CASE doublePend(t) \/ shouldWork(t) \/ startWork(t)
      BY <3>1, <3>2, <3>5, <3>6 DEF doublePend, shouldWork, startWork, Goto
    <3>7. CASE failedSave(t) \/ deleteLedger(t) \/ saveTransactions(t) \/ addLedger(t)
      BY <3>2, <3>5, <3>7 DEF failedSave, deleteLedger, saveTransactions, addLedger, Goto
    <3>8. CASE saveThrows(t) \/ markComplete(t)
      BY <3>3, <3>8 DEF saveThrows, markComplete
    <3> QED
      BY <1>4, <3>4, <3>6, <3>7, <3>8 DEF Step
  <2> QED
    BY <2>0, <2>1, <2>2, <2>3, RowsKept
<1> QED
  BY <1>1, <1>2, <1>3, <1>4 DEF Next

(***************************************************************************)
(* Every ledger handed to pendSaveValidated is in the table, on the way    *)
(* there, failed, or displaced by a fork that was handed over too, across  *)
(* SF_SAVED, PendingSaves, the jobs and an exception out of the save; and  *)
(* an entry that was dispatched has its worker.                            *)
(***************************************************************************)
THEOREM NoSaveLostHolds == Spec => []NoSaveLost
<1>1. Init => RowsAreHanded
  BY DEF Init, Idle, Busy, RowsAreHanded
<1>2. IInv /\ RowsAreHanded /\ [Next]_vars => RowsAreHanded'
  BY RowsAreHandedKept
<1>3. IInv /\ RowsAreHanded => NoSaveLost
  <2> SUFFICES ASSUME IInv, RowsAreHanded PROVE HandedIsSaved
    BY DEF NoSaveLost, IInv
  <2> SUFFICES ASSUME NEW l \in handed, NEW s, s = LedgerSeq[l]
               PROVE  \/ table[s] = l \/ map_[s] # "none" \/ aboutToSave(s) \/ s \in failed
                      \/ \E m \in handed \ {l} : LedgerSeq[m] = s /\ table[s] = m
    BY DEF HandedIsSaved
  <2>1. l \in Ledger /\ s \in Seqs /\ Saved(s)
    BY SeqOfLedger DEF IInv, TypeOK, NothingHidden
  <2>2. CASE table[s] # NoLedger
    BY <2>1, <2>2 DEF RowsAreHanded
  <2> QED
    BY <2>1, <2>2 DEF Saved
<1> QED
  BY <1>1, <1>2, <1>3, SaveInvariance, PTL DEF Spec

-----------------------------------------------------------------------------
(***************************************************************************)
(* getValidatedRange's arithmetic: the tips move inwards past the pending  *)
(* saves, and every pending save between them is cut off.                  *)
(***************************************************************************)
Bounds == [min : Int, max : Int]

LEMMA ShrinkTipsFacts ==
  ASSUME NEW P, P \subseteq Nat \ {0}, IsFiniteSet(P),
         NEW max \in Nat, NEW min \in 1 .. max
  PROVE  LET r == shrinkTips(min, max, P)
         IN  r \in Bounds /\ r.min >= min /\ r.max <= max
<1> DEFINE c == Cardinality(P)
           low == {n \in min .. max + 1 + c : n \notin P}
           high == {n \in 0 .. max : n \notin P}
<1>1. c \in Nat
  BY FS_CardinalityType
<1>2. low # {}
  <2> SUFFICES ASSUME min .. max + 1 + c \subseteq P PROVE FALSE
    OBVIOUS
  <2>1. Cardinality(min .. max + 1 + c) <= c
    BY FS_Subset
  <2>2. Cardinality(min .. max + 1 + c) = max + 1 + c - min + 1
    BY <1>1, FS_Interval
  <2> QED
    BY <1>1, <2>1, <2>2
<1>3. low \in SUBSET Nat /\ \A n \in low : n >= min
  BY <1>1
<1>4. high # {} /\ high \in SUBSET Nat /\ \A n \in high : n <= max
  <2>1. 0 \in high
    OBVIOUS
  <2> QED
    BY <2>1
<1>5. shrinkTips(min, max, P) = [min |-> Min(low), max |-> Max(high)]
  BY DEF shrinkTips
<1> HIDE DEF low, high, c
<1>6. PICK a \in low : a = Min(low)
  BY <1>2, <1>3, MinIsLeast
<1>7. PICK b \in high : b = Max(high)
  BY <1>4, MaxIsGreatest
<1>8. a \in Int /\ a >= min /\ b \in Int /\ b <= max
  BY <1>3, <1>4, <1>6, <1>7
<1> QED
  BY <1>5, <1>6, <1>7, <1>8 DEF Bounds

LEMMA ExcludeFacts ==
  ASSUME NEW r \in Bounds, NEW n \in Nat
  PROVE  LET e == exclude(r, n)
         IN  e \in Bounds /\ e.min >= r.min /\ e.max <= r.max /\ n \notin e.min .. e.max
<1>1. CASE n < r.min \/ n > r.max
  <2>1. exclude(r, n) = r
    BY <1>1 DEF exclude
  <2> QED
    BY <1>1, <2>1 DEF Bounds
<1>2. CASE ~(n < r.min \/ n > r.max) /\ n > (r.min + r.max) \div 2
  <2>1. exclude(r, n) = [r EXCEPT !.max = n - 1]
    BY <1>2 DEF exclude
  <2>2. r.max >= n
    BY <1>2 DEF Bounds
  <2> QED
    BY <2>1, <2>2 DEF Bounds
<1>3. CASE ~(n < r.min \/ n > r.max) /\ ~(n > (r.min + r.max) \div 2)
  <2>1. exclude(r, n) = [r EXCEPT !.min = n + 1]
    BY <1>3 DEF exclude
  <2>2. r.min <= n
    BY <1>3 DEF Bounds
  <2> QED
    BY <2>1, <2>2 DEF Bounds
<1> QED
  BY <1>1, <1>2, <1>3

LEMMA RangeHasNoPending ==
  ASSUME IInv, range.at = "read"
  PROVE  getValidatedRange \subseteq range.min .. range.max /\ getValidatedRange \cap pendingSaves = {}
<1> DEFINE base == shrinkTips(range.min, range.max, pendingSaves)
           body(f, n) == IF n = 0 THEN base
                         ELSE IF n \in pendingSaves THEN exclude(f[n - 1], n)
                         ELSE f[n - 1]
           without == CHOOSE f : f = [n \in 0 .. range.max |-> body(f, n)]
<1>1. range.min \in Nat /\ range.max \in Nat /\ range.min \in 1 .. range.max
  BY DEF IInv, TypeOK, NothingHidden
<1>2. pendingSaves \subseteq Nat \ {0} /\ IsFiniteSet(pendingSaves)
  BY SeqIsPositive DEF IInv, pendingSaves
<1>3. base \in Bounds /\ base.min >= range.min /\ base.max <= range.max
  BY <1>1, <1>2, ShrinkTipsFacts
<1>4. getValidatedRange = without[range.max].min .. without[range.max].max
  BY DEF getValidatedRange
<1> HIDE DEF base
<1>5. without = [n \in 0 .. range.max |-> body(without, n)]
  <2> DEFINE step == [q \in Nat \X Bounds |-> IF q[1] \in pendingSaves THEN exclude(q[2], q[1]) ELSE q[2]]
  <2>1. step \in [Nat \X Bounds -> Bounds]
    <3>1. \A q \in Nat \X Bounds : q[1] \in Nat /\ q[2] \in Bounds /\ exclude(q[2], q[1]) \in Bounds
      BY ExcludeFacts
    <3> QED
      BY <3>1
  <2>2. \A n \in Nat, r \in Bounds : step[<<n, r>>] = IF n \in pendingSaves THEN exclude(r, n) ELSE r
    OBVIOUS
  <2> HIDE DEF step
  <2>3. PICK f \in [0 .. range.max -> Bounds] :
          f[0] = base /\ \A n \in 1 .. range.max : f[n] = step[<<n, f[n - 1]>>]
    <3>1. HasRecursion(Bounds, base, step, range.max)
      BY <1>1, <1>3, <2>1, RecursionExists
    <3> QED
      BY <3>1 DEF HasRecursion
  <2>4. \A n \in 0 .. range.max : f[n] = body(f, n)
    <3> SUFFICES ASSUME NEW n \in 0 .. range.max, n # 0 PROVE f[n] = body(f, n)
      BY <1>1, <2>3
    <3>1. n - 1 \in 0 .. range.max /\ n \in Nat /\ n \in 1 .. range.max
      BY <1>1
    <3>2. f[n - 1] \in Bounds /\ f[n] = step[<<n, f[n - 1]>>]
      BY <2>3, <3>1
    <3>3. step[<<n, f[n - 1]>>] = IF n \in pendingSaves THEN exclude(f[n - 1], n) ELSE f[n - 1]
      BY <2>2, <3>1, <3>2
    <3> QED
      BY <3>2, <3>3
  <2>5. f = [n \in 0 .. range.max |-> body(f, n)]
    BY <2>4
  <2> QED
    BY <2>5
<1> HIDE DEF without
<1> DEFINE Good(n) == /\ without[n] \in Bounds
                      /\ without[n].min >= range.min /\ without[n].max <= range.max
                      /\ \A k \in without[n].min .. without[n].max : k <= n => k \notin pendingSaves
           Bad == {n \in 0 .. range.max : ~Good(n)}
<1>6. Bad = {}
  <2> SUFFICES ASSUME Bad # {} PROVE FALSE
    OBVIOUS
  <2>1. PICK n \in Bad : \A k \in Bad : n <= k
    <3>1. Bad \in SUBSET Nat
      BY <1>1
    <3> QED
      BY <3>1, LeastNatural
  <2>2. n # 0
    <3>1. without[0] = base
      BY <1>1, <1>5
    <3>2. \A k \in base.min .. base.max : k <= 0 => k \notin pendingSaves
      BY <1>1, <1>2, <1>3
    <3>3. Good(0)
      BY <1>3, <3>1, <3>2
    <3> QED
      BY <2>1, <3>3
  <2>3. n - 1 \in 0 .. range.max /\ n \in Nat /\ Good(n - 1)
    BY <1>1, <2>1, <2>2
  <2>4. CASE n \in pendingSaves
    <3>1. without[n] = exclude(without[n - 1], n)
      BY <1>5, <2>1, <2>2, <2>4
    <3>2. /\ without[n] \in Bounds /\ without[n].min >= without[n - 1].min
          /\ without[n].max <= without[n - 1].max /\ n \notin without[n].min .. without[n].max
      BY <2>3, <3>1, ExcludeFacts
    <3>3. Good(n)
      BY <1>1, <2>3, <3>2 DEF Bounds
    <3> QED
      BY <2>1, <3>3
  <2>5. CASE n \notin pendingSaves
    <3>1. without[n] = without[n - 1]
      BY <1>5, <2>1, <2>2, <2>5
    <3>2. Good(n)
      BY <1>1, <2>3, <2>5, <3>1 DEF Bounds
    <3> QED
      BY <2>1, <3>2
  <2> QED
    BY <2>4, <2>5
<1>7. Good(range.max)
  BY <1>1, <1>6
<1> QED
  BY <1>1, <1>4, <1>7 DEF Bounds

(***************************************************************************)
(* The range that getValidatedRange returns has its rows, whatever saves   *)
(* begin and end between its two reads, and every row has its ledger's     *)
(* transactions beside it.                                                 *)
(***************************************************************************)
THEOREM RangeIsReadableHolds == Spec => []RangeIsReadable
<1>1. IInv => RangeIsReadable
  <2> SUFFICES ASSUME IInv, range.at = "read", NEW s \in getValidatedRange \ failed
               PROVE  table[s] # NoLedger \/ aboutToSave(s)
    BY DEF RangeIsReadable, RangeIsSaved, IInv
  <2>1. s \in range.min .. range.max /\ s \notin pendingSaves
    BY RangeHasNoPending
  <2>2. s \in Seqs /\ Saved(s)
    BY <2>1 DEF IInv, NothingHidden
  <2> QED
    BY <2>1, <2>2 DEF Saved, pendingSaves
<1> QED
  BY <1>1, SaveInvariance, PTL
=============================================================================
