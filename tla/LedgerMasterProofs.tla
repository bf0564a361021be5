------------------------- MODULE LedgerMasterProofs -------------------------
(***************************************************************************)
(* Proofs about LedgerMaster, for every tree of ledgers, every set of      *)
(* validators, every quorum and every ledger table an earlier run may have *)
(* left: the validated stream implements LedgerChain, no wake-up of the    *)
(* advance thread is lost, and the complete sequences are the validated    *)
(* chain.  With a configured quorum of at least half of the validators,    *)
(* rounded down, no ledger with a majority is overlooked.                  *)
(***************************************************************************)
EXTENDS LedgerMaster, FiniteSetTheorems, TLAPS

\* A job under way is about a ledger.
JobsHaveLedgers ==
  /\ \A c \in Threads : call[c].at # "off" => call[c].l \in Ledger
  /\ build.at # "off" => build.l \in Ledger
  /\ fill.at # "off" => fill.l \in Ledger

(***************************************************************************)
(* The first ledger accepted is also published; the valid ledger is the    *)
(* highest accepted one and publication never runs ahead of it.            *)
(***************************************************************************)
StreamBegun ==
  /\ mPubLedger = NoLedger <=> mValidLedger = NoLedger
  /\ mValidLedger # NoLedger => mValidLedger \in accepted
  /\ \A l \in accepted : LedgerSeq[l] <= SeqOf(mValidLedger)
  /\ SeqOf(mPubLedger) <= SeqOf(mValidLedger)
  /\ adv.at # "off" => mValidLedger # NoLedger

\* Ledger l is in the chain of ledger v.
OnChain(l, v) == LedgerSeq[l] <= SeqOf(v) /\ hashOfSeq(v, LedgerSeq[l]) = l

\* The published ledger is an accepted one or an ancestor of one.
PublishedIsAccepted == mPubLedger # NoLedger => \E l \in accepted : OnChain(mPubLedger, l)

\* The ledgers of todo follow the published one in the chain of l.
Follows(todo, l) ==
  /\ LedgerSeq[l] >= SeqOf(mPubLedger) + Len(todo)
  /\ \A i \in 1 .. Len(todo) : todo[i] = hashOfSeq(l, SeqOf(mPubLedger) + i)

(***************************************************************************)
(* What the advance thread is about to do while m_mutex is released: look  *)
(* for ledgers up to an accepted one, publish ledgers that follow the      *)
(* published one in the chain of an accepted ledger (or, after a gap, the  *)
(* published one itself), or fetch a ledger older than the published one.  *)
(***************************************************************************)
PlanIsSound ==
  /\ adv.at = "find" =>
       /\ Len(adv.todo) = 1 /\ adv.todo[1] \in accepted
       /\ LedgerSeq[adv.todo[1]] > SeqOf(mPubLedger)
  /\ adv.at \in {"full", "setpub"} =>
       /\ Len(adv.todo) > 0
       /\ adv.todo = <<mPubLedger>> \/ \E l \in accepted : Follows(adv.todo, l)
  /\ adv.at = "history" => adv.missing \in 1 .. SeqOf(mPubLedger)

(***************************************************************************)
(* An advance that has nothing to do either sees the work that came in     *)
(* meanwhile (mAdvanceWork), or the next ledger to publish is on its way.  *)
(***************************************************************************)
NextOnItsWay ==
  /\ SeqOf(mValidLedger) > SeqOf(mPubLedger)
  /\ hashOfSeq(mValidLedger, SeqOf(mPubLedger) + 1) \in wanted \cup dispatched \cup failed

WakeIsSeen ==
  /\ adv.at = "find" /\ ~mAdvanceWork => adv.todo[1] = mValidLedger
  /\ adv.at = "end" /\ ~mAdvanceWork /\ adv.missing = 0 => NextOnItsWay

\* A row of the ledger table is a ledger of that sequence.
RowsFit == \A s \in Seqs : index[s] # NoLedger => LedgerSeq[index[s]] = s

(***************************************************************************)
(* While no fork was accepted, the ledger fetched last for history and the *)
(* one of the tryFill job are in the validated chain, and the rows that    *)
(* the job has read and will compare are still those of the table.         *)
(***************************************************************************)
HistoryIsOnChain ==
  OneChain =>
    /\ mHistLedger # NoLedger => OnChain(mHistLedger, mValidLedger)
    /\ fill.at # "off" => /\ OnChain(fill.l, mValidLedger)
                          /\ index[LedgerSeq[fill.l]] = fill.l
    /\ fill.at = "read" => \A t \in 1 .. LedgerSeq[fill.l] :
         hashOfSeq(fill.l, t) \in fill.rows => index[t] = hashOfSeq(fill.l, t)

IInv ==
  /\ TypeOK /\ JobsHaveLedgers /\ StreamBegun /\ PublishedIsAccepted /\ PlanIsSound
  /\ WakeIsSeen /\ NoLostAdvance
  /\ RowsFit /\ HistoryIsOnChain /\ CompleteIsChain

-----------------------------------------------------------------------------
(***************************************************************************)
(* Sets of naturals have a least element, bounded ones a greatest.         *)
(***************************************************************************)
LEMMA LeastNatural ==
  ASSUME NEW T \in SUBSET Nat, T # {}
  PROVE  \E x \in T : \A y \in T : x <= y
<1>1. PICK x \in T : \A y \in T : ~(<<y, x>> \in OpToRel(<, Nat))
  BY WFMin, NatLessThanWellFounded
<1>2. \A y \in T : <<y, x>> \in OpToRel(<, Nat) <=> y < x
  BY DEF OpToRel
<1>3. \A y \in T : ~(y < x)
  BY <1>1, <1>2, Zenon
<1> QED
  BY <1>3

LEMMA LedgerFacts ==
  /\ NoLedger \notin Ledger
  /\ \A l \in Ledger : /\ LedgerSeq[l] \in Nat /\ LedgerSeq[l] >= 1 /\ LedgerSeq[l] \in Seqs
                       /\ SeqOf(l) = LedgerSeq[l]
  /\ SeqOf(NoLedger) = 0
  /\ \A s \in Seqs : s \in Nat /\ s >= 1
  BY LedgerAssumption DEF Seqs, SeqOf, Chain!SeqOf

(***************************************************************************)
(* The chain of a ledger, by the recursion that defines hashOfSeq: each    *)
(* entry is the parent of the one before, and has the next lower sequence. *)
(***************************************************************************)
IsChainOf(l, f) ==
  /\ f \in [0 .. LedgerSeq[l] -> Ledger \cup {NoLedger}]
  /\ f[0] = l
  /\ \A n \in 1 .. LedgerSeq[l] : f[n] = Parent[f[n - 1]]
  /\ \A n \in 0 .. LedgerSeq[l] - 1 : f[n] \in Ledger /\ LedgerSeq[f[n]] = LedgerSeq[l] - n

LEMMA ChainExists ==
  ASSUME NEW l \in Ledger
  PROVE  \E f : IsChainOf(l, f)
<1> DEFINE Bad == {k \in Nat : \E m \in Ledger : LedgerSeq[m] = k /\ ~\E f : IsChainOf(m, f)}
<1>1. Bad = {}
  <2> SUFFICES ASSUME Bad # {} PROVE FALSE
    OBVIOUS
  <2>1. PICK k \in Bad : \A j \in Bad : k <= j
    BY LeastNatural
  <2>2. PICK m \in Ledger : LedgerSeq[m] = k /\ ~\E f : IsChainOf(m, f)
    BY <2>1
  <2>k. k \in Nat
    OBVIOUS
  <2> HIDE DEF Bad
  <2>3. CASE Parent[m] = NoLedger
    <3> DEFINE f == [n \in 0 .. 1 |-> IF n = 0 THEN m ELSE NoLedger]
    <3>1. k = 1
      BY <2>2, <2>3, LedgerAssumption
    <3>2. IsChainOf(m, f)
      BY <2>2, <2>3, <3>1, LedgerFacts DEF IsChainOf
    <3> QED
      BY <2>2, <3>2
  <2>4. CASE Parent[m] # NoLedger
    <3>1. Parent[m] \in Ledger /\ k = LedgerSeq[Parent[m]] + 1
      BY <2>2, <2>4, LedgerAssumption
    <3> DEFINE p == Parent[m]
    <3>2. LedgerSeq[p] = k - 1 /\ k - 1 \in Nat
      BY <2>k, <3>1, LedgerFacts
    <3>3. LedgerSeq[p] \notin Bad
      <4>1. k - 1 \notin Bad
        BY <2>1, <2>k, <3>2
      <4> QED
        BY <3>2, <4>1
    <3>4. PICK g : IsChainOf(p, g)
      BY <3>1, <3>2, <3>3 DEF Bad
    <3> HIDE DEF p
    <3> DEFINE f == [n \in 0 .. k |-> IF n = 0 THEN m ELSE g[n - 1]]
    <3>5. /\ g \in [0 .. k - 1 -> Ledger \cup {NoLedger}] /\ g[0] = p
          /\ \A n \in 1 .. k - 1 : g[n] = Parent[g[n - 1]]
          /\ \A n \in 0 .. k - 2 : g[n] \in Ledger /\ LedgerSeq[g[n]] = k - 1 - n
      BY <2>k, <3>2, <3>4 DEF IsChainOf
    <3>6. f \in [0 .. k -> Ledger \cup {NoLedger}] /\ f[0] = m
      BY <2>k, <3>2, <3>5
    <3>7. ASSUME NEW n \in 1 .. k
          PROVE  f[n] = Parent[f[n - 1]]
      <4>1. CASE n = 1
        BY <2>k, <3>2, <3>5, <4>1 DEF p
      <4>2. CASE n # 1
        <5>1. n - 1 \in 1 .. k - 1 /\ f[n] = g[n - 1] /\ f[n - 1] = g[n - 1 - 1]
          BY <2>k, <3>2, <4>2
        <5> QED
          BY <3>5, <5>1
      <4> QED
        BY <4>1, <4>2
    <3>8. ASSUME NEW n \in 0 .. k - 1
          PROVE  f[n] \in Ledger /\ LedgerSeq[f[n]] = k - n
      <4>1. CASE n = 0
        BY <2>k, <2>2, <3>2, <4>1
      <4>2. CASE n # 0
        <5>1. n - 1 \in 0 .. k - 2 /\ f[n] = g[n - 1] /\ k - 1 - (n - 1) = k - n
          BY <2>k, <3>2, <4>2
        <5> QED
          BY <3>5, <5>1
      <4> QED
        BY <4>1, <4>2
    <3>9. IsChainOf(m, f)
      BY <2>2, <3>6, <3>7, <3>8 DEF IsChainOf
    <3> QED
      BY <2>2, <3>9
  <2> QED
    BY <2>3, <2>4
<1> QED
  BY <1>1, LedgerFacts

LEMMA HashIsChain ==
  ASSUME NEW l \in Ledger
  PROVE  \E f : IsChainOf(l, f) /\ \A s \in Nat : hashOfSeq(l, s) = f[LedgerSeq[l] - s]
<1> DEFINE up == CHOOSE g : g = [n \in 0 .. LedgerSeq[l] |-> IF n = 0 THEN l ELSE Parent[g[n - 1]]]
<1>1. \A s \in Nat : hashOfSeq(l, s) = up[LedgerSeq[l] - s]
  BY DEF hashOfSeq, Chain!HashOfSeq
<1>2. PICK f : IsChainOf(l, f)
  BY ChainExists
<1>3. f = [n \in 0 .. LedgerSeq[l] |-> IF n = 0 THEN l ELSE Parent[f[n - 1]]]
  BY <1>2, LedgerFacts DEF IsChainOf
<1>4. up = [n \in 0 .. LedgerSeq[l] |-> IF n = 0 THEN l ELSE Parent[up[n - 1]]]
  BY <1>3
<1> HIDE DEF up
<1>5. up = f
  <2> DEFINE Bad == {n \in 0 .. LedgerSeq[l] : up[n] # f[n]}
  <2>1. Bad = {}
    <3> SUFFICES ASSUME Bad # {} PROVE FALSE
      OBVIOUS
    <3>0. Bad \in SUBSET Nat
      BY LedgerFacts
    <3>1. PICK n \in Bad : \A j \in Bad : n <= j
      BY <3>0, LeastNatural
    <3>2. n # 0
      BY <1>3, <1>4, LedgerFacts
    <3>3. n - 1 \in 0 .. LedgerSeq[l] /\ n - 1 \notin Bad
      BY <3>1, <3>2, LedgerFacts
    <3>4. up[n - 1] = f[n - 1] /\ n \in 0 .. LedgerSeq[l]
      BY <3>1, <3>3
    <3>5. up[n] = Parent[up[n - 1]]
      BY <1>4, <3>2, <3>4
    <3>6. f[n] = Parent[f[n - 1]]
      BY <1>3, <3>2, <3>4
    <3> QED
      BY <3>1, <3>4, <3>5, <3>6
  <2> QED
    BY <1>3, <1>4, <2>1
<1> QED
  BY <1>1, <1>2, <1>5

(***************************************************************************)
(* What hashOfSeq returns: a ledger of the sequence asked for, the ledger  *)
(* itself at its own sequence, and the same along the chain.               *)
(***************************************************************************)
LEMMA HashOfSeqFits ==
  ASSUME NEW l \in Ledger, NEW s \in 1 .. LedgerSeq[l]
  PROVE  hashOfSeq(l, s) \in Ledger /\ LedgerSeq[hashOfSeq(l, s)] = s
<1>1. PICK f : IsChainOf(l, f) /\ \A t \in Nat : hashOfSeq(l, t) = f[LedgerSeq[l] - t]
  BY HashIsChain
<1>2. LedgerSeq[l] - s \in 0 .. LedgerSeq[l] - 1 /\ s \in Nat
  BY LedgerFacts
<1>3. hashOfSeq(l, s) = f[LedgerSeq[l] - s]
  BY <1>1, <1>2
<1> QED
  BY <1>1, <1>2, <1>3, LedgerFacts DEF IsChainOf

LEMMA HashOfSeqTop ==
  ASSUME NEW l \in Ledger
  PROVE  hashOfSeq(l, LedgerSeq[l]) = l
  BY HashIsChain, LedgerFacts DEF IsChainOf

LEMMA HashOfSeqBelow ==
  ASSUME NEW l \in Ledger, NEW s \in Nat, s >= 1, s < LedgerSeq[l]
  PROVE  hashOfSeq(l, s) = Parent[hashOfSeq(l, s + 1)]
<1>1. PICK f : IsChainOf(l, f) /\ \A t \in Nat : hashOfSeq(l, t) = f[LedgerSeq[l] - t]
  BY HashIsChain
<1>2. LedgerSeq[l] - s \in 1 .. LedgerSeq[l] /\ LedgerSeq[l] - s - 1 = LedgerSeq[l] - (s + 1)
  BY LedgerFacts
<1> QED
  BY <1>1, <1>2 DEF IsChainOf

LEMMA HashOfSeqSame ==
  ASSUME NEW l \in Ledger, NEW t \in 1 .. LedgerSeq[l], NEW s \in 1 .. t
  PROVE  hashOfSeq(hashOfSeq(l, t), s) = hashOfSeq(l, s)
<1> DEFINE Bad == {d \in Nat : d <= t - 1 /\ hashOfSeq(hashOfSeq(l, t), t - d) # hashOfSeq(l, t - d)}
<1>0. hashOfSeq(l, t) \in Ledger /\ LedgerSeq[hashOfSeq(l, t)] = t
  BY HashOfSeqFits
<1>1. Bad = {}
  <2> SUFFICES ASSUME Bad # {} PROVE FALSE
    OBVIOUS
  <2>1. PICK d \in Bad : \A e \in Bad : d <= e
    BY LeastNatural
  <2>2. d # 0
    <3>1. hashOfSeq(hashOfSeq(l, t), t) = hashOfSeq(l, t) /\ t - 0 = t
      BY <1>0, HashOfSeqTop
    <3> QED
      BY <3>1
  <2>3. d - 1 \in Nat /\ d - 1 \notin Bad
    BY <2>1, <2>2
  <2>4. PICK u \in Nat : u = t - d /\ u >= 1 /\ u < t
    BY <2>1, <2>2
  <2>5. t - (d - 1) = u + 1
    BY <2>4
  <2>6. hashOfSeq(hashOfSeq(l, t), u + 1) = hashOfSeq(l, u + 1)
    BY <2>1, <2>3, <2>5
  <2>7. u < LedgerSeq[l]
    BY <2>4, LedgerFacts
  <2>8. hashOfSeq(l, u) = Parent[hashOfSeq(l, u + 1)]
    BY <2>4, <2>7, HashOfSeqBelow
  <2>9. hashOfSeq(hashOfSeq(l, t), u) = Parent[hashOfSeq(hashOfSeq(l, t), u + 1)]
    BY <1>0, <2>4, HashOfSeqBelow
  <2> QED
    BY <2>1, <2>4, <2>6, <2>8, <2>9
<1>2. t - s \in Nat /\ t - s <= t - 1 /\ t - (t - s) = s
  BY LedgerFacts
<1> QED
  BY <1>1, <1>2

-----------------------------------------------------------------------------
\* What is asked for is on its way, or failed and still in the list.
LEMMA AcquireEffects ==
  ASSUME NEW S, acquire(S)
  PROVE  /\ wanted \subseteq wanted' /\ failed' \subseteq failed
         /\ wanted' \subseteq wanted \cup S
         /\ failed \cup S \subseteq wanted' \cup failed'
<1>1. PICK again \in SUBSET (S \cap failed) : /\ wanted' = wanted \cup (S \ failed) \cup again
                                            /\ failed' = failed \ again
  BY DEF acquire
<1> QED
  BY <1>1

(***************************************************************************)
(* Four kinds of step: those that leave the stream alone, those that may   *)
(* accept a ledger, and the steps of the advance thread and of tryFill.    *)
(***************************************************************************)
AsideStep ==
  /\ UNCHANGED <<mValidLedger, accepted, mPubLedger, dbVars, histVars, advVars>>
  /\ wanted \cup dispatched \cup failed \subseteq wanted' \cup dispatched' \cup failed'

AcceptStep(l) ==
  /\ setValidLedger(l)
  /\ \/ tryAdvance(IF Accepts(l) THEN l ELSE mValidLedger)
     \/ ~Accepts(l) /\ UNCHANGED <<mAdvanceWork, adv, dispatched>>
  /\ UNCHANGED <<mCompleteLedgers, mHistLedger, fill, wanted, failed>>

LEMMA CheckAcceptKind ==
  ASSUME NEW l, checkAccept(l), UNCHANGED <<mCompleteLedgers, acqVars, histVars>>
  PROVE  AcceptStep(l)
  BY DEF checkAccept, AcceptStep, acqVars, histVars, advVars

LEMMA StepKinds ==
  ASSUME IInv, Next
  PROVE  AsideStep \/ (\E l \in Ledger : AcceptStep(l)) \/ Advance \/ Fill
<1>0. JobsHaveLedgers /\ TypeOK
  BY DEF IInv
<1>1. ASSUME NEW v \in Validator, NEW l \in Validated[v], addValidation(v, l)
      PROVE  AsideStep
  BY <1>1 DEF addValidation, AsideStep, dbVars, acqVars, histVars, advVars
<1>2. ASSUME NEW c \in Threads, Calls(c)
      PROVE  AsideStep \/ \E l \in Ledger : AcceptStep(l)
  <2>1. CASE CountValidations(c)
    BY <2>1 DEF CountValidations, AsideStep, dbVars, acqVars, histVars, advVars
  <2>2. CASE FindValidated(c)
    <3>1. wanted \cup dispatched \cup failed \subseteq wanted' \cup dispatched' \cup failed'
      BY <2>2, AcquireEffects DEF FindValidated
    <3> QED
      BY <2>2, <3>1 DEF FindValidated, AsideStep, dbVars, histVars, advVars
  <2>3. CASE AcceptValidated(c)
    <3>1. call[c].l \in Ledger
      BY <1>0, <2>3 DEF AcceptValidated, JobsHaveLedgers
    <3>2. AcceptStep(call[c].l)
      BY <2>3, CheckAcceptKind DEF AcceptValidated
    <3> QED
      BY <3>1, <3>2
  <2> QED
    BY <1>2, <2>1, <2>2, <2>3 DEF Calls
<1>3. ASSUME NEW l \in Built, setBuildingLedger(l)
      PROVE  AsideStep
  BY <1>3 DEF setBuildingLedger, AsideStep, dbVars, acqVars, histVars, advVars
<1>4. ASSUME NEW l \in Ledger, acquired(l) \/ logFailure(l)
      PROVE  AsideStep
  BY <1>4 DEF acquired, logFailure, AsideStep, dbVars, histVars, advVars
<1>5. ASSUME NEW l \in Ledger, LADispatch(l)
      PROVE  AcceptStep(l)
  BY <1>5 DEF LADispatch, AcceptStep, histVars
<1>6. ASSUME Consensus
      PROVE  AsideStep \/ \E l \in Ledger : AcceptStep(l)
  <2>1. CASE storeLedger
    BY <2>1 DEF storeLedger, AsideStep, dbVars, histVars, advVars
  <2>2. CASE consensusBuilt
    BY <2>2 DEF consensusBuilt, AsideStep, dbVars, acqVars, histVars, advVars
  <2>3. CASE checkBuilt
    <3>1. build.l \in Ledger
      BY <1>0, <2>3 DEF checkBuilt, JobsHaveLedgers
    <3>2. AcceptStep(build.l)
      BY <2>3, CheckAcceptKind DEF checkBuilt
    <3> QED
      BY <3>1, <3>2
  <2>4. CASE scanValidations
    BY <2>4 DEF scanValidations, AsideStep, dbVars, acqVars, histVars, advVars
  <2>5. CASE switchLCL
    <3>1. build.l \in Ledger
      BY <1>0, <2>5 DEF switchLCL, JobsHaveLedgers
    <3>2. AcceptStep(build.l)
      BY <2>5, CheckAcceptKind DEF switchLCL
    <3> QED
      BY <3>1, <3>2
  <2> QED
    BY <1>6, <2>1, <2>2, <2>3, <2>4, <2>5 DEF Consensus
<1> QED
  BY <1>1, <1>2, <1>3, <1>4, <1>5, <1>6 DEF Next

-----------------------------------------------------------------------------
(***************************************************************************)
(* Types, and that jobs have ledgers.                                      *)
(***************************************************************************)
LEMMA MaxOfTwo ==
  ASSUME NEW a \in Nat, NEW b \in Nat
  PROVE  Max({a, b}) \in Nat /\ Max({a, b}) >= a /\ Max({a, b}) >= b
<1>1. \E x \in {a, b} : \A y \in {a, b} : x >= y
  OBVIOUS
<1> QED
  BY <1>1 DEF Max

LEMMA CountIsNatural ==
  ASSUME TypeOK, NEW l \in Ledger
  PROVE  TrustedValidationCount(l) \in Nat
<1>1. vals[l] \subseteq Validator
  BY DEF TypeOK
<1> QED
  BY <1>1, ParameterAssumption, FS_Subset, FS_CardinalityType DEF TrustedValidationCount

\* The part of TypeOK that the stream, the table and the advance thread do not touch.
PeerTypes ==
  /\ vals \in [Ledger -> SUBSET Validator]
  /\ current \in [Validator -> Ledger \cup {NoLedger}]
  /\ mClosedLedger \in Ledger
  /\ mMinValidations \in Nat /\ mBuildingLedgerSeq \in Nat
  /\ held \subseteq Ledger
  /\ call \in [Threads -> Job] /\ build \in BuildJob
  /\ \A c \in Threads : call[c].at # "off" => call[c].l \in Ledger
  /\ build.at # "off" => build.l \in Ledger

StreamTypes ==
  /\ {mValidLedger, mPubLedger, mHistLedger} \subseteq Ledger \cup {NoLedger}
  /\ accepted \subseteq Ledger
  /\ mCompleteLedgers \subseteq Seqs /\ index \in [Seqs -> Ledger \cup {NoLedger}]
  /\ fill \in FillJob /\ mAdvanceWork \in BOOLEAN /\ adv \in AdvanceThread
  /\ fill.at # "off" => fill.l \in Ledger

AcquireTypes == wanted \subseteq Ledger /\ dispatched \subseteq Ledger /\ failed \subseteq Ledger

LEMMA TypesSplit ==
  TypeOK /\ JobsHaveLedgers <=> PeerTypes /\ StreamTypes /\ AcquireTypes
  BY DEF TypeOK, JobsHaveLedgers, PeerTypes, StreamTypes, AcquireTypes

LEMMA TypesSplitNext ==
  TypeOK' /\ JobsHaveLedgers' <=> PeerTypes' /\ StreamTypes' /\ AcquireTypes'
  BY DEF TypeOK, JobsHaveLedgers, PeerTypes, StreamTypes, AcquireTypes

LEMMA PeerTypesKept ==
  ASSUME IInv, [Next]_vars
  PROVE  PeerTypes'
<1>0. TypeOK /\ PeerTypes /\ AcquireTypes
  BY TypesSplit DEF IInv
<1> USE DEF PeerTypes, Job, BuildJob
<1>1. ASSUME NEW v \in Validator, NEW l \in Validated[v], addValidation(v, l)
      PROVE  PeerTypes'
  <2>1. l \in Ledger /\ v \in Threads
    BY ParameterAssumption DEF Threads
  <2>2. /\ vals' = [vals EXCEPT ![l] = @ \cup {v}]
        /\ \/ /\ current' = [current EXCEPT ![v] = l]
              /\ call' = [call EXCEPT ![v] = [at |-> "count", l |-> l]]
           \/ UNCHANGED <<current, call>>
        /\ (build' = [build EXCEPT !.at = "built"] /\ build.at = "validate") \/ build' = build
        /\ UNCHANGED <<mClosedLedger, mMinValidations, mBuildingLedgerSeq, held>>
    BY <1>1 DEF addValidation, acqVars
  <2>3. vals' \in [Ledger -> SUBSET Validator] /\ current' \in [Validator -> Ledger \cup {NoLedger}]
    BY <1>0, <2>1, <2>2
  <2>4. call' \in [Threads -> Job] /\ \A c \in Threads : call'[c].at # "off" => call'[c].l \in Ledger
    <3>1. CASE call' = [call EXCEPT ![v] = [at |-> "count", l |-> l]]
      BY <1>0, <2>1, <3>1
    <3> QED
      BY <1>0, <2>2, <3>1
  <2>5. build' \in BuildJob /\ (build'.at # "off" => build'.l \in Ledger)
    BY <1>0, <2>2
  <2> QED
    BY <1>0, <2>2, <2>3, <2>4, <2>5
<1>2. ASSUME NEW c \in Threads, Calls(c)
      PROVE  PeerTypes'
  <2>0. NoJob \in Job /\ NoJob.at = "off"
    BY DEF NoJob
  <2>1. CASE CountValidations(c)
    <3>1. call[c].l \in Ledger
      BY <1>0, <2>1 DEF CountValidations
    <3>2. TrustedValidationCount(call[c].l) \in Nat
      BY <1>0, <3>1, CountIsNatural
    <3>3. mMinValidations' \in Nat
      <4> DEFINE n == TrustedValidationCount(call[c].l)
      <4>1. mMinValidations' \in {mMinValidations, Max({mMinValidations, n \div 2 + 1})}
        BY <2>1 DEF CountValidations
      <4> HIDE DEF n
      <4>2. n \div 2 + 1 \in Nat
        BY <3>2 DEF n
      <4> QED
        BY <1>0, <4>1, <4>2, MaxOfTwo
    <3>4. call' = [call EXCEPT ![c] = NoJob] \/ call' = [call EXCEPT ![c].at = "test"]
      BY <2>1 DEF CountValidations
    <3>5. call' \in [Threads -> Job] /\ \A d \in Threads : call'[d].at # "off" => call'[d].l \in Ledger
      <4>1. CASE call' = [call EXCEPT ![c] = NoJob]
        BY <1>0, <2>0, <4>1
      <4>2. CASE call' = [call EXCEPT ![c].at = "test"]
        BY <1>0, <3>1, <4>2
      <4> QED
        BY <3>4, <4>1, <4>2
    <3> QED
      BY <1>0, <2>1, <3>3, <3>5 DEF CountValidations, valVars, acqVars
  <2>2. CASE FindValidated(c)
    <3>1. call[c].l \in Ledger
      BY <1>0, <2>2 DEF FindValidated
    <3>4. call' = [call EXCEPT ![c] = NoJob] \/ call' = [call EXCEPT ![c].at = "accept"]
      BY <2>2 DEF FindValidated
    <3>5. call' \in [Threads -> Job] /\ \A d \in Threads : call'[d].at # "off" => call'[d].l \in Ledger
      <4>1. CASE call' = [call EXCEPT ![c] = NoJob]
        BY <1>0, <2>0, <4>1
      <4>2. CASE call' = [call EXCEPT ![c].at = "accept"]
        BY <1>0, <3>1, <4>2
      <4> QED
        BY <3>4, <4>1, <4>2
    <3> QED
      BY <1>0, <2>2, <3>5 DEF FindValidated, valVars
  <2>3. CASE AcceptValidated(c)
    <3>5. call' \in [Threads -> Job] /\ \A d \in Threads : call'[d].at # "off" => call'[d].l \in Ledger
      BY <1>0, <2>0, <2>3 DEF AcceptValidated
    <3> QED
      BY <1>0, <2>3, <3>5 DEF AcceptValidated, valVars, acqVars
  <2> QED
    BY <1>2, <2>1, <2>2, <2>3 DEF Calls
<1>3. ASSUME NEW l \in Built, setBuildingLedger(l)
      PROVE  PeerTypes'
  BY <1>0, <1>3, ParameterAssumption, LedgerFacts DEF setBuildingLedger, valVars, acqVars
<1>4. ASSUME NEW l \in Ledger, acquired(l) \/ logFailure(l)
      PROVE  PeerTypes'
  BY <1>0, <1>4 DEF acquired, logFailure, valVars
<1>5. ASSUME NEW l \in Ledger, LADispatch(l)
      PROVE  PeerTypes'
  BY <1>0, <1>5 DEF LADispatch, valVars
<1>6. ASSUME Consensus
      PROVE  PeerTypes'
  <2>1. CASE storeLedger
    BY <1>0, <2>1 DEF storeLedger, valVars
  <2>2. CASE consensusBuilt
    BY <1>0, <2>2 DEF consensusBuilt, valVars, acqVars
  <2>3. CASE checkBuilt
    BY <1>0, <2>3 DEF checkBuilt, valVars, acqVars
  <2>4. CASE scanValidations
    <3>1. build' = [build EXCEPT !.at = "switch"] /\ build.at = "scan"
      BY <2>4 DEF scanValidations
    <3>2. call' = call \/ \E l \in Ledger : call' = [call EXCEPT ![Builder] = [at |-> "count", l |-> l]]
      BY <2>4 DEF scanValidations, candidates
    <3>3. call' \in [Threads -> Job] /\ \A d \in Threads : call'[d].at # "off" => call'[d].l \in Ledger
      BY <1>0, <3>2 DEF Threads
    <3> QED
      BY <1>0, <2>4, <3>1, <3>3 DEF scanValidations, valVars, acqVars
  <2>5. CASE switchLCL
    BY <1>0, <2>5 DEF switchLCL, valVars, acqVars, NoJob
  <2> QED
    BY <1>6, <2>1, <2>2, <2>3, <2>4, <2>5 DEF Consensus
<1>7. ASSUME Advance
      PROVE  PeerTypes'
  BY <1>0, <1>7 DEF Advance, doAdvanceHead, findNewLedgersToPublish, publishFull, setPubLedger,
                    fetchHistory, doAdvanceEnd, valVars, acqVars
<1>8. ASSUME Fill
      PROVE  PeerTypes'
  BY <1>0, <1>8 DEF Fill, fillRead, fillEnd, valVars, acqVars
<1>9. CASE UNCHANGED vars
  BY <1>0, <1>9 DEF vars, valVars, acqVars
<1> QED
  BY <1>1, <1>2, <1>3, <1>4, <1>5, <1>6, <1>7, <1>8, <1>9 DEF Next

-----------------------------------------------------------------------------
\* Everything else that a step keeps.
StreamInv ==
  /\ StreamTypes /\ StreamBegun /\ PublishedIsAccepted /\ PlanIsSound
  /\ WakeIsSeen /\ NoLostAdvance
  /\ RowsFit /\ HistoryIsOnChain /\ CompleteIsChain

LEMMA IInvSplit == IInv <=> PeerTypes /\ AcquireTypes /\ StreamInv
  BY TypesSplit DEF IInv, StreamInv

LEMMA IInvSplitNext == IInv' <=> PeerTypes' /\ AcquireTypes' /\ StreamInv'
  BY TypesSplitNext DEF IInv, StreamInv

LEMMA AsideKeeps ==
  ASSUME StreamInv, AsideStep
  PROVE  StreamInv'
  BY DEF StreamInv, AsideStep, dbVars, histVars, advVars, StreamTypes, StreamBegun,
         PublishedIsAccepted, PlanIsSound,
         Follows, WakeIsSeen, NextOnItsWay, NoLostAdvance, RowsFit, HistoryIsOnChain, OnChain,
         OneChain, CompleteIsChain

(***************************************************************************)
(* What a step that may accept ledger l does to the stream.                *)
(***************************************************************************)
LEMMA AcceptEffects ==
  ASSUME StreamTypes, NEW l \in Ledger, AcceptStep(l)
  PROVE  /\ \/ /\ mValidLedger' = l /\ accepted' = accepted \cup {l}
               /\ LedgerSeq[l] > SeqOf(mValidLedger)
               /\ mPubLedger = NoLedger =>
                    mPubLedger' = l /\ index' = [index EXCEPT ![LedgerSeq[l]] = l]
               /\ mPubLedger # NoLedger => UNCHANGED <<mPubLedger, index>>
               /\ mAdvanceWork' = TRUE /\ adv'.at # "off"
            \/ /\ UNCHANGED <<mValidLedger, accepted, mPubLedger, index>>
               /\ mAdvanceWork' = TRUE \/ UNCHANGED <<mAdvanceWork, dispatched, adv>>
         /\ adv' \in AdvanceThread
         /\ \/ adv' = adv
            \/ adv'.at = "head" /\ mValidLedger' # NoLedger
         /\ adv'.at = "off" => mValidLedger' = NoLedger \/ UNCHANGED dispatched
         /\ UNCHANGED <<mCompleteLedgers, mHistLedger, fill, wanted, failed>>
<1>1. CASE Accepts(l)
  <2>1. tryAdvance(l)
    BY <1>1 DEF AcceptStep
  <2>2. mAdvanceWork' = TRUE /\ adv' = IF adv.at = "off" THEN [adv EXCEPT !.at = "head"] ELSE adv
    BY <2>1, LedgerFacts DEF tryAdvance
  <2>3. adv' \in AdvanceThread /\ adv'.at # "off" /\ (adv' = adv \/ adv'.at = "head")
    BY <2>2 DEF StreamTypes, AdvanceThread
  <2> QED
    BY <1>1, <2>2, <2>3, LedgerFacts DEF AcceptStep, setValidLedger, Accepts
<1>2. CASE ~Accepts(l)
  <2>1. UNCHANGED <<mValidLedger, accepted, mPubLedger, index>>
    BY <1>2 DEF AcceptStep, setValidLedger
  <2>2. tryAdvance(mValidLedger) \/ UNCHANGED <<mAdvanceWork, adv, dispatched>>
    BY <1>2 DEF AcceptStep
  <2>3. CASE tryAdvance(mValidLedger)
    <3>1. /\ mAdvanceWork' = TRUE
          /\ adv' = IF adv.at = "off" /\ mValidLedger # NoLedger THEN [adv EXCEPT !.at = "head"] ELSE adv
      BY <2>3 DEF tryAdvance
    <3>2. adv' \in AdvanceThread /\ (adv' = adv \/ (adv'.at = "head" /\ mValidLedger # NoLedger))
      BY <3>1 DEF StreamTypes, AdvanceThread
    <3>3. adv'.at = "off" => mValidLedger = NoLedger
      BY <3>1 DEF StreamTypes, AdvanceThread
    <3> QED
      BY <2>1, <3>1, <3>2, <3>3 DEF AcceptStep
  <2> QED
    BY <2>1, <2>2, <2>3 DEF AcceptStep, StreamTypes
<1> QED
  BY <1>1, <1>2

LEMMA OnChainTransitive ==
  ASSUME NEW k \in Ledger, NEW v \in Ledger, NEW l \in Ledger, OnChain(k, v), OnChain(v, l)
  PROVE  OnChain(k, l)
<1>1. LedgerSeq[k] \in 1 .. LedgerSeq[v] /\ LedgerSeq[v] \in 1 .. LedgerSeq[l]
  BY LedgerFacts DEF OnChain
<1>2. hashOfSeq(hashOfSeq(l, LedgerSeq[v]), LedgerSeq[k]) = hashOfSeq(l, LedgerSeq[k])
  BY <1>1, HashOfSeqSame
<1> QED
  BY <1>1, <1>2, LedgerFacts DEF OnChain

LEMMA AcceptKeeps ==
  ASSUME StreamInv, NEW l \in Ledger, AcceptStep(l)
  PROVE  StreamInv'
<1>0. StreamTypes /\ StreamBegun /\ PlanIsSound /\ WakeIsSeen /\ NoLostAdvance
  BY DEF StreamInv
<1>1. CASE UNCHANGED <<mValidLedger, accepted, mPubLedger, index>>
  <2>1. /\ mAdvanceWork' = TRUE \/ UNCHANGED <<mAdvanceWork, dispatched, adv>>
        /\ adv' \in AdvanceThread
        /\ adv' = adv \/ (adv'.at = "head" /\ mValidLedger # NoLedger)
        /\ adv'.at = "off" => mValidLedger = NoLedger \/ UNCHANGED dispatched
        /\ UNCHANGED <<mCompleteLedgers, mHistLedger, fill, wanted, failed>>
    BY <1>0, <1>1, AcceptEffects, LedgerFacts
  <2>2. StreamTypes'
    BY <1>0, <1>1, <2>1 DEF StreamTypes
  <2>3. StreamBegun' /\ PublishedIsAccepted'
    BY <1>0, <1>1, <2>1 DEF StreamInv, StreamBegun, PublishedIsAccepted, OnChain
  <2>4. PlanIsSound'
    BY <1>0, <1>1, <2>1 DEF PlanIsSound, Follows
  <2>5. WakeIsSeen'
    BY <1>0, <1>1, <2>1 DEF WakeIsSeen, NextOnItsWay
  <2>6. NoLostAdvance'
    <3> SUFFICES ASSUME adv'.at = "off", SeqOf(mValidLedger) > SeqOf(mPubLedger)
                 PROVE  hashOfSeq(mValidLedger, SeqOf(mPubLedger) + 1) \in wanted' \cup dispatched' \cup failed'
      BY <1>1 DEF NoLostAdvance
    <3>1. adv = adv' /\ mValidLedger # NoLedger
      BY <1>0, <2>1, LedgerFacts DEF StreamTypes
    <3> QED
      BY <1>0, <2>1, <3>1 DEF NoLostAdvance
  <2>7. RowsFit' /\ HistoryIsOnChain' /\ CompleteIsChain'
    BY <1>1, <2>1 DEF StreamInv, RowsFit, HistoryIsOnChain, OnChain, OneChain, CompleteIsChain
  <2> QED
    BY <2>2, <2>3, <2>4, <2>5, <2>6, <2>7 DEF StreamInv
<1>2. CASE /\ mValidLedger' = l /\ accepted' = accepted \cup {l}
           /\ LedgerSeq[l] > SeqOf(mValidLedger)
           /\ mPubLedger = NoLedger =>
                mPubLedger' = l /\ index' = [index EXCEPT ![LedgerSeq[l]] = l]
           /\ mPubLedger # NoLedger => UNCHANGED <<mPubLedger, index>>
           /\ mAdvanceWork' = TRUE /\ adv'.at # "off"
  <2>1. /\ adv' \in AdvanceThread
        /\ adv' = adv \/ adv'.at = "head"
        /\ UNCHANGED <<mCompleteLedgers, mHistLedger, fill, wanted, failed>>
    BY <1>0, AcceptEffects
  <2>2. StreamTypes'
    BY <1>0, <1>2, <2>1, LedgerFacts DEF StreamTypes
  <2>3. StreamBegun'
    BY <1>0, <1>2, <2>1, LedgerFacts DEF StreamBegun, StreamTypes
  <2>p. PublishedIsAccepted'
    <3>1. OnChain(l, l)
      BY HashOfSeqTop, LedgerFacts DEF OnChain
    <3> QED
      BY <1>2, <3>1, LedgerFacts DEF StreamInv, PublishedIsAccepted, OnChain
  <2>4. PlanIsSound'
    <3>1. CASE adv'.at = "head"
      BY <3>1 DEF PlanIsSound
    <3>2. CASE adv' = adv
      <4>1. mPubLedger' = mPubLedger
        BY <1>0, <1>2, <3>2 DEF StreamBegun
      <4> QED
        BY <1>0, <1>2, <3>2, <4>1 DEF PlanIsSound, Follows
    <3> QED
      BY <2>1, <3>1, <3>2
  <2>5. WakeIsSeen' /\ NoLostAdvance'
    BY <1>2 DEF WakeIsSeen, NoLostAdvance
  <2>6. RowsFit'
    BY <1>0, <1>2, LedgerFacts DEF StreamInv, RowsFit, StreamTypes
  <2>7. ASSUME OneChain'
        PROVE  /\ OneChain
               /\ mValidLedger # NoLedger => OnChain(mValidLedger, l)
    <3>1. OneChain
      BY <1>2, <2>7 DEF OneChain
    <3>2. ASSUME mValidLedger # NoLedger
          PROVE  OnChain(mValidLedger, l)
      <4>1. mValidLedger \in accepted' /\ l \in accepted' /\ LedgerSeq[mValidLedger] <= LedgerSeq[l]
        BY <1>0, <1>2, <3>2, LedgerFacts DEF StreamBegun, StreamTypes
      <4> QED
        BY <2>7, <4>1, LedgerFacts DEF OneChain, OnChain
    <3> QED
      BY <3>1, <3>2
  <2>8. HistoryIsOnChain'
    <3> SUFFICES ASSUME OneChain'
                 PROVE  /\ mHistLedger # NoLedger => OnChain(mHistLedger, l)
                        /\ fill.at # "off" => /\ OnChain(fill.l, l)
                                              /\ index'[LedgerSeq[fill.l]] = fill.l
                        /\ fill.at = "read" => \A t \in 1 .. LedgerSeq[fill.l] :
                             hashOfSeq(fill.l, t) \in fill.rows => index'[t] = hashOfSeq(fill.l, t)
      BY <1>2, <2>1 DEF HistoryIsOnChain, OnChain
    <3>1. CASE mValidLedger = NoLedger
      <4>1. mHistLedger = NoLedger /\ fill.at = "off"
        BY <1>0, <2>7, <3>1, LedgerFacts DEF StreamInv, HistoryIsOnChain, OnChain, StreamTypes
      <4> QED
        BY <4>1
    <3>2. CASE mValidLedger # NoLedger
      <4>1. mValidLedger \in Ledger /\ index' = index
        BY <1>0, <1>2, <3>2 DEF StreamTypes, StreamBegun
      <4>2. mHistLedger # NoLedger => mHistLedger \in Ledger /\ OnChain(mHistLedger, mValidLedger)
        BY <1>0, <2>7 DEF StreamInv, HistoryIsOnChain, StreamTypes
      <4>3. fill.at # "off" => fill.l \in Ledger /\ OnChain(fill.l, mValidLedger)
        BY <1>0, <2>7 DEF StreamInv, HistoryIsOnChain, StreamTypes
      <4> QED
        BY <2>7, <3>2, <4>1, <4>2, <4>3, OnChainTransitive DEF StreamInv, HistoryIsOnChain
    <3> QED
      BY <3>1, <3>2
  <2>9. CompleteIsChain'
    <3> SUFFICES ASSUME OneChain', NEW s \in mCompleteLedgers
                 PROVE  s <= SeqOf(l) /\ index'[s] = hashOfSeq(l, s)
      BY <1>2, <2>1 DEF CompleteIsChain
    <3>1. s <= SeqOf(mValidLedger) /\ index[s] = hashOfSeq(mValidLedger, s) /\ s \in Nat /\ s >= 1
      BY <1>0, <2>7, LedgerFacts DEF StreamInv, CompleteIsChain, StreamTypes
    <3>2. mValidLedger \in Ledger /\ mValidLedger # NoLedger
      BY <1>0, <3>1, LedgerFacts DEF StreamTypes
    <3>3. OnChain(mValidLedger, l) /\ index' = index
      BY <1>0, <1>2, <2>7, <3>2 DEF StreamBegun
    <3>4. LedgerSeq[mValidLedger] \in 1 .. LedgerSeq[l] /\ s \in 1 .. LedgerSeq[mValidLedger]
      BY <3>1, <3>2, <3>3, LedgerFacts DEF OnChain
    <3>5. hashOfSeq(hashOfSeq(l, LedgerSeq[mValidLedger]), s) = hashOfSeq(l, s)
      BY <3>4, HashOfSeqSame
    <3> QED
      BY <3>1, <3>3, <3>4, <3>5, LedgerFacts DEF OnChain
  <2> QED
    BY <2>2, <2>3, <2>p, <2>4, <2>5, <2>6, <2>8, <2>9 DEF StreamInv
<1> QED
  BY <1>0, <1>1, <1>2, AcceptEffects

-----------------------------------------------------------------------------
(***************************************************************************)
(* A ledger of the validated chain joins the table and the complete        *)
(* sequences.                                                              *)
(***************************************************************************)
LEMMA FullEffects ==
  ASSUME StreamTypes, NEW l \in Ledger, setFullLedger(l)
  PROVE  /\ index' = [index EXCEPT ![LedgerSeq[l]] = l]
         /\ index' \in [Seqs -> Ledger \cup {NoLedger}]
         /\ mCompleteLedgers' \subseteq mCompleteLedgers \cup {LedgerSeq[l]}
         /\ mCompleteLedgers' \subseteq Seqs
<1>1. index' = [index EXCEPT ![LedgerSeq[l]] = l]
  BY DEF setFullLedger
<1>2. mCompleteLedgers' \subseteq mCompleteLedgers \cup {LedgerSeq[l]}
  BY DEF setFullLedger, fixMismatch
<1> QED
  BY <1>1, <1>2, LedgerFacts DEF StreamTypes

LEMMA FullKeeps ==
  ASSUME StreamInv, NEW l \in Ledger, setFullLedger(l),
         OneChain => OnChain(l, mValidLedger),
         UNCHANGED <<mValidLedger, accepted>>,
         mHistLedger' = mHistLedger \/ mHistLedger' = l,
         fill' = fill \/ fill' = [at |-> "queued", l |-> l, rows |-> {}]
  PROVE  RowsFit' /\ HistoryIsOnChain' /\ CompleteIsChain'
<1>0. StreamTypes
  BY DEF StreamInv
<1>1. /\ index' = [index EXCEPT ![LedgerSeq[l]] = l]
      /\ mCompleteLedgers' \subseteq mCompleteLedgers \cup {LedgerSeq[l]}
  BY <1>0, FullEffects
<1>2. RowsFit'
  BY <1>0, <1>1, LedgerFacts DEF StreamInv, RowsFit, StreamTypes
<1>3. CASE OneChain
  <2>1. OnChain(l, mValidLedger) /\ LedgerSeq[l] \in Seqs
    BY <1>3, LedgerFacts
  <2>0. mValidLedger \in Ledger
    BY <1>0, <2>1, LedgerFacts DEF OnChain, StreamTypes
  <2>2. \A s \in Seqs : index'[s] = IF s = LedgerSeq[l] THEN l ELSE index[s]
    BY <1>0, <1>1 DEF StreamTypes
  <2>3. CompleteIsChain'
    <3> SUFFICES ASSUME NEW s \in mCompleteLedgers'
                 PROVE  s <= SeqOf(mValidLedger) /\ index'[s] = hashOfSeq(mValidLedger, s)
      BY DEF CompleteIsChain
    <3>1. CASE s = LedgerSeq[l]
      BY <2>1, <2>2, <3>1 DEF OnChain
    <3>2. CASE s # LedgerSeq[l]
      <4>1. s \in mCompleteLedgers /\ s \in Seqs
        BY <1>0, <1>1, <3>2 DEF StreamTypes
      <4> QED
        BY <1>3, <2>2, <3>2, <4>1 DEF StreamInv, CompleteIsChain
    <3> QED
      BY <3>1, <3>2
  <2>4. mHistLedger' # NoLedger => OnChain(mHistLedger', mValidLedger)
    BY <1>3, <2>1 DEF StreamInv, HistoryIsOnChain
  <2>5. CASE fill' = [at |-> "queued", l |-> l, rows |-> {}]
    BY <1>2, <2>1, <2>2, <2>3, <2>4, <2>5 DEF HistoryIsOnChain, OnChain
  <2>6. CASE fill' = fill
    <3>1. ASSUME fill.at # "off"
          PROVE  /\ OnChain(fill.l, mValidLedger)
                 /\ index'[LedgerSeq[fill.l]] = fill.l
      <4>1. fill.l \in Ledger /\ OnChain(fill.l, mValidLedger) /\ index[LedgerSeq[fill.l]] = fill.l
        BY <1>0, <1>3, <3>1 DEF StreamInv, HistoryIsOnChain, StreamTypes
      <4>2. LedgerSeq[fill.l] = LedgerSeq[l] => fill.l = l
        BY <2>1, <4>1 DEF OnChain
      <4> QED
        BY <2>2, <4>1, <4>2, LedgerFacts
    <3>2. ASSUME fill.at = "read", NEW t \in 1 .. LedgerSeq[fill.l],
                 hashOfSeq(fill.l, t) \in fill.rows
          PROVE  index'[t] = hashOfSeq(fill.l, t)
      <4>1. fill.l \in Ledger /\ OnChain(fill.l, mValidLedger) /\ index[t] = hashOfSeq(fill.l, t)
        BY <1>0, <1>3, <3>2 DEF StreamInv, HistoryIsOnChain, StreamTypes
      <4>2. hashOfSeq(fill.l, t) \in Ledger /\ LedgerSeq[hashOfSeq(fill.l, t)] = t
        BY <4>1, HashOfSeqFits
      <4>3. t \in Seqs
        BY <4>2, LedgerFacts
      <4>4. LedgerSeq[fill.l] \in 1 .. LedgerSeq[mValidLedger]
        BY <2>0, <4>1, LedgerFacts DEF OnChain
      <4>5. hashOfSeq(hashOfSeq(mValidLedger, LedgerSeq[fill.l]), t) = hashOfSeq(mValidLedger, t)
        BY <2>0, <4>4, HashOfSeqSame
      <4>6. t = LedgerSeq[l] => hashOfSeq(fill.l, t) = l
        BY <2>1, <4>1, <4>5 DEF OnChain
      <4> QED
        BY <2>2, <4>1, <4>3, <4>6
    <3> QED
      BY <1>2, <2>3, <2>4, <2>6, <3>1, <3>2 DEF HistoryIsOnChain, OnChain
  <2> QED
    BY <1>2, <2>3, <2>5, <2>6
<1>4. CASE ~OneChain
  BY <1>2, <1>4 DEF OneChain, HistoryIsOnChain, CompleteIsChain
<1> QED
  BY <1>3, <1>4

\* An ancestor of an accepted ledger is in the validated chain.
LEMMA AcceptedOnChain ==
  ASSUME StreamTypes, StreamBegun, OneChain, NEW l \in accepted, NEW s \in 1 .. LedgerSeq[l]
  PROVE  /\ OnChain(hashOfSeq(l, s), mValidLedger)
         /\ hashOfSeq(l, s) \in Ledger /\ LedgerSeq[hashOfSeq(l, s)] = s
<1>1. l \in Ledger /\ mValidLedger \in Ledger /\ mValidLedger \in accepted
  BY LedgerFacts DEF StreamTypes, StreamBegun
<1>2. LedgerSeq[l] <= LedgerSeq[mValidLedger]
  BY <1>1, LedgerFacts DEF StreamBegun
<1>3. OnChain(l, mValidLedger)
  BY <1>1, <1>2, LedgerFacts DEF OneChain, OnChain
<1>4. hashOfSeq(l, s) \in Ledger /\ LedgerSeq[hashOfSeq(l, s)] = s
  BY <1>1, HashOfSeqFits
<1>5. OnChain(hashOfSeq(l, s), l)
  BY <1>1, <1>4, LedgerFacts DEF OnChain
<1> QED
  BY <1>1, <1>3, <1>4, <1>5, OnChainTransitive

-----------------------------------------------------------------------------
(***************************************************************************)
(* The head of the advance loop.                                           *)
(***************************************************************************)
LEMMA GreatestNatural ==
  ASSUME NEW T \in SUBSET Nat, T # {}, NEW k \in Nat, \A y \in T : y <= k
  PROVE  \E x \in T : \A y \in T : x >= y
<1> DEFINE D == {d \in Nat : k - d \in T}
<1>1. D # {}
  <2>1. PICK y \in T : TRUE
    OBVIOUS
  <2>2. k - y \in Nat /\ k - (k - y) = y
    OBVIOUS
  <2> QED
    BY <2>1, <2>2
<1>2. PICK d \in D : \A e \in D : d <= e
  BY <1>1, LeastNatural
<1>3. ASSUME NEW y \in T PROVE y <= k - d
  <2>1. k - y \in Nat /\ k - (k - y) = y
    OBVIOUS
  <2>2. d <= k - y
    BY <1>2, <2>1
  <2> QED
    BY <2>2
<1> QED
  BY <1>3

LEMMA PrevMissingIsBelow ==
  ASSUME StreamTypes, NEW s \in Nat, s >= 1
  PROVE  prevMissing(s) \in 0 .. s - 1
<1> DEFINE T == {n \in 0 .. s - 1 : n \notin mCompleteLedgers}
<1>1. 0 \in T
  BY LedgerFacts DEF StreamTypes
<1>2. \E x \in T : \A y \in T : x >= y
  <2>1. T \in SUBSET Nat /\ \A y \in T : y <= s
    OBVIOUS
  <2> QED
    BY <1>1, <2>1, GreatestNatural
<1>3. Max(T) \in T
  BY <1>2 DEF Max
<1> QED
  BY <1>3 DEF prevMissing

LEMMA HeadKeeps ==
  ASSUME StreamInv, doAdvanceHead
  PROVE  StreamInv'
<1>0. /\ StreamTypes /\ StreamBegun /\ mValidLedger \in Ledger /\ mPubLedger \in Ledger
      /\ UNCHANGED <<mValidLedger, accepted, dbVars, fill>> /\ mAdvanceWork' = FALSE
  BY DEF StreamInv, doAdvanceHead, StreamTypes, StreamBegun
<1>1. /\ mPubLedger' \in Ledger /\ SeqOf(mPubLedger') <= SeqOf(mValidLedger)
      /\ mPubLedger' = mPubLedger \/ mPubLedger' = mValidLedger
      /\ mHistLedger' = mHistLedger \/ mHistLedger' = NoLedger
      /\ adv' \in AdvanceThread
      /\ \/ adv'.at = "full" /\ adv'.todo = <<mPubLedger'>>
         \/ /\ adv'.at = "find" /\ adv'.todo = <<mValidLedger>> /\ mPubLedger' = mPubLedger
            /\ SeqOf(mValidLedger) > SeqOf(mPubLedger)
         \/ adv'.at = "history" /\ adv'.missing \in 1 .. SeqOf(mPubLedger) /\ mPubLedger' = mPubLedger
         \/ adv'.at = "off" /\ SeqOf(mValidLedger) = SeqOf(mPubLedger) /\ mPubLedger' = mPubLedger
  <2>0. adv \in AdvanceThread /\ <<mValidLedger>> \in Seq(Ledger)
        /\ SeqOf(mPubLedger) \in Nat /\ SeqOf(mValidLedger) \in Nat
        /\ SeqOf(mPubLedger) <= SeqOf(mValidLedger)
    BY <1>0, LedgerFacts DEF StreamTypes, StreamBegun
  <2>1. CASE headGap
    <3>1. /\ mPubLedger' = mValidLedger /\ mHistLedger' = mHistLedger
          /\ adv' = [adv EXCEPT !.at = "full", !.todo = <<mValidLedger>>]
      BY <2>1 DEF headGap
    <3>2. adv' \in AdvanceThread /\ adv'.at = "full" /\ adv'.todo = <<mValidLedger>>
      BY <2>0, <3>1 DEF AdvanceThread
    <3> QED
      BY <1>0, <2>0, <3>1, <3>2
  <2>2. CASE headFind
    <3>1. /\ mPubLedger' = mPubLedger /\ mHistLedger' = mHistLedger
          /\ adv' = [adv EXCEPT !.at = "find", !.todo = <<mValidLedger>>]
      BY <2>2 DEF headFind
    <3>2. adv' \in AdvanceThread /\ adv'.at = "find" /\ adv'.todo = <<mValidLedger>>
      BY <2>0, <3>1 DEF AdvanceThread
    <3>3. SeqOf(mValidLedger) > SeqOf(mPubLedger)
      BY <2>0, <2>2, ParameterAssumption DEF headFind
    <3> QED
      BY <1>0, <2>0, <3>1, <3>2, <3>3
  <2>3. CASE headHistory
    <3>1. PICK missing \in 0 .. SeqOf(mPubLedger) - 1 : missing = prevMissing(SeqOf(mPubLedger))
      BY <1>0, LedgerFacts, PrevMissingIsBelow
    <3>2. /\ mPubLedger' = mPubLedger /\ mHistLedger' = mHistLedger
          /\ SeqOf(mValidLedger) = SeqOf(mPubLedger)
          /\ \/ missing > 0 /\ adv' = [adv EXCEPT !.at = "history", !.missing = missing]
             \/ adv' = [adv EXCEPT !.at = "off"]
      BY <2>3, <3>1 DEF headHistory, wantsHistory
    <3>3. CASE missing > 0 /\ adv' = [adv EXCEPT !.at = "history", !.missing = missing]
      <4>1. missing \in Nat /\ missing \in 1 .. SeqOf(mPubLedger)
        BY <2>0, <3>3
      <4>2. adv' \in AdvanceThread /\ adv'.at = "history" /\ adv'.missing = missing
        BY <2>0, <3>3, <4>1 DEF AdvanceThread
      <4> QED
        BY <1>0, <2>0, <3>2, <4>1, <4>2
    <3>4. CASE adv' = [adv EXCEPT !.at = "off"]
      <4>1. adv' \in AdvanceThread /\ adv'.at = "off"
        BY <2>0, <3>4 DEF AdvanceThread
      <4> QED
        BY <1>0, <2>0, <3>2, <4>1
    <3> QED
      BY <3>2, <3>3, <3>4
  <2>4. CASE headBusy
    BY <1>0, <2>4, LedgerFacts DEF headBusy, AdvanceThread, StreamTypes
  <2> QED
    BY <2>1, <2>2, <2>3, <2>4 DEF doAdvanceHead
<1>2. StreamTypes'
  BY <1>0, <1>1 DEF StreamTypes, dbVars
<1>3. StreamBegun'
  BY <1>0, <1>1, LedgerFacts DEF StreamBegun
<1>p. PublishedIsAccepted'
  <2>1. OnChain(mValidLedger, mValidLedger) /\ mValidLedger \in accepted
    BY <1>0, HashOfSeqTop, LedgerFacts DEF OnChain, StreamBegun
  <2> QED
    BY <1>0, <1>1, <2>1, LedgerFacts DEF StreamInv, PublishedIsAccepted, OnChain
<1>4. PlanIsSound'
  <2>1. CASE adv'.at = "full" /\ adv'.todo = <<mPubLedger'>>
    BY <2>1 DEF PlanIsSound
  <2>2. CASE /\ adv'.at = "find" /\ adv'.todo = <<mValidLedger>> /\ mPubLedger' = mPubLedger
             /\ SeqOf(mValidLedger) > SeqOf(mPubLedger)
    <3>1. adv'.todo[1] = mValidLedger /\ Len(adv'.todo) = 1 /\ mValidLedger \in accepted'
      BY <1>0, <2>2, LedgerFacts DEF StreamBegun
    <3>2. LedgerSeq[mValidLedger] > SeqOf(mPubLedger')
      BY <1>0, <2>2, LedgerFacts
    <3> QED
      BY <2>2, <3>1, <3>2 DEF PlanIsSound
  <2>3. CASE adv'.at \in {"history", "off"}
    BY <1>1, <2>3 DEF PlanIsSound
  <2> QED
    BY <1>1, <2>1, <2>2, <2>3
<1>5. WakeIsSeen' /\ NoLostAdvance'
  <2>1. adv'.at # "end" /\ (adv'.at = "find" => adv'.todo[1] = mValidLedger')
    BY <1>0, <1>1
  <2>2. adv'.at = "off" => ~(SeqOf(mValidLedger)' > SeqOf(mPubLedger)')
    BY <1>0, <1>1, LedgerFacts
  <2> QED
    BY <2>1, <2>2 DEF WakeIsSeen, NoLostAdvance
<1>6. RowsFit' /\ HistoryIsOnChain' /\ CompleteIsChain'
  BY <1>0, <1>1 DEF StreamInv, RowsFit, HistoryIsOnChain, OnChain, OneChain, CompleteIsChain, dbVars
<1> QED
  BY <1>2, <1>3, <1>p, <1>4, <1>5, <1>6 DEF StreamInv

-----------------------------------------------------------------------------
(***************************************************************************)
(* The steps of the advance thread with m_mutex released, and its end.     *)
(***************************************************************************)
LEMMA FindKeeps ==
  ASSUME StreamInv, findNewLedgersToPublish
  PROVE  StreamInv' /\ (AcquireTypes => AcquireTypes')
<1> DEFINE valid == Head(adv.todo)
           first == SeqOf(mPubLedger) + 1
           has == {s \in first .. LedgerSeq[valid] :
                     s = LedgerSeq[valid] \/ hashOfSeq(valid, s) \in held}
           run == {s \in has : first .. s \subseteq has}
           count == Cardinality(run)
           lacks == first .. LedgerSeq[valid] \ has
           asked == {s \in lacks : Cardinality({t \in lacks : t <= s}) <= MaxAcquire}
<1>0. StreamTypes /\ StreamBegun /\ PlanIsSound /\ WakeIsSeen /\ adv.at = "find"
  BY DEF StreamInv, findNewLedgersToPublish
<1>1. /\ adv' = [at |-> IF count = 0 THEN "end" ELSE "full", missing |-> 0,
                 todo |-> [i \in 1 .. count |-> hashOfSeq(valid, first + i - 1)]]
      /\ acquire({hashOfSeq(valid, s) : s \in asked})
      /\ mHistLedger' = IF count = 0 THEN NoLedger ELSE mHistLedger
      /\ UNCHANGED <<mValidLedger, accepted, mPubLedger, dbVars, dispatched, fill, mAdvanceWork>>
  BY DEF findNewLedgersToPublish
<1>2. /\ valid = adv.todo[1] /\ valid \in accepted /\ valid \in Ledger
      /\ LedgerSeq[valid] > SeqOf(mPubLedger)
  BY <1>0 DEF PlanIsSound, StreamTypes, AdvanceThread
<1>3. LedgerSeq[valid] \in Nat /\ SeqOf(mPubLedger) \in Nat /\ first \in Nat /\ first >= 1
  BY <1>0, <1>2, LedgerFacts DEF StreamTypes
<1>4. PICK top \in Nat : top = LedgerSeq[valid]
  BY <1>3
<1>5. PICK pub \in Nat : pub = SeqOf(mPubLedger)
  BY <1>3
<1>6. pub < top /\ first = pub + 1
  BY <1>2, <1>4, <1>5
<1>7. \A s \in first .. top : hashOfSeq(valid, s) \in Ledger
  BY <1>2, <1>3, <1>4, HashOfSeqFits
<1>8. IsFiniteSet(first .. top) /\ Cardinality(first .. top) = top - pub
  <2>0. first \in Int /\ top \in Int
    BY <1>3
  <2> HIDE DEF first
  <2>1. IsFiniteSet(first .. top)
    BY <2>0, FS_Interval
  <2>2. Cardinality(first .. top) = IF first > top THEN 0 ELSE top - first + 1
    BY <2>0, FS_Interval, Zenon
  <2> QED
    BY <1>6, <2>1, <2>2
<1>9. run \subseteq first .. top /\ lacks \subseteq first .. top
  BY <1>4
<1>10. IsFiniteSet(run) /\ count \in Nat /\ count <= top - pub
  <2>1. IsFiniteSet(run) /\ Cardinality(run) <= Cardinality(first .. top)
    BY <1>8, <1>9, FS_Subset
  <2>2. Cardinality(run) \in Nat
    BY <2>1, FS_CardinalityType
  <2> QED
    BY <1>8, <2>1, <2>2
<1>11. count = 0 => first \notin has
  <2>1. ASSUME first \in has PROVE first \in run
    BY <1>3, <2>1
  <2>2. count = 0 => run = {}
    BY <1>10, FS_EmptySet
  <2> QED
    BY <2>1, <2>2
<1>12. count = 0 => first \in asked
  <2> SUFFICES ASSUME count = 0 PROVE first \in asked
    OBVIOUS
  <2>1. first \in lacks
    BY <1>3, <1>4, <1>5, <1>6, <1>11
  <2>2. {t \in lacks : t <= first} = {first}
    BY <1>3, <1>9, <2>1
  <2>3. Cardinality({first}) = 1
    BY FS_Singleton
  <2>4. 1 <= MaxAcquire
    BY ParameterAssumption
  <2> QED
    BY <2>1, <2>2, <2>3, <2>4
<1>13. asked \subseteq first .. top
  BY <1>9
<1> HIDE DEF count, asked, run, has, lacks
<1>14. \A i \in 1 .. count : first + i - 1 \in first .. top /\ first + i - 1 = pub + i
  BY <1>3, <1>6, <1>10
<1>15. /\ adv'.todo = [i \in 1 .. count |-> hashOfSeq(valid, first + i - 1)]
       /\ adv'.at = (IF count = 0 THEN "end" ELSE "full") /\ adv'.missing = 0
  BY <1>1
<1>16. adv'.todo \in Seq(Ledger) /\ Len(adv'.todo) = count
  <2>1. [i \in 1 .. count |-> hashOfSeq(valid, first + i - 1)] \in [1 .. count -> Ledger]
    BY <1>7, <1>14
  <2> QED
    BY <1>10, <1>15, <2>1
<1>17. adv' \in AdvanceThread
  BY <1>1, <1>15, <1>16 DEF AdvanceThread
<1>18. AcquireTypes => AcquireTypes'
  <2> DEFINE S == {hashOfSeq(valid, s) : s \in asked}
  <2>1. S \subseteq Ledger
    BY <1>7, <1>13
  <2>2. wanted' \subseteq wanted \cup S /\ failed' \subseteq failed
    BY <1>1, AcquireEffects
  <2> QED
    BY <1>1, <2>1, <2>2 DEF AcquireTypes
<1>19. StreamTypes'
  BY <1>0, <1>1, <1>17 DEF StreamTypes, dbVars
<1>20. StreamBegun' /\ PublishedIsAccepted'
  <2>1. mValidLedger # NoLedger
    BY <1>0 DEF StreamBegun
  <2> QED
    BY <1>0, <1>1, <2>1 DEF StreamInv, StreamBegun, PublishedIsAccepted, OnChain
<1>21. PlanIsSound'
  <2>1. CASE count = 0
    BY <1>15, <2>1 DEF PlanIsSound
  <2>2. CASE count # 0
    <3>1. \A i \in 1 .. count : adv'.todo[i] = hashOfSeq(valid, pub + i)
      BY <1>14, <1>15
    <3>2. top >= pub + count /\ SeqOf(mPubLedger') = pub
      BY <1>1, <1>5, <1>6, <1>10
    <3>3. PICK v \in accepted' : v = valid
      BY <1>1, <1>2
    <3>4. Follows(adv.todo, v)'
      BY <1>4, <1>5, <1>16, <3>1, <3>2, <3>3 DEF Follows
    <3>5. Len(adv'.todo) > 0 /\ adv'.at = "full"
      BY <1>10, <1>15, <1>16, <2>2
    <3> QED
      BY <3>4, <3>5 DEF PlanIsSound
  <2> QED
    BY <2>1, <2>2
<1>22. WakeIsSeen'
  <2> SUFFICES ASSUME adv'.at = "end", ~mAdvanceWork
               PROVE  NextOnItsWay'
    BY <1>1, <1>15 DEF WakeIsSeen
  <2>1. count = 0 /\ valid = mValidLedger
    BY <1>0, <1>2, <1>15 DEF WakeIsSeen
  <2>2. hashOfSeq(valid, first) \in wanted' \cup failed'
    <3>1. hashOfSeq(valid, first) \in {hashOfSeq(valid, s) : s \in asked}
      BY <1>12, <2>1
    <3> QED
      BY <1>1, <3>1, AcquireEffects
  <2>3. LedgerSeq[valid] = SeqOf(mValidLedger)
    BY <1>2, <2>1, LedgerFacts
  <2> QED
    BY <1>1, <1>2, <2>1, <2>2, <2>3 DEF NextOnItsWay
<1>23. NoLostAdvance'
  BY <1>15 DEF NoLostAdvance
<1>24. RowsFit' /\ HistoryIsOnChain' /\ CompleteIsChain'
  BY <1>1 DEF StreamInv, RowsFit, HistoryIsOnChain, OnChain, OneChain, CompleteIsChain, dbVars
<1> QED
  BY <1>18, <1>19, <1>20, <1>21, <1>22, <1>23, <1>24 DEF StreamInv

\* The ledger that is about to be published.
LEMMA HeadOfPlan ==
  ASSUME StreamInv, adv.at \in {"full", "setpub"}
  PROVE  /\ Head(adv.todo) \in Ledger /\ Len(adv.todo) \in Nat /\ Len(adv.todo) > 0
         /\ mValidLedger \in Ledger /\ mPubLedger \in Ledger
         /\ OneChain => OnChain(Head(adv.todo), mValidLedger)
         /\ \/ adv.todo = <<mPubLedger>> /\ Head(adv.todo) = mPubLedger
            \/ \E l \in accepted :
                 /\ Follows(adv.todo, l) /\ LedgerSeq[l] > SeqOf(mPubLedger)
                 /\ Head(adv.todo) = hashOfSeq(l, SeqOf(mPubLedger) + 1)
                 /\ LedgerSeq[Head(adv.todo)] = SeqOf(mPubLedger) + 1
                 /\ OnChain(Head(adv.todo), l)
<1>0. StreamTypes /\ StreamBegun /\ PlanIsSound /\ PublishedIsAccepted
  BY DEF StreamInv
<1>1. mValidLedger \in Ledger /\ mPubLedger \in Ledger
  BY <1>0 DEF StreamTypes, StreamBegun
<1>2. adv.todo \in Seq(Ledger) /\ Len(adv.todo) > 0
  BY <1>0 DEF StreamTypes, AdvanceThread, PlanIsSound
<1>3. Head(adv.todo) \in Ledger /\ Len(adv.todo) \in Nat /\ Head(adv.todo) = adv.todo[1]
  BY <1>2
<1>4. CASE adv.todo = <<mPubLedger>>
  <2>1. Head(adv.todo) = mPubLedger
    BY <1>4
  <2>2. ASSUME OneChain PROVE OnChain(mPubLedger, mValidLedger)
    <3>1. PICK l \in accepted : OnChain(mPubLedger, l)
      BY <1>0, <1>1, LedgerFacts DEF PublishedIsAccepted
    <3>2. l \in Ledger
      BY <1>0 DEF StreamTypes
    <3>3. LedgerSeq[mPubLedger] \in 1 .. LedgerSeq[l]
      BY <1>1, <3>1, <3>2, LedgerFacts DEF OnChain
    <3>4. OnChain(hashOfSeq(l, LedgerSeq[mPubLedger]), mValidLedger)
      BY <1>0, <2>2, <3>3, AcceptedOnChain
    <3> QED
      BY <3>1, <3>4 DEF OnChain
  <2> QED
    BY <1>1, <1>2, <1>3, <1>4, <2>1, <2>2
<1>5. CASE \E l \in accepted : Follows(adv.todo, l)
  <2>1. PICK l \in accepted : Follows(adv.todo, l)
    BY <1>5
  <2>2. l \in Ledger
    BY <1>0 DEF StreamTypes
  <2>3. PICK s \in Nat : s = SeqOf(mPubLedger) + 1
    BY <1>1, LedgerFacts
  <2>4. s \in 1 .. LedgerSeq[l] /\ LedgerSeq[l] > SeqOf(mPubLedger)
    BY <1>1, <1>2, <1>3, <2>1, <2>2, <2>3, LedgerFacts DEF Follows
  <2>5. Head(adv.todo) = hashOfSeq(l, s)
    BY <1>2, <1>3, <2>1, <2>3 DEF Follows
  <2>6. LedgerSeq[Head(adv.todo)] = s
    BY <2>2, <2>4, <2>5, HashOfSeqFits
  <2>7. OneChain => OnChain(Head(adv.todo), mValidLedger)
    BY <1>0, <2>4, <2>5, AcceptedOnChain
  <2>8. OnChain(Head(adv.todo), l)
    BY <2>2, <2>4, <2>5, <2>6, LedgerFacts DEF OnChain
  <2> QED
    BY <1>1, <1>2, <1>3, <2>1, <2>3, <2>4, <2>5, <2>6, <2>7, <2>8
<1> QED
  BY <1>0, <1>4, <1>5 DEF PlanIsSound

LEMMA PublishKeeps ==
  ASSUME StreamInv, publishFull
  PROVE  StreamInv'
<1>0. StreamTypes /\ StreamBegun /\ PlanIsSound /\ PublishedIsAccepted
  BY DEF StreamInv
<1>1. /\ adv.at = "full" /\ setFullLedger(Head(adv.todo)) /\ adv' = [adv EXCEPT !.at = "setpub"]
      /\ UNCHANGED <<mValidLedger, accepted, mPubLedger, mHistLedger, fill, mAdvanceWork>>
  BY DEF publishFull, histVars
<1>2. PICK l \in Ledger : l = Head(adv.todo)
  BY <1>1, HeadOfPlan
<1>3. OneChain => OnChain(l, mValidLedger)
  BY <1>1, <1>2, HeadOfPlan
<1>4. setFullLedger(l)
  BY <1>1, <1>2
<1>5. RowsFit' /\ HistoryIsOnChain' /\ CompleteIsChain'
  BY <1>1, <1>3, <1>4, FullKeeps
<1>6. adv' \in AdvanceThread /\ adv'.at = "setpub" /\ adv'.todo = adv.todo
  BY <1>0, <1>1 DEF StreamTypes, AdvanceThread
<1>7. StreamTypes'
  BY <1>0, <1>1, <1>4, <1>6, FullEffects DEF StreamTypes
<1>8. StreamBegun' /\ PublishedIsAccepted' /\ PlanIsSound'
  BY <1>0, <1>1, <1>6 DEF StreamBegun, PublishedIsAccepted, OnChain, PlanIsSound, Follows
<1>9. WakeIsSeen' /\ NoLostAdvance'
  BY <1>6 DEF WakeIsSeen, NoLostAdvance
<1> QED
  BY <1>5, <1>7, <1>8, <1>9 DEF StreamInv

LEMMA SetPubKeeps ==
  ASSUME StreamInv, setPubLedger
  PROVE  StreamInv'
<1>0. StreamTypes /\ StreamBegun /\ PlanIsSound /\ PublishedIsAccepted /\ adv.todo \in Seq(Ledger)
  BY DEF StreamInv, StreamTypes, AdvanceThread
<1>1. /\ adv.at = "setpub" /\ mPubLedger' = Head(adv.todo)
      /\ adv' = [adv EXCEPT !.at = IF Len(adv.todo) = 1 THEN "head" ELSE "full",
                            !.todo = Tail(adv.todo)]
      /\ mAdvanceWork' = (mAdvanceWork \/ Len(adv.todo) = 1)
      /\ UNCHANGED <<mValidLedger, accepted, dbVars, mHistLedger, fill>>
  BY DEF setPubLedger, histVars
<1>2. PICK pub \in Ledger : pub = Head(adv.todo)
  BY <1>1, HeadOfPlan
<1>3. Len(adv.todo) \in Nat /\ Len(adv.todo) > 0 /\ mValidLedger \in Ledger /\ mPubLedger \in Ledger
  BY <1>1, HeadOfPlan
<1>4. Tail(adv.todo) \in Seq(Ledger) /\ Len(Tail(adv.todo)) = Len(adv.todo) - 1
  BY <1>0, <1>3
<1>5. /\ adv' \in AdvanceThread /\ adv'.todo = Tail(adv.todo)
      /\ adv'.at = IF Len(adv.todo) = 1 THEN "head" ELSE "full"
  BY <1>0, <1>1, <1>4 DEF StreamTypes, AdvanceThread
<1>6. StreamTypes'
  BY <1>0, <1>1, <1>2, <1>5 DEF StreamTypes, dbVars
<1>7. RowsFit' /\ HistoryIsOnChain' /\ CompleteIsChain'
  BY <1>1 DEF StreamInv, RowsFit, HistoryIsOnChain, OnChain, OneChain, CompleteIsChain, dbVars
<1>8. WakeIsSeen' /\ NoLostAdvance'
  BY <1>5 DEF WakeIsSeen, NoLostAdvance
<1>9. CASE adv.todo = <<mPubLedger>>
  <2>1. mPubLedger' = mPubLedger /\ Len(adv.todo) = 1
    BY <1>1, <1>9
  <2>2. StreamBegun' /\ PublishedIsAccepted'
    BY <1>0, <1>1, <1>3, <2>1, LedgerFacts DEF StreamBegun, PublishedIsAccepted, OnChain
  <2>3. PlanIsSound'
    BY <1>5, <2>1 DEF PlanIsSound
  <2> QED
    BY <1>6, <1>7, <1>8, <2>2, <2>3 DEF StreamInv
<1>10. CASE \E l \in accepted :
              /\ Follows(adv.todo, l) /\ LedgerSeq[l] > SeqOf(mPubLedger)
              /\ Head(adv.todo) = hashOfSeq(l, SeqOf(mPubLedger) + 1)
              /\ LedgerSeq[Head(adv.todo)] = SeqOf(mPubLedger) + 1
              /\ OnChain(Head(adv.todo), l)
  <2>1. PICK l \in accepted :
              /\ Follows(adv.todo, l) /\ LedgerSeq[l] > SeqOf(mPubLedger)
              /\ LedgerSeq[Head(adv.todo)] = SeqOf(mPubLedger) + 1
              /\ OnChain(Head(adv.todo), l)
    BY <1>10
  <2>2. l \in Ledger
    BY <1>0 DEF StreamTypes
  <2>3. PICK p \in Nat : p = SeqOf(mPubLedger)
    BY <1>3, LedgerFacts
  <2>4. SeqOf(mPubLedger') = p + 1
    BY <1>1, <1>2, <2>1, <2>3, LedgerFacts
  <2>5. StreamBegun' /\ PublishedIsAccepted'
    <3>1. LedgerSeq[l] <= SeqOf(mValidLedger) /\ LedgerSeq[l] \in Nat /\ SeqOf(mValidLedger) \in Nat
      BY <1>0, <1>3, <2>2, LedgerFacts DEF StreamBegun
    <3>2. SeqOf(mPubLedger') <= SeqOf(mValidLedger')
      BY <1>1, <2>1, <2>3, <2>4, <3>1
    <3>3. PublishedIsAccepted'
      BY <1>1, <2>1 DEF PublishedIsAccepted, OnChain
    <3> QED
      BY <1>0, <1>1, <1>2, <1>3, <3>2, <3>3, LedgerFacts DEF StreamBegun
  <2>6. PlanIsSound'
    <3>1. CASE Len(adv.todo) = 1
      BY <1>5, <3>1 DEF PlanIsSound
    <3>2. CASE Len(adv.todo) # 1
      <4>1. Len(adv'.todo) = Len(adv.todo) - 1 /\ Len(adv'.todo) > 0 /\ adv'.at = "full"
        <5>1. PICK n \in Nat : n = Len(adv.todo)
          BY <1>3
        <5>a. n > 0 /\ n # 1
          BY <1>3, <3>2, <5>1, Zenon
        <5>2. n > 1
          BY <5>a
        <5>3. Len(adv'.todo) = n - 1
          BY <1>4, <1>5, <5>1
        <5> QED
          BY <1>5, <3>2, <5>1, <5>2, <5>3
      <4>2. LedgerSeq[l] >= p + Len(adv.todo)
        BY <2>1, <2>3 DEF Follows
      <4>3. LedgerSeq[l] >= (p + 1) + Len(adv'.todo)
        BY <1>3, <2>2, <2>3, <4>1, <4>2, LedgerFacts
      <4>4. ASSUME NEW i \in 1 .. Len(adv'.todo)
            PROVE  adv'.todo[i] = hashOfSeq(l, (p + 1) + i)
        <5>1. i + 1 \in 1 .. Len(adv.todo) /\ (p + 1) + i = p + (i + 1)
          BY <1>3, <2>3, <4>1
        <5>2. adv'.todo[i] = adv.todo[i + 1]
          BY <1>0, <1>3, <1>4, <1>5, <4>1
        <5>3. adv.todo[i + 1] = hashOfSeq(l, p + (i + 1))
          BY <2>1, <2>3, <5>1 DEF Follows
        <5> QED
          BY <5>1, <5>2, <5>3
      <4>5. Follows(adv.todo, l)'
        BY <2>4, <4>3, <4>4 DEF Follows
      <4> QED
        BY <1>1, <4>1, <4>5 DEF PlanIsSound
    <3> QED
      BY <3>1, <3>2
  <2> QED
    BY <1>6, <1>7, <1>8, <2>5, <2>6 DEF StreamInv
<1> QED
  BY <1>1, <1>9, <1>10, HeadOfPlan

\* A walk down the chain of ref finds the hash there, or asks for a ledger of it.
LEMMA WalkIsSound ==
  ASSUME NEW ref \in Ledger, NEW s \in 1 .. LedgerSeq[ref]
  PROVE  /\ walkHashBySeq(s, ref) \in {hashOfSeq(ref, s), NoLedger}
         /\ walkAsks(s, ref) \subseteq Ledger
<1>1. walkHashBySeq(s, ref) \in {hashOfSeq(ref, s), NoLedger}
  BY DEF walkHashBySeq
<1>2. hashOfSeq(ref, s) # NoLedger
  BY HashOfSeqFits, LedgerFacts
<1>3. ASSUME walkHashBySeq(s, ref) = NoLedger
      PROVE  hashOfSeq(ref, getCandidateLedger(s)) \in Ledger
  <2>1. ~knows(ref, s)
    BY <1>2, <1>3 DEF walkHashBySeq
  <2>2. LedgerSeq[ref] \in Nat /\ s \in Nat /\ Skip \in Nat \ {0}
    BY LedgerFacts, ParameterAssumption
  <2>3. LedgerSeq[ref] - s > Skip /\ s % Skip # 0
    BY <2>1, <2>2 DEF knows
  <2>4. s % Skip \in 0 .. Skip - 1
    BY <2>2
  <2>5. getCandidateLedger(s) \in 1 .. LedgerSeq[ref]
    BY <2>2, <2>3, <2>4 DEF getCandidateLedger
  <2> QED
    BY <2>5, HashOfSeqFits
<1> QED
  BY <1>1, <1>3 DEF walkAsks

\* Every hash that the history branch looks up is a ledger, on the chain.
LEMMA HistoryHash ==
  ASSUME StreamInv, adv.at = "history", NEW s \in 1 .. adv.missing
  PROVE  /\ getLedgerHashForHistory(s) \in Ledger \cup {NoLedger}
         /\ getLedgerHashForHistory(s) # NoLedger /\ OneChain =>
              OnChain(getLedgerHashForHistory(s), mValidLedger)
         /\ historyAsks(s) \subseteq Ledger
<1>0. StreamTypes /\ StreamBegun /\ PlanIsSound
  BY DEF StreamInv
<1>1. mValidLedger \in Ledger /\ mPubLedger \in Ledger /\ adv.missing \in Nat
  BY <1>0 DEF StreamTypes, StreamBegun, AdvanceThread
<1>2. s \in 1 .. LedgerSeq[mValidLedger]
  <2>1. adv.missing <= SeqOf(mPubLedger) /\ SeqOf(mPubLedger) <= SeqOf(mValidLedger)
    BY <1>0, <1>1, LedgerFacts DEF PlanIsSound, StreamBegun
  <2> QED
    BY <1>1, <2>1, LedgerFacts
<1>3. CASE SeqOf(mHistLedger) >= s
  <2>1. mHistLedger \in Ledger /\ mHistLedger # NoLedger
    BY <1>0, <1>1, <1>3, LedgerFacts DEF StreamTypes
  <2>2. s \in 1 .. LedgerSeq[mHistLedger]
    BY <1>1, <1>3, <2>1, LedgerFacts
  <2>3. hashOfSeq(mHistLedger, s) \in Ledger /\ LedgerSeq[hashOfSeq(mHistLedger, s)] = s
    BY <2>1, <2>2, HashOfSeqFits
  <2>4. OnChain(hashOfSeq(mHistLedger, s), mHistLedger)
    BY <2>1, <2>2, <2>3, LedgerFacts DEF OnChain
  <2>5. OneChain => OnChain(mHistLedger, mValidLedger)
    BY <2>1 DEF StreamInv, HistoryIsOnChain
  <2>6. OneChain => OnChain(hashOfSeq(mHistLedger, s), mValidLedger)
    BY <1>1, <2>1, <2>3, <2>4, <2>5, OnChainTransitive
  <2>7. historyReference(s) = mHistLedger
    BY <1>3 DEF historyReference
  <2> QED
    BY <2>1, <2>2, <2>3, <2>6, <2>7, WalkIsSound DEF getLedgerHashForHistory, historyAsks
<1>4. CASE ~(SeqOf(mHistLedger) >= s)
  <2>1. hashOfSeq(mValidLedger, s) \in Ledger /\ LedgerSeq[hashOfSeq(mValidLedger, s)] = s
    BY <1>1, <1>2, HashOfSeqFits
  <2>2. OnChain(hashOfSeq(mValidLedger, s), mValidLedger)
    BY <1>1, <1>2, <2>1, LedgerFacts DEF OnChain
  <2>3. historyReference(s) = mValidLedger
    BY <1>4 DEF historyReference
  <2> QED
    BY <1>1, <1>2, <2>1, <2>2, <2>3, WalkIsSound DEF getLedgerHashForHistory, historyAsks
<1> QED
  BY <1>3, <1>4

LEMMA HistoryKeeps ==
  ASSUME StreamInv, PeerTypes, fetchHistory
  PROVE  StreamInv' /\ (AcquireTypes => AcquireTypes')
<1>0. StreamTypes /\ StreamBegun /\ PlanIsSound /\ PublishedIsAccepted
  BY DEF StreamInv
<1>1. adv.at = "history" /\ adv.missing \in Nat /\ adv.missing >= 1
  BY <1>0, LedgerFacts DEF fetchHistory, PlanIsSound, StreamTypes, AdvanceThread
<1>2. UNCHANGED <<mValidLedger, accepted, mPubLedger, dispatched>>
  BY DEF fetchHistory
<1>3. adv.missing \in 1 .. adv.missing
  BY <1>1
<1>4. PICK l \in Ledger \cup {NoLedger} : l = getLedgerHashForHistory(adv.missing)
  BY <1>1, <1>3, HistoryHash
<1>5. l # NoLedger /\ OneChain => OnChain(l, mValidLedger)
  BY <1>1, <1>3, <1>4, HistoryHash
<1>6. CASE /\ l \in held /\ l \in Ledger /\ setFullLedger(l)
           /\ mHistLedger' = l
           /\ fill' = [at |-> "queued", l |-> l, rows |-> {}] \/ fill' = fill
           /\ adv' = [adv EXCEPT !.at = "head", !.missing = 0]
           /\ mAdvanceWork' = TRUE /\ UNCHANGED <<wanted, failed>>
  <2>1. /\ setFullLedger(l) /\ mHistLedger' = l
        /\ fill' = [at |-> "queued", l |-> l, rows |-> {}] \/ fill' = fill
        /\ adv' = [adv EXCEPT !.at = "head", !.missing = 0]
        /\ mAdvanceWork' = TRUE /\ wanted' = wanted /\ failed' = failed /\ l # NoLedger
    BY <1>6, LedgerFacts
  <2>2. adv' \in AdvanceThread /\ adv'.at = "head"
    BY <1>0, <2>1 DEF StreamTypes, AdvanceThread
  <2>3. RowsFit' /\ HistoryIsOnChain' /\ CompleteIsChain'
    BY <1>2, <1>5, <2>1, FullKeeps
  <2>4. fill' \in FillJob /\ (fill'.at # "off" => fill'.l \in Ledger)
    BY <1>0, <2>1 DEF StreamTypes, FillJob
  <2>5. StreamTypes'
    BY <1>0, <1>2, <2>1, <2>2, <2>4, FullEffects DEF StreamTypes
  <2>6. mValidLedger # NoLedger
    BY <1>0, <1>1 DEF StreamBegun
  <2>7. StreamBegun' /\ PublishedIsAccepted' /\ PlanIsSound' /\ WakeIsSeen' /\ NoLostAdvance'
    BY <1>0, <1>2, <2>2, <2>6 DEF StreamBegun, PublishedIsAccepted, OnChain, PlanIsSound,
                                  WakeIsSeen, NoLostAdvance
  <2> QED
    BY <1>2, <2>1, <2>3, <2>5, <2>7 DEF StreamInv, AcquireTypes
<1>7. ASSUME NEW S \in SUBSET (1 .. adv.missing), acquire(UNION {historyAsks(s) : s \in S})
      PROVE  AcquireTypes => AcquireTypes'
  <2> DEFINE A == UNION {historyAsks(s) : s \in S}
  <2>1. A \subseteq Ledger
    BY <1>1, HistoryHash
  <2>2. wanted' \subseteq wanted \cup A /\ failed' \subseteq failed
    BY <1>7, AcquireEffects
  <2> QED
    BY <1>2, <2>1, <2>2 DEF AcquireTypes
<1>8. CASE /\ adv' = [adv EXCEPT !.at = "end"]
           /\ UNCHANGED <<mAdvanceWork, dbVars, mHistLedger, fill>>
           /\ AcquireTypes => AcquireTypes'
  <2>4. adv' \in AdvanceThread /\ adv'.at = "end" /\ adv'.missing = adv.missing
    BY <1>0, <1>8 DEF StreamTypes, AdvanceThread
  <2>5. StreamTypes'
    BY <1>0, <1>2, <1>8, <2>4 DEF StreamTypes, dbVars
  <2>6. mValidLedger # NoLedger
    BY <1>0, <1>1 DEF StreamBegun
  <2>7. StreamBegun' /\ PublishedIsAccepted' /\ PlanIsSound' /\ WakeIsSeen' /\ NoLostAdvance'
    BY <1>0, <1>1, <1>2, <2>4, <2>6 DEF StreamBegun, PublishedIsAccepted, OnChain, PlanIsSound,
                                  WakeIsSeen, NoLostAdvance
  <2>8. RowsFit' /\ HistoryIsOnChain' /\ CompleteIsChain'
    BY <1>2, <1>8 DEF StreamInv, RowsFit, HistoryIsOnChain, OnChain, OneChain, CompleteIsChain, dbVars
  <2> QED
    BY <1>8, <2>5, <2>7, <2>8 DEF StreamInv
<1>9. CASE /\ adv' = [adv EXCEPT !.at = "head", !.missing = 0] /\ mAdvanceWork' = TRUE
           /\ mCompleteLedgers' \subseteq mCompleteLedgers
           /\ UNCHANGED <<index, mHistLedger, fill>>
           /\ AcquireTypes => AcquireTypes'
  <2>1. adv' \in AdvanceThread /\ adv'.at = "head"
    BY <1>0, <1>9 DEF StreamTypes, AdvanceThread
  <2>2. StreamTypes'
    BY <1>0, <1>2, <1>9, <2>1 DEF StreamTypes
  <2>3. mValidLedger # NoLedger
    BY <1>0, <1>1 DEF StreamBegun
  <2>4. StreamBegun' /\ PublishedIsAccepted' /\ PlanIsSound' /\ WakeIsSeen' /\ NoLostAdvance'
    BY <1>0, <1>2, <2>1, <2>3 DEF StreamBegun, PublishedIsAccepted, OnChain, PlanIsSound,
                                  WakeIsSeen, NoLostAdvance
  <2>5. RowsFit' /\ HistoryIsOnChain' /\ CompleteIsChain'
    BY <1>2, <1>9 DEF StreamInv, RowsFit, HistoryIsOnChain, OnChain, OneChain, CompleteIsChain
  <2> QED
    BY <1>9, <2>2, <2>4, <2>5 DEF StreamInv
<1>10. CASE l \in held
  <2>1. l \in Ledger
    BY <1>10 DEF PeerTypes
  <2> QED
    BY <1>4, <1>6, <1>10, <2>1, LedgerFacts DEF fetchHistory
<1>11. CASE l \notin held \cup {NoLedger}
  <2> DEFINE S == {adv.missing} \cup {t \in 1 .. adv.missing : adv.missing - t < FetchSize}
  <2>1. S \in SUBSET (1 .. adv.missing)
    BY <1>3
  <2>2. /\ acquire(UNION {historyAsks(s) : s \in S}) /\ adv' = [adv EXCEPT !.at = "end"]
        /\ UNCHANGED <<mAdvanceWork, dbVars, mHistLedger, fill>>
    BY <1>4, <1>11 DEF fetchHistory, histVars
  <2> HIDE DEF S
  <2> QED
    BY <1>7, <1>8, <2>1, <2>2
<1>12. CASE l = NoLedger
  <2> DEFINE S == {adv.missing}
  <2>1. UNION {historyAsks(s) : s \in S} = historyAsks(adv.missing)
    OBVIOUS
  <2>2. /\ acquire(historyAsks(adv.missing)) /\ adv' = [adv EXCEPT !.at = "head", !.missing = 0]
        /\ mAdvanceWork' = TRUE /\ mCompleteLedgers' \subseteq mCompleteLedgers
        /\ UNCHANGED <<index, mHistLedger, fill>>
    BY <1>4, <1>12, LedgerFacts DEF fetchHistory, histVars, PeerTypes
  <2>3. S \in SUBSET (1 .. adv.missing)
    BY <1>3
  <2> HIDE DEF S
  <2>4. acquire(UNION {historyAsks(s) : s \in S})
    BY <2>1, <2>2
  <2> QED
    BY <1>7, <1>9, <2>2, <2>3, <2>4
<1> QED
  BY <1>10, <1>11, <1>12

LEMMA EndKeeps ==
  ASSUME StreamInv, doAdvanceEnd
  PROVE  StreamInv'
<1>0. StreamTypes /\ StreamBegun /\ PlanIsSound /\ PublishedIsAccepted /\ WakeIsSeen
  BY DEF StreamInv
<1>1. /\ adv.at = "end"
      /\ mAdvanceWork' = (mAdvanceWork \/ (adv.missing # 0 /\ SeqOf(mValidLedger) # SeqOf(mPubLedger)))
      /\ adv' = [adv EXCEPT !.at = IF mAdvanceWork' THEN "head" ELSE "off", !.missing = 0]
      /\ UNCHANGED <<mValidLedger, accepted, mPubLedger, dbVars, mHistLedger, fill, wanted, dispatched, failed>>
  BY DEF doAdvanceEnd, histVars, acqVars
<1>2. adv' \in AdvanceThread /\ adv'.at = IF mAdvanceWork' THEN "head" ELSE "off"
  BY <1>0, <1>1 DEF StreamTypes, AdvanceThread
<1>3. mAdvanceWork' \in BOOLEAN
  BY <1>1
<1>4. StreamTypes'
  BY <1>0, <1>1, <1>2, <1>3 DEF StreamTypes, dbVars
<1>5. StreamBegun' /\ PublishedIsAccepted' /\ PlanIsSound' /\ WakeIsSeen'
  BY <1>0, <1>1, <1>2 DEF StreamBegun, PublishedIsAccepted, OnChain, PlanIsSound, WakeIsSeen
<1>6. NoLostAdvance'
  <2> SUFFICES ASSUME adv'.at = "off", SeqOf(mValidLedger) > SeqOf(mPubLedger)
               PROVE  hashOfSeq(mValidLedger, SeqOf(mPubLedger) + 1) \in wanted \cup dispatched \cup failed
    BY <1>1 DEF NoLostAdvance
  <2>1. ~mAdvanceWork'
    BY <1>2
  <2>2. SeqOf(mValidLedger) # SeqOf(mPubLedger)
    BY <1>0, LedgerFacts DEF StreamTypes
  <2>3. ~mAdvanceWork /\ adv.missing = 0
    BY <1>1, <2>1, <2>2
  <2> QED
    BY <1>0, <1>1, <2>3 DEF WakeIsSeen, NextOnItsWay
<1>7. RowsFit' /\ HistoryIsOnChain' /\ CompleteIsChain'
  BY <1>1 DEF StreamInv, RowsFit, HistoryIsOnChain, OnChain, OneChain, CompleteIsChain, dbVars
<1> QED
  BY <1>4, <1>5, <1>6, <1>7 DEF StreamInv

-----------------------------------------------------------------------------
(***************************************************************************)
(* tryFill.                                                                *)
(***************************************************************************)
LEMMA FillReadKeeps ==
  ASSUME StreamInv, fillRead
  PROVE  StreamInv'
<1>0. StreamTypes /\ StreamBegun /\ PlanIsSound /\ PublishedIsAccepted /\ WakeIsSeen /\ NoLostAdvance
      /\ RowsFit
  BY DEF StreamInv
<1>1. /\ fill.at = "queued" /\ mCompleteLedgers' = mCompleteLedgers \cup {LedgerSeq[fill.l]}
      /\ fill' = [fill EXCEPT !.at = "read", !.rows = {index[s] : s \in Seqs} \ {NoLedger}]
      /\ UNCHANGED <<mValidLedger, accepted, mPubLedger, index, mHistLedger, mAdvanceWork, adv,
                     wanted, dispatched, failed>>
  BY DEF fillRead, advVars, acqVars
<1>2. fill.l \in Ledger
  BY <1>0, <1>1 DEF StreamTypes
<1>3. {index[s] : s \in Seqs} \ {NoLedger} \in SUBSET Ledger
  BY <1>0 DEF StreamTypes
<1>4. /\ fill' \in FillJob /\ fill'.at = "read" /\ fill'.l = fill.l
      /\ fill'.rows = {index[s] : s \in Seqs} \ {NoLedger}
  BY <1>0, <1>1, <1>3 DEF StreamTypes, FillJob
<1>5. StreamTypes'
  BY <1>0, <1>1, <1>2, <1>4, LedgerFacts DEF StreamTypes
<1>6. StreamBegun' /\ PublishedIsAccepted' /\ PlanIsSound' /\ WakeIsSeen' /\ NoLostAdvance'
  BY <1>0, <1>1 DEF StreamBegun, PublishedIsAccepted, OnChain, PlanIsSound, Follows, WakeIsSeen,
                    NextOnItsWay, NoLostAdvance
<1>7. RowsFit'
  BY <1>0, <1>1 DEF RowsFit
<1>8. HistoryIsOnChain' /\ CompleteIsChain'
  <2>1. CASE OneChain
    <3>1. OnChain(fill.l, mValidLedger) /\ index[LedgerSeq[fill.l]] = fill.l
      BY <1>1, <2>1 DEF StreamInv, HistoryIsOnChain
    <3>2. ASSUME NEW t \in 1 .. LedgerSeq[fill.l], hashOfSeq(fill.l, t) \in fill'.rows
          PROVE  index[t] = hashOfSeq(fill.l, t)
      <4>1. PICK s \in Seqs : hashOfSeq(fill.l, t) = index[s] /\ index[s] # NoLedger
        BY <1>4, <3>2
      <4>2. LedgerSeq[hashOfSeq(fill.l, t)] = s
        BY <1>0, <4>1 DEF RowsFit
      <4>3. s = t
        BY <1>2, <4>2, HashOfSeqFits
      <4> QED
        BY <4>1, <4>3
    <3>3. HistoryIsOnChain'
      BY <1>1, <1>4, <2>1, <3>1, <3>2 DEF StreamInv, HistoryIsOnChain, OnChain
    <3>4. CompleteIsChain'
      BY <1>1, <2>1, <3>1 DEF StreamInv, CompleteIsChain, OnChain
    <3> QED
      BY <3>3, <3>4
  <2>2. CASE ~OneChain
    BY <1>1, <2>2 DEF OneChain, HistoryIsOnChain, CompleteIsChain
  <2> QED
    BY <2>1, <2>2
<1> QED
  BY <1>5, <1>6, <1>7, <1>8 DEF StreamInv

LEMMA FillEndKeeps ==
  ASSUME StreamInv, fillEnd
  PROVE  StreamInv'
<1>0. StreamTypes /\ StreamBegun /\ PlanIsSound /\ PublishedIsAccepted /\ WakeIsSeen /\ NoLostAdvance
  BY DEF StreamInv
<1>1. /\ fill.at = "read"
      /\ mCompleteLedgers' = mCompleteLedgers \cup fillRange(fill.l, fill.rows)
      /\ fill' = [at |-> "off", l |-> NoLedger, rows |-> {}]
      /\ mAdvanceWork' = TRUE
      /\ adv' = IF adv.at = "off" /\ mValidLedger # NoLedger THEN [adv EXCEPT !.at = "head"] ELSE adv
      /\ UNCHANGED <<mValidLedger, accepted, mPubLedger, index, mHistLedger, wanted, dispatched, failed>>
  BY DEF fillEnd, tryAdvance, acqVars
<1>2. fill.l \in Ledger
  BY <1>0, <1>1 DEF StreamTypes
<1>3. /\ adv' \in AdvanceThread
      /\ adv' = adv \/ (adv'.at = "head" /\ mValidLedger # NoLedger)
  BY <1>0, <1>1 DEF StreamTypes, AdvanceThread
<1>4. fillRange(fill.l, fill.rows) \subseteq 1 .. LedgerSeq[fill.l]
  BY DEF fillRange
<1>5. fillRange(fill.l, fill.rows) \subseteq Seqs
  <2> SUFFICES ASSUME NEW s \in 1 .. LedgerSeq[fill.l] PROVE s \in Seqs
    BY <1>4
  <2> QED
    BY <1>2, HashOfSeqFits, LedgerFacts
<1>6. StreamTypes'
  <2>1. fill' \in FillJob /\ fill'.at = "off"
    BY <1>1 DEF FillJob
  <2> QED
    BY <1>0, <1>1, <1>3, <1>5, <2>1 DEF StreamTypes
<1>7. StreamBegun' /\ PublishedIsAccepted'
  BY <1>0, <1>1, <1>3 DEF StreamBegun, PublishedIsAccepted, OnChain
<1>8. PlanIsSound'
  BY <1>0, <1>1, <1>3 DEF PlanIsSound, Follows
<1>9. WakeIsSeen' /\ NoLostAdvance'
  BY <1>0, <1>1, <1>3 DEF WakeIsSeen, NoLostAdvance
<1>10. RowsFit'
  BY <1>1 DEF StreamInv, RowsFit
<1>11. HistoryIsOnChain'
  BY <1>1 DEF StreamInv, HistoryIsOnChain, OneChain, OnChain
<1>12. CompleteIsChain'
  <2> SUFFICES ASSUME OneChain, NEW s \in mCompleteLedgers'
               PROVE  s <= SeqOf(mValidLedger) /\ index[s] = hashOfSeq(mValidLedger, s)
    BY <1>1 DEF CompleteIsChain, OneChain
  <2>1. CASE s \in mCompleteLedgers
    BY <2>1 DEF StreamInv, CompleteIsChain
  <2>2. CASE s \in fillRange(fill.l, fill.rows)
    <3>1. OnChain(fill.l, mValidLedger) /\ index[LedgerSeq[fill.l]] = fill.l
      BY <1>1 DEF StreamInv, HistoryIsOnChain
    <3>2. mValidLedger \in Ledger
      BY <1>0, <1>2, <3>1, LedgerFacts DEF OnChain, StreamTypes
    <3>3. s \in 1 .. LedgerSeq[fill.l] /\ LedgerSeq[fill.l] \in 1 .. LedgerSeq[mValidLedger]
      BY <1>2, <1>4, <2>2, <3>1, <3>2, LedgerFacts DEF OnChain
    <3>4. index[s] = hashOfSeq(fill.l, s)
      <4>1. CASE s = LedgerSeq[fill.l]
        BY <1>2, <3>1, <4>1, HashOfSeqTop
      <4>2. CASE s # LedgerSeq[fill.l]
        <5>1. s \in s .. LedgerSeq[fill.l] - 1
          BY <1>2, <3>3, <4>2, LedgerFacts
        <5>2. hashOfSeq(fill.l, s) \in fill.rows
          BY <2>2, <5>1 DEF fillRange
        <5> QED
          BY <1>1, <3>3, <5>2 DEF StreamInv, HistoryIsOnChain
      <4> QED
        BY <4>1, <4>2
    <3>5. hashOfSeq(hashOfSeq(mValidLedger, LedgerSeq[fill.l]), s) = hashOfSeq(mValidLedger, s)
      BY <3>2, <3>3, HashOfSeqSame
    <3> QED
      BY <3>1, <3>2, <3>3, <3>4, <3>5, LedgerFacts DEF OnChain
  <2> QED
    BY <1>1, <2>1, <2>2
<1> QED
  BY <1>6, <1>7, <1>8, <1>9, <1>10, <1>11, <1>12 DEF StreamInv

-----------------------------------------------------------------------------
LEMMA AcquireTypesKept ==
  ASSUME IInv, [Next]_vars
  PROVE  AcquireTypes'
<1>0. PeerTypes /\ AcquireTypes /\ StreamInv
  BY IInvSplit
<1> USE DEF AcquireTypes
<1>1. ASSUME NEW v \in Validator, NEW l \in Validated[v], addValidation(v, l)
      PROVE  AcquireTypes'
  BY <1>0, <1>1 DEF addValidation, acqVars
<1>2. ASSUME NEW c \in Threads, Calls(c)
      PROVE  AcquireTypes'
  <2>1. CASE FindValidated(c)
    <3>1. call[c].l \in Ledger
      BY <1>0, <2>1 DEF FindValidated, PeerTypes
    <3>2. PICK S \in SUBSET {call[c].l} : acquire(S)
      BY <2>1 DEF FindValidated
    <3> QED
      BY <1>0, <2>1, <3>1, <3>2, AcquireEffects DEF FindValidated
  <2>2. CASE CountValidations(c) \/ AcceptValidated(c)
    BY <1>0, <2>2 DEF CountValidations, AcceptValidated, acqVars
  <2> QED
    BY <1>2, <2>1, <2>2 DEF Calls
<1>3. ASSUME NEW l \in Built, setBuildingLedger(l)
      PROVE  AcquireTypes'
  BY <1>0, <1>3 DEF setBuildingLedger, acqVars
<1>4. ASSUME NEW l \in Ledger, acquired(l) \/ logFailure(l) \/ LADispatch(l)
      PROVE  AcquireTypes'
  BY <1>0, <1>4 DEF acquired, logFailure, LADispatch
<1>5. ASSUME Consensus
      PROVE  AcquireTypes'
  BY <1>0, <1>5 DEF Consensus, storeLedger, consensusBuilt, checkBuilt, scanValidations, switchLCL,
                    acqVars
<1>6. ASSUME Advance
      PROVE  AcquireTypes'
  <2>1. CASE findNewLedgersToPublish
    BY <1>0, <2>1, FindKeeps
  <2>2. CASE fetchHistory
    BY <1>0, <2>2, HistoryKeeps
  <2>3. CASE doAdvanceHead \/ publishFull \/ setPubLedger \/ doAdvanceEnd
    BY <1>0, <2>3 DEF doAdvanceHead, publishFull, setPubLedger, doAdvanceEnd, acqVars
  <2> QED
    BY <1>6, <2>1, <2>2, <2>3 DEF Advance
<1>7. ASSUME Fill
      PROVE  AcquireTypes'
  BY <1>0, <1>7 DEF Fill, fillRead, fillEnd, acqVars
<1>8. CASE UNCHANGED vars
  BY <1>0, <1>8 DEF vars, acqVars
<1> QED
  BY <1>1, <1>2, <1>3, <1>4, <1>5, <1>6, <1>7, <1>8 DEF Next

LEMMA InitHolds == Init => IInv
<1> SUFFICES ASSUME Init PROVE IInv
  OBVIOUS
<1>0. index \in [Seqs -> Ledger \cup {NoLedger}] /\ \A s \in Seqs : index[s] # NoLedger => LedgerSeq[index[s]] = s
  BY ParameterAssumption DEF Init
<1>1. PeerTypes /\ AcquireTypes
  <2>1. held \subseteq Ledger
    BY <1>0, LedgerAssumption DEF Init
  <2> QED
    BY <2>1, LedgerAssumption, ParameterAssumption
       DEF Init, PeerTypes, AcquireTypes, NoJob, Job, BuildJob, Threads
<1>2. StreamTypes
  <2>1. fill = [at |-> "off", l |-> NoLedger, rows |-> {}] => fill \in FillJob /\ fill.at = "off"
    BY DEF FillJob
  <2>2. adv = [at |-> "off", todo |-> <<>>, missing |-> 0] => adv \in AdvanceThread
    BY DEF AdvanceThread
  <2> QED
    BY <1>0, <2>1, <2>2 DEF Init, StreamTypes
<1>3. StreamBegun /\ PublishedIsAccepted /\ PlanIsSound /\ WakeIsSeen
  BY LedgerFacts DEF Init, StreamBegun, PublishedIsAccepted, PlanIsSound, WakeIsSeen
<1>4. NoLostAdvance
  BY LedgerFacts DEF Init, NoLostAdvance
<1>5. RowsFit /\ HistoryIsOnChain /\ CompleteIsChain
  BY <1>0 DEF Init, RowsFit, HistoryIsOnChain, CompleteIsChain
<1> QED
  BY <1>1, <1>2, <1>3, <1>4, <1>5, IInvSplit DEF StreamInv

LEMMA StepKeeps ==
  ASSUME IInv, [Next]_vars
  PROVE  IInv'
<1>0. StreamInv /\ PeerTypes
  BY IInvSplit
<1>1. ASSUME Next PROVE StreamInv'
  <2>1. CASE AsideStep
    BY <1>0, <2>1, AsideKeeps
  <2>2. CASE \E l \in Ledger : AcceptStep(l)
    BY <1>0, <2>2, AcceptKeeps
  <2>3. CASE Advance
    BY <1>0, <2>3, HeadKeeps, FindKeeps, PublishKeeps, SetPubKeeps, HistoryKeeps, EndKeeps DEF Advance
  <2>4. CASE Fill
    BY <1>0, <2>4, FillReadKeeps, FillEndKeeps DEF Fill
  <2> QED
    BY <1>1, <2>1, <2>2, <2>3, <2>4, StepKinds
<1>2. ASSUME UNCHANGED vars PROVE StreamInv'
  <2>1. AsideStep
    BY <1>2 DEF vars, AsideStep, dbVars, histVars, advVars, acqVars
  <2> QED
    BY <1>0, <2>1, AsideKeeps
<1> QED
  BY <1>1, <1>2, PeerTypesKept, AcquireTypesKept, IInvSplitNext

(***************************************************************************)
(* The inductive invariant holds of every step of every thread.            *)
(***************************************************************************)
THEOREM MasterInvariance == Spec => []IInv
<1>1. Init => IInv
  BY InitHolds
<1>2. IInv /\ [Next]_vars => IInv'
  BY StepKeeps
<1> QED
  BY <1>1, <1>2, PTL DEF Spec

(***************************************************************************)
(* The complete sequences are rows of the validated chain, for every tree  *)
(* of ledgers and every table left by an earlier run, as long as no fork   *)
(* was accepted (setFullLedger, doAdvance, tryFill).                       *)
(***************************************************************************)
THEOREM CompleteStaysChain == Spec => []CompleteIsChain
<1>1. IInv => CompleteIsChain
  BY DEF IInv
<1> QED
  BY <1>1, MasterInvariance, PTL

(***************************************************************************)
(* No wake-up of the advance thread is lost (tryAdvance, doAdvance): the   *)
(* thread has ended only when everything validated is published or the     *)
(* next ledger to publish is being acquired.                               *)
(***************************************************************************)
THEOREM AdvanceNeverLost == Spec => []NoLostAdvance
<1>1. IInv => NoLostAdvance
  BY DEF IInv
<1> QED
  BY <1>1, MasterInvariance, PTL

-----------------------------------------------------------------------------
LEMMA StreamStepImplements ==
  ASSUME IInv, [Next]_vars
  PROVE  [Chain!Next]_(Chain!vars)
<1>0. StreamInv
  BY IInvSplit
<1> USE DEF Chain!vars
<1>1. CASE AsideStep
  BY <1>1 DEF AsideStep
<1>2. ASSUME NEW l \in Ledger, AcceptStep(l)
      PROVE  [Chain!Next]_(Chain!vars)
  <2>1. CASE UNCHANGED <<mValidLedger, accepted, mPubLedger>>
    BY <2>1
  <2>2. CASE ~UNCHANGED <<mValidLedger, accepted, mPubLedger>>
    <3>1. Chain!Accept(l)
      BY <1>2, <2>2 DEF AcceptStep, setValidLedger, Accepts, SeqOf, Chain!Accept
    <3> QED
      BY <3>1 DEF Chain!Next
  <2> QED
    BY <2>1, <2>2
<1>3. CASE doAdvanceHead
  <2>1. CASE headGap
    <3>1. Chain!Jump
      BY <1>3, <2>1 DEF doAdvanceHead, headGap, SeqOf, Chain!Jump
    <3> QED
      BY <3>1 DEF Chain!Next
  <2>2. CASE headFind \/ headHistory \/ headBusy
    BY <1>3, <2>2 DEF doAdvanceHead, headFind, headHistory, headBusy
  <2> QED
    BY <1>3, <2>1, <2>2 DEF doAdvanceHead
<1>4. CASE setPubLedger
  <2>1. adv.at = "setpub" /\ mPubLedger' = Head(adv.todo) /\ UNCHANGED <<mValidLedger, accepted>>
    BY <1>4 DEF setPubLedger
  <2>2. CASE Head(adv.todo) = mPubLedger
    BY <2>1, <2>2
  <2>3. CASE Head(adv.todo) # mPubLedger
    <3>1. PICK l \in accepted : /\ LedgerSeq[l] > SeqOf(mPubLedger)
                                /\ Head(adv.todo) = hashOfSeq(l, SeqOf(mPubLedger) + 1)
      BY <1>0, <2>1, <2>3, HeadOfPlan
    <3>2. mPubLedger # NoLedger
      BY <1>0, <2>1, HeadOfPlan, LedgerFacts
    <3>3. Chain!PublishNext
      BY <2>1, <3>1, <3>2 DEF SeqOf, hashOfSeq, Chain!PublishNext
    <3> QED
      BY <3>3 DEF Chain!Next
  <2> QED
    BY <2>2, <2>3
<1>5. CASE findNewLedgersToPublish \/ publishFull \/ fetchHistory \/ doAdvanceEnd
  BY <1>5 DEF findNewLedgersToPublish, publishFull, fetchHistory, doAdvanceEnd
<1>6. CASE Fill
  BY <1>6 DEF Fill, fillRead, fillEnd
<1>7. CASE UNCHANGED vars
  BY <1>7 DEF vars
<1> QED
  BY <1>1, <1>2, <1>3, <1>4, <1>5, <1>6, <1>7, StepKinds DEF Advance

(***************************************************************************)
(* The validated stream implements LedgerChain: the detailed handlers,     *)
(* with all their interleavings (checkAccept, consensusBuilt, switchLCL,   *)
(* LADispatch, doAdvance), accept ledgers of rising sequence and publish   *)
(* them one after another, or jump after a gap.                            *)
(***************************************************************************)
THEOREM StreamImplementsChain == Spec => ImplementsLedgerChain
<1>1. Init => Chain!Init
  BY DEF Init, Chain!Init
<1>2. IInv /\ [Next]_vars => [Chain!Next]_(Chain!vars)
  BY StreamStepImplements
<1>3. Spec => []IInv
  BY MasterInvariance
<1> QED
  BY <1>1, <1>2, <1>3, PTL DEF Spec, ImplementsLedgerChain, Chain!Spec

-----------------------------------------------------------------------------
(***************************************************************************)
(* No validation is overlooked, when the configured quorum is at least     *)
(* half of the validators, rounded down: two ledgers cannot both have more *)
(* current validations than that.  While a ledger that a majority          *)
(* validated is not the valid one, it is being acquired or offered, or     *)
(* some thread's checkAccept is at it, or the round that will look for     *)
(* saved validations (consensusBuilt) has not done so yet.                 *)
(***************************************************************************)
HalfQuorum == Cardinality(Validator) < 2 * (MinValidations + 1)

Underway(l) == l \in wanted \cup dispatched \cup failed \/ \E c \in Threads : call[c].at # "off" /\ call[c].l = l

ScanAhead(s) ==
  build.at \in {"build", "validate", "built", "check", "scan"} /\ LedgerSeq[build.l] >= s

CurrentIsCounted == \A v \in Validator : current[v] # NoLedger => v \in vals[current[v]]

BuildingIsBuilt ==
  mBuildingLedgerSeq # 0 =>
    build.at \in {"build", "validate", "built"} /\ LedgerSeq[build.l] = mBuildingLedgerSeq

HasMajority(l) == currentCount(l) > highestQuorum /\ LedgerSeq[l] > SeqOf(mValidLedger)

MajorityIsPending ==
  \A l \in Ledger : HasMajority(l) => Underway(l) \/ ScanAhead(LedgerSeq[l])

MajorityInv ==
  mMinValidations >= MinValidations /\ CurrentIsCounted /\ BuildingIsBuilt /\ MajorityIsPending

(***************************************************************************)
(* The counts and the quorums.                                             *)
(***************************************************************************)
LEMMA MaxIsLarger ==
  ASSUME NEW a \in Nat, NEW b \in Nat
  PROVE  Max({a, b}) = IF a >= b THEN a ELSE b
<1>1. \E x \in {a, b} : \A y \in {a, b} : x >= y
  OBVIOUS
<1> QED
  BY <1>1 DEF Max

LEMMA CountsAreBounded ==
  ASSUME PeerTypes, NEW l \in Ledger
  PROVE  /\ TrustedValidationCount(l) \in Nat /\ currentCount(l) \in Nat
         /\ TrustedValidationCount(l) <= Cardinality(Validator) /\ Cardinality(Validator) \in Nat
         /\ CurrentIsCounted => currentCount(l) <= TrustedValidationCount(l)
<1> DEFINE S == {v \in Validator : current[v] = l}
<1>1. vals[l] \in SUBSET Validator /\ S \in SUBSET Validator
  BY DEF PeerTypes
<1>2. IsFiniteSet(Validator) /\ IsFiniteSet(vals[l]) /\ IsFiniteSet(S)
  BY <1>1, ParameterAssumption, FS_Subset
<1>3. ASSUME CurrentIsCounted PROVE Cardinality(S) <= Cardinality(vals[l])
  <2>1. S \in SUBSET vals[l]
    BY <1>3, LedgerFacts DEF CurrentIsCounted
  <2> QED
    BY <1>2, <2>1, FS_Subset
<1>4. Cardinality(vals[l]) <= Cardinality(Validator)
  BY <1>1, <1>2, FS_Subset
<1>5. Cardinality(vals[l]) \in Nat /\ Cardinality(S) \in Nat /\ Cardinality(Validator) \in Nat
  BY <1>2, FS_CardinalityType
<1> QED
  BY <1>3, <1>4, <1>5 DEF TrustedValidationCount, currentCount

LEMMA ShareGrows ==
  ASSUME NEW a \in Nat, NEW b \in Nat, a <= b
  PROVE  (a * 150) \div 256 \in Nat /\ (a * 150) \div 256 <= (b * 150) \div 256
  OBVIOUS

LEMMA QuorumsAreOrdered ==
  ASSUME PeerTypes, mValidLedger \in Ledger \cup {NoLedger}
  PROVE  /\ getNeededValidations \in Nat /\ highestQuorum \in Nat
         /\ mMinValidations <= getNeededValidations /\ getNeededValidations <= highestQuorum
<1> DEFINE share(n) == (n * 150) \div 256
<1>1. mMinValidations \in Nat
  BY DEF PeerTypes
<1>2. Cardinality(Validator) \in Nat
  BY ParameterAssumption, FS_CardinalityType
<1>3. share(Cardinality(Validator)) \in Nat
  BY <1>2, ShareGrows
<1>4. highestQuorum \in Nat /\ highestQuorum >= mMinValidations
  BY <1>1, <1>3, MaxIsLarger DEF highestQuorum
<1>5. CASE mValidLedger = NoLedger
  BY <1>1, <1>4, <1>5 DEF getNeededValidations
<1>6. CASE mValidLedger # NoLedger
  <2>1. /\ TrustedValidationCount(mValidLedger) \in Nat
        /\ TrustedValidationCount(mValidLedger) <= Cardinality(Validator)
    BY <1>6, CountsAreBounded
  <2>2. /\ share(TrustedValidationCount(mValidLedger)) \in Nat
        /\ share(TrustedValidationCount(mValidLedger)) <= share(Cardinality(Validator))
    BY <1>2, <2>1, ShareGrows
  <2>3. /\ highestQuorum = Max({mMinValidations, share(Cardinality(Validator))})
        /\ getNeededValidations =
             Max({mMinValidations, share(TrustedValidationCount(mValidLedger))})
    BY <1>6 DEF highestQuorum, getNeededValidations
  <2> HIDE DEF share
  <2> QED
    BY <1>1, <1>3, <1>4, <2>2, <2>3, MaxIsLarger
<1> QED
  BY <1>5, <1>6

\* With HalfQuorum, only one ledger has more current validations than the quorum.
LEMMA OneMajority ==
  ASSUME HalfQuorum, PeerTypes, mMinValidations >= MinValidations,
         NEW k \in Ledger, NEW l \in Ledger,
         currentCount(k) > mMinValidations, currentCount(l) > mMinValidations
  PROVE  k = l
<1> SUFFICES ASSUME k # l PROVE FALSE
  OBVIOUS
<1> DEFINE S(x) == {v \in Validator : current[v] = x}
<1>1. S(k) \in SUBSET Validator /\ S(l) \in SUBSET Validator /\ S(k) \cap S(l) = {}
  OBVIOUS
<1>2. /\ IsFiniteSet(Validator) /\ IsFiniteSet(S(k)) /\ IsFiniteSet(S(l))
  BY <1>1, ParameterAssumption, FS_Subset
<1>3. Cardinality(S(k)) = currentCount(k) /\ Cardinality(S(l)) = currentCount(l)
  BY DEF currentCount
<1> HIDE DEF S
<1>4. Cardinality(S(k) \cup S(l)) = Cardinality(S(k)) + Cardinality(S(l)) - Cardinality(S(k) \cap S(l))
  BY <1>2, FS_Union
<1>5. Cardinality(S(k) \cap S(l)) = 0
  BY <1>1, FS_EmptySet
<1>6. Cardinality(S(k) \cup S(l)) <= Cardinality(Validator)
  BY <1>1, <1>2, FS_Subset
<1>7. /\ currentCount(k) \in Nat /\ currentCount(l) \in Nat /\ mMinValidations \in Nat
      /\ MinValidations \in Nat /\ Cardinality(Validator) \in Nat
  BY CountsAreBounded, ParameterAssumption DEF PeerTypes
<1> QED
  BY <1>3, <1>4, <1>5, <1>6, <1>7 DEF HalfQuorum

\* A ledger that a majority validated is accepted as soon as it is offered.
LEMMA MajorityAccepted ==
  ASSUME PeerTypes, mValidLedger \in Ledger \cup {NoLedger}, CurrentIsCounted,
         NEW l \in Ledger, currentCount(l) > highestQuorum, setValidLedger(l)
  PROVE  LedgerSeq[l] <= SeqOf(mValidLedger')
<1>1. TrustedValidationCount(l) >= getNeededValidations
  BY CountsAreBounded, QuorumsAreOrdered
<1>2. CASE LedgerSeq[l] > SeqOf(mValidLedger)
  BY <1>1, <1>2, LedgerFacts DEF setValidLedger, Accepts
<1>3. CASE ~(LedgerSeq[l] > SeqOf(mValidLedger))
  <2>1. mValidLedger' = mValidLedger
    BY <1>3 DEF setValidLedger, Accepts
  <2> QED
    BY <1>3, <2>1, LedgerFacts
<1> QED
  BY <1>2, <1>3

(***************************************************************************)
(* A step that adds no validation keeps MajorityIsPending if it leaves     *)
(* what is pending so, or makes the ledger (or a higher one) valid.        *)
(***************************************************************************)
Moves(l) ==
  \/ Underway(l)' \/ ScanAhead(LedgerSeq[l])'
  \/ LedgerSeq[l] <= SeqOf(mValidLedger')

LEMMA PendingMoves ==
  ASSUME PeerTypes, PeerTypes', MajorityIsPending, UNCHANGED valVars,
         {mValidLedger, mValidLedger'} \subseteq Ledger \cup {NoLedger},
         mMinValidations' >= mMinValidations, SeqOf(mValidLedger) <= SeqOf(mValidLedger'),
         \A l \in Ledger : currentCount(l) > highestQuorum /\ Underway(l) => Moves(l),
         \A l \in Ledger : HasMajority(l) /\ ScanAhead(LedgerSeq[l]) => Moves(l)
  PROVE  MajorityIsPending'
<1> SUFFICES ASSUME NEW l \in Ledger, HasMajority(l)'
             PROVE  Underway(l)' \/ ScanAhead(LedgerSeq[l])'
  BY DEF MajorityIsPending
<1>1. currentCount(l)' = currentCount(l)
  BY DEF currentCount, valVars
<1>2. highestQuorum \in Nat /\ highestQuorum' \in Nat /\ highestQuorum' >= highestQuorum
  <2> DEFINE share == (Cardinality(Validator) * 150) \div 256
  <2>1. Cardinality(Validator) \in Nat
    BY ParameterAssumption, FS_CardinalityType
  <2>2. share \in Nat
    BY <2>1, ShareGrows
  <2>3. highestQuorum = Max({mMinValidations, share}) /\ highestQuorum' = Max({mMinValidations', share})
    BY DEF highestQuorum
  <2>4. mMinValidations \in Nat /\ mMinValidations' \in Nat
    BY DEF PeerTypes
  <2> HIDE DEF share
  <2> QED
    BY <2>2, <2>3, <2>4, MaxIsLarger
<1>3. currentCount(l) \in Nat
  BY CountsAreBounded
<1>4. /\ SeqOf(mValidLedger) \in Nat /\ SeqOf(mValidLedger') \in Nat /\ LedgerSeq[l] \in Nat
  BY LedgerFacts
<1>5. currentCount(l) > highestQuorum
  BY <1>1, <1>2, <1>3 DEF HasMajority
<1>6. LedgerSeq[l] > SeqOf(mValidLedger')
  BY DEF HasMajority
<1>7. HasMajority(l)
  BY <1>4, <1>5, <1>6 DEF HasMajority
<1>8. Moves(l)
  BY <1>5, <1>7 DEF MajorityIsPending
<1> QED
  BY <1>4, <1>6, <1>8 DEF Moves

LEMMA AddKeepsMajority ==
  ASSUME IInv, MajorityInv, PeerTypes', NEW v \in Validator, NEW k \in Validated[v],
         addValidation(v, k)
  PROVE  MajorityInv'
<1>0. /\ PeerTypes /\ k \in Ledger /\ v \in Threads /\ TypeOK
      /\ mValidLedger \in Ledger \cup {NoLedger}
  BY IInvSplit, ParameterAssumption DEF Threads, StreamInv, StreamTypes, IInv
<1>1. /\ vals' = [vals EXCEPT ![k] = @ \cup {v}] /\ call[v].at = "off"
      /\ \/ /\ current' = [current EXCEPT ![v] = k]
            /\ call' = [call EXCEPT ![v] = [at |-> "count", l |-> k]]
         \/ UNCHANGED <<current, call>>
      /\ (build' = [build EXCEPT !.at = "built"] /\ build.at = "validate") \/ build' = build
      /\ UNCHANGED <<mValidLedger, mMinValidations, mBuildingLedgerSeq, wanted, dispatched, failed>>
  BY DEF addValidation, acqVars
<1>2. CurrentIsCounted'
  BY <1>0, <1>1 DEF MajorityInv, CurrentIsCounted, PeerTypes
<1>3. BuildingIsBuilt' /\ mMinValidations' >= MinValidations
  BY <1>0, <1>1 DEF MajorityInv, BuildingIsBuilt, PeerTypes, BuildJob
<1>4. MajorityIsPending'
  <2> SUFFICES ASSUME NEW l \in Ledger, HasMajority(l)'
               PROVE  Underway(l)' \/ ScanAhead(LedgerSeq[l])'
    BY DEF MajorityIsPending
  <2>1. CASE l = k /\ call' = [call EXCEPT ![v] = [at |-> "count", l |-> k]]
    BY <1>0, <2>1 DEF Underway, PeerTypes
  <2>2. CASE l # k \/ UNCHANGED <<current, call>>
    <3> DEFINE S == {u \in Validator : current[u] = l}
               T == {u \in Validator : current'[u] = l}
    <3>1. T \in SUBSET S
      BY <1>0, <1>1, <2>2 DEF PeerTypes
    <3>2. IsFiniteSet(S)
      BY ParameterAssumption, FS_Subset
    <3>3. currentCount(l)' <= currentCount(l)
      <4> HIDE DEF S, T
      <4>1. Cardinality(T) <= Cardinality(S)
        BY <3>1, <3>2, FS_Subset
      <4> QED
        BY <4>1 DEF currentCount, S, T
    <3>4. highestQuorum' = highestQuorum
      BY <1>1 DEF highestQuorum
    <3>5. currentCount(l) \in Nat /\ currentCount(l)' \in Nat /\ highestQuorum \in Nat
      <4>1. IsFiniteSet(T)
        BY ParameterAssumption, FS_Subset
      <4>2. Cardinality(T) \in Nat
        BY <4>1, FS_CardinalityType
      <4> QED
        BY <1>0, <4>2, CountsAreBounded, QuorumsAreOrdered DEF currentCount
    <3>6. HasMajority(l)
      BY <1>1, <3>3, <3>4, <3>5 DEF HasMajority
    <3>7. CASE Underway(l)
      <4>1. \A c \in Threads : call[c].at # "off" => call'[c] = call[c]
        BY <1>0, <1>1 DEF PeerTypes
      <4> QED
        BY <1>1, <3>7, <4>1 DEF Underway
    <3>8. CASE ScanAhead(LedgerSeq[l])
      BY <1>0, <1>1, <3>8 DEF ScanAhead, PeerTypes, BuildJob
    <3> QED
      BY <3>6, <3>7, <3>8 DEF MajorityInv, MajorityIsPending
  <2> QED
    BY <1>1, <2>1, <2>2
<1> QED
  BY <1>2, <1>3, <1>4 DEF MajorityInv

LEMMA ValidRises ==
  ASSUME mValidLedger \in Ledger \cup {NoLedger}, NEW k \in Ledger, setValidLedger(k)
  PROVE  mValidLedger' \in Ledger \cup {NoLedger} /\ SeqOf(mValidLedger) <= SeqOf(mValidLedger')
  BY LedgerFacts DEF setValidLedger, Accepts

LEMMA CallsKeepMajority ==
  ASSUME IInv, MajorityInv, PeerTypes', NEW c \in Threads, Calls(c)
  PROVE  MajorityInv'
<1>0. /\ PeerTypes /\ mValidLedger \in Ledger \cup {NoLedger} /\ mMinValidations \in Nat
      /\ call \in [Threads -> Job] /\ call[c].at # "off"
  BY IInvSplit DEF StreamInv, StreamTypes, PeerTypes, Calls, CountValidations, FindValidated,
                   AcceptValidated
<1>k. PICK k \in Ledger : k = call[c].l
  BY <1>0 DEF PeerTypes
<1> DEFINE Effects == /\ currentCount(k) > highestQuorum => Moves(k)
                      /\ mMinValidations' >= mMinValidations /\ mMinValidations' \in Nat
                      /\ mValidLedger' \in Ledger \cup {NoLedger}
                      /\ SeqOf(mValidLedger) <= SeqOf(mValidLedger')
<1>1. k \in Ledger /\ SeqOf(mValidLedger) \in Nat /\ LedgerSeq[k] \in Nat /\ LedgerSeq[k] # 0
  BY <1>0, LedgerFacts
<1>2. /\ UNCHANGED <<valVars, mBuildingLedgerSeq, build, dispatched>>
      /\ wanted \cup failed \subseteq wanted' \cup failed'
      /\ \A d \in Threads : d # c => call'[d] = call[d]
  <2>1. wanted \cup failed \subseteq wanted' \cup failed'
    BY AcquireEffects DEF Calls, CountValidations, FindValidated, AcceptValidated, acqVars
  <2> QED
    BY <1>0, <2>1 DEF Calls, CountValidations, FindValidated, AcceptValidated, acqVars
<1>3. ASSUME CountValidations(c) PROVE Effects
  <2>1. mMinValidations' \in {mMinValidations, Max({mMinValidations, TrustedValidationCount(k) \div 2 + 1})}
    BY <1>k, <1>3 DEF CountValidations
  <2>2. TrustedValidationCount(k) \div 2 + 1 \in Nat
    BY <1>0, <1>1, CountsAreBounded
  <2>3. mMinValidations' >= mMinValidations /\ mMinValidations' \in Nat
    BY <1>0, <2>1, <2>2, MaxOfTwo
  <2>4. mValidLedger' = mValidLedger
    BY <1>k, <1>3 DEF CountValidations
  <2>5. Moves(k)
    <3>1. CASE LedgerSeq[k] < SeqOf(mValidLedger)
      BY <1>1, <2>4, <3>1 DEF Moves
    <3>2. CASE ~(LedgerSeq[k] < SeqOf(mValidLedger))
      <4>1. call'[c] = [call[c] EXCEPT !.at = "test"]
        BY <1>k, <1>0, <1>3, <3>2 DEF CountValidations
      <4>2. call'[c].at # "off" /\ call'[c].l = k
        BY <1>k, <1>0, <4>1 DEF Job
      <4> QED
        BY <4>2 DEF Moves, Underway
    <3> QED
      BY <3>1, <3>2
  <2> QED
    BY <1>0, <1>1, <2>3, <2>4, <2>5
<1>4. ASSUME FindValidated(c) PROVE Effects
  <2>4. mValidLedger' = mValidLedger /\ mMinValidations' = mMinValidations
    BY <1>4 DEF FindValidated
  <2>5. Moves(k)
    <3>1. CASE LedgerSeq[k] = SeqOf(mValidLedger)
      BY <1>1, <2>4, <3>1 DEF Moves
    <3>2. CASE LedgerSeq[k] = mBuildingLedgerSeq
      <4>1. build' = build
        BY <1>2
      <4>2. build.at \in {"build", "validate", "built"} /\ LedgerSeq[build.l] = LedgerSeq[k]
        BY <1>1, <3>2 DEF MajorityInv, BuildingIsBuilt
      <4> QED
        BY <1>1, <4>1, <4>2 DEF Moves, ScanAhead
    <3>3. CASE LedgerSeq[k] # SeqOf(mValidLedger) /\ LedgerSeq[k] # mBuildingLedgerSeq /\ k \in held
      <4>1. call'[c] = [call[c] EXCEPT !.at = "accept"]
        BY <1>k, <1>0, <1>4, <3>3 DEF FindValidated
      <4>2. call'[c].at # "off" /\ call'[c].l = k
        BY <1>k, <1>0, <4>1 DEF Job
      <4> QED
        BY <4>2 DEF Moves, Underway
    <3>4. CASE LedgerSeq[k] # SeqOf(mValidLedger) /\ LedgerSeq[k] # mBuildingLedgerSeq /\ k \notin held
      <4>1. acquire({k})
        BY <1>k, <1>4, <3>4 DEF FindValidated
      <4>2. k \in wanted' \cup failed'
        BY <4>1, AcquireEffects
      <4> QED
        BY <4>2 DEF Moves, Underway
    <3> QED
      BY <3>1, <3>2, <3>3, <3>4
  <2> QED
    BY <1>0, <1>1, <2>4, <2>5
<1>5. ASSUME AcceptValidated(c) PROVE Effects
  <2>1. setValidLedger(k) /\ mMinValidations' = mMinValidations
    BY <1>k, <1>5 DEF AcceptValidated, checkAccept
  <2>2. currentCount(k) > highestQuorum => Moves(k)
    BY <1>0, <1>1, <2>1, MajorityAccepted DEF MajorityInv, Moves
  <2>3. mValidLedger' \in Ledger \cup {NoLedger} /\ SeqOf(mValidLedger) <= SeqOf(mValidLedger')
    BY <1>0, <1>1, <2>1, ValidRises
  <2> QED
    BY <1>0, <2>1, <2>2, <2>3
<1>6. Effects
  BY <1>3, <1>4, <1>5 DEF Calls
<1>7. ASSUME NEW l \in Ledger, currentCount(l) > highestQuorum, Underway(l)
      PROVE  Moves(l)
  <2>1. CASE l = k
    BY <1>6, <1>7, <2>1
  <2>2. CASE l # k
    BY <1>k, <1>2, <1>7, <2>2 DEF Underway, Moves
  <2> QED
    BY <2>1, <2>2
<1>8. ASSUME NEW l \in Ledger, ScanAhead(LedgerSeq[l])
      PROVE  Moves(l)
  BY <1>2, <1>8 DEF ScanAhead, Moves
<1>9. MajorityIsPending'
  BY <1>0, <1>2, <1>6, <1>7, <1>8, PendingMoves DEF MajorityInv
<1>10. CurrentIsCounted' /\ BuildingIsBuilt'
  BY <1>2 DEF MajorityInv, CurrentIsCounted, BuildingIsBuilt, valVars
<1>11. mMinValidations' >= MinValidations
  BY <1>0, <1>6, ParameterAssumption DEF MajorityInv
<1> QED
  BY <1>9, <1>10, <1>11 DEF MajorityInv

LEMMA RoundKeepsMajority ==
  ASSUME HalfQuorum, IInv, MajorityInv, PeerTypes',
         Consensus \/ \E l \in Built : setBuildingLedger(l)
  PROVE  MajorityInv'
<1>0. /\ PeerTypes /\ mValidLedger \in Ledger \cup {NoLedger} /\ mMinValidations \in Nat
      /\ build \in BuildJob /\ call \in [Threads -> Job] /\ SeqOf(mValidLedger) \in Nat
  BY IInvSplit, LedgerFacts DEF StreamInv, StreamTypes, PeerTypes
<1>1. /\ UNCHANGED <<valVars, wanted, dispatched, failed, mMinValidations>>
  BY DEF Consensus, storeLedger, consensusBuilt, checkBuilt, scanValidations, switchLCL,
         setBuildingLedger, acqVars
<1>2. \A c \in Threads : call[c].at # "off" => call'[c] = call[c]
  <2>1. CASE scanValidations
    <3>1. call' = call \/ \E l : call' = [call EXCEPT ![Builder] = [at |-> "count", l |-> l]]
      BY <2>1 DEF scanValidations
    <3>2. call[Builder].at = "off"
      BY <2>1 DEF scanValidations
    <3> QED
      BY <1>0, <3>1, <3>2
  <2> QED
    BY <2>1 DEF Consensus, storeLedger, consensusBuilt, checkBuilt, switchLCL, setBuildingLedger
<1>3. mValidLedger' \in Ledger \cup {NoLedger} /\ SeqOf(mValidLedger) <= SeqOf(mValidLedger')
  <2>1. CASE checkBuilt \/ switchLCL
    <3>1. build.l \in Ledger /\ setValidLedger(build.l)
      BY <1>0, <2>1 DEF checkBuilt, switchLCL, checkAccept, PeerTypes
    <3> QED
      BY <1>0, <3>1, ValidRises
  <2>2. CASE mValidLedger' = mValidLedger
    BY <1>0, <2>2
  <2> QED
    BY <2>1, <2>2 DEF Consensus, storeLedger, consensusBuilt, scanValidations, setBuildingLedger
<1>4. BuildingIsBuilt'
  <2>1. CASE \E l \in Built : setBuildingLedger(l)
    BY <2>1 DEF setBuildingLedger, BuildingIsBuilt
  <2>2. CASE storeLedger
    BY <1>0, <2>2 DEF MajorityInv, storeLedger, BuildingIsBuilt, BuildJob
  <2>3. CASE consensusBuilt
    BY <2>3 DEF consensusBuilt, BuildingIsBuilt
  <2>4. CASE checkBuilt \/ scanValidations \/ switchLCL
    BY <2>4 DEF MajorityInv, checkBuilt, scanValidations, switchLCL, BuildingIsBuilt
  <2> QED
    BY <2>1, <2>2, <2>3, <2>4 DEF Consensus
<1>5. ASSUME NEW l \in Ledger, Underway(l)
      PROVE  Moves(l)
  BY <1>1, <1>2, <1>5 DEF Underway, Moves
<1>6. ASSUME NEW l \in Ledger, HasMajority(l), ScanAhead(LedgerSeq[l])
      PROVE  Moves(l)
  <2>0. build.l \in Ledger /\ LedgerSeq[build.l] \in Nat /\ LedgerSeq[l] \in Nat
    BY <1>0, <1>6, LedgerFacts DEF ScanAhead, PeerTypes
  <2>1. CASE storeLedger
    BY <1>0, <1>6, <2>1 DEF storeLedger, ScanAhead, Moves, BuildJob
  <2>2. CASE consensusBuilt
    <3>1. build' = [build EXCEPT !.at = IF LedgerSeq[build.l] <= SeqOf(mValidLedger) THEN "switch"
                                                                               ELSE "check"]
      BY <2>2 DEF consensusBuilt
    <3>2. ~(LedgerSeq[build.l] <= SeqOf(mValidLedger))
      BY <1>0, <1>6, <2>0 DEF HasMajority, ScanAhead
    <3> QED
      BY <1>0, <1>6, <3>1, <3>2 DEF ScanAhead, Moves, BuildJob
  <2>3. CASE checkBuilt
    BY <1>0, <1>6, <2>3 DEF checkBuilt, ScanAhead, Moves, BuildJob
  <2>4. CASE scanValidations
    <3>1. ~(LedgerSeq[build.l] <= SeqOf(mValidLedger))
      BY <1>0, <1>6, <2>0 DEF HasMajority, ScanAhead
    <3>2. /\ getNeededValidations \in Nat /\ highestQuorum \in Nat /\ currentCount(l) \in Nat
          /\ mMinValidations <= getNeededValidations /\ getNeededValidations <= highestQuorum
      BY <1>0, QuorumsAreOrdered, CountsAreBounded
    <3>3. l \in candidates
      BY <1>6, <3>2 DEF candidates, HasMajority
    <3>4. PICK x \in candidates : call' = [call EXCEPT ![Builder] = [at |-> "count", l |-> x]]
      BY <2>4, <3>1, <3>3 DEF scanValidations
    <3>5. x \in Ledger /\ currentCount(x) > mMinValidations
      <4>1. x \in Ledger /\ currentCount(x) > getNeededValidations
        BY <3>4 DEF candidates
      <4>2. currentCount(x) \in Nat
        BY <1>0, <4>1, CountsAreBounded
      <4> QED
        BY <1>0, <3>2, <4>1, <4>2
    <3>6. currentCount(l) > mMinValidations
      BY <1>0, <1>6, <3>2 DEF HasMajority
    <3>7. x = l
      BY <1>0, <3>5, <3>6, OneMajority DEF MajorityInv
    <3>8. Builder \in Threads
      BY DEF Threads
    <3>9. call'[Builder].at # "off" /\ call'[Builder].l = l
      BY <1>0, <3>4, <3>7, <3>8
    <3> QED
      BY <3>8, <3>9 DEF Moves, Underway
  <2>5. CASE switchLCL \/ \E k \in Built : setBuildingLedger(k)
    BY <1>6, <2>5 DEF switchLCL, setBuildingLedger, ScanAhead
  <2> QED
    BY <2>1, <2>2, <2>3, <2>4, <2>5 DEF Consensus
<1>7. MajorityIsPending'
  BY <1>0, <1>1, <1>3, <1>5, <1>6, PendingMoves DEF MajorityInv
<1>8. CurrentIsCounted' /\ mMinValidations' >= MinValidations
  BY <1>1 DEF MajorityInv, CurrentIsCounted, valVars
<1> QED
  BY <1>4, <1>7, <1>8 DEF MajorityInv

LEMMA StreamKeepsMajority ==
  ASSUME IInv, MajorityInv, PeerTypes',
         \/ Advance \/ Fill \/ UNCHANGED vars
         \/ \E l \in Ledger : acquired(l) \/ logFailure(l) \/ LADispatch(l)
  PROVE  MajorityInv'
<1>0. /\ PeerTypes /\ mValidLedger \in Ledger \cup {NoLedger} /\ mMinValidations \in Nat
      /\ SeqOf(mValidLedger) \in Nat
  BY IInvSplit, LedgerFacts DEF StreamInv, StreamTypes, PeerTypes
<1>1. UNCHANGED <<valVars, mMinValidations, mBuildingLedgerSeq, build, call>>
  BY DEF Advance, doAdvanceHead, findNewLedgersToPublish, publishFull, setPubLedger, fetchHistory,
         doAdvanceEnd, Fill, fillRead, fillEnd, vars, acquired, logFailure, LADispatch
<1>2. ASSUME NEW k \in Ledger, LADispatch(k)
      PROVE  /\ mValidLedger' \in Ledger \cup {NoLedger} /\ SeqOf(mValidLedger) <= SeqOf(mValidLedger')
             /\ \A l \in Ledger : currentCount(l) > highestQuorum /\ Underway(l) => Moves(l)
  <2>1. setValidLedger(k) /\ UNCHANGED <<wanted, failed>> /\ dispatched' = dispatched \ {k}
    BY <1>2 DEF LADispatch
  <2>2. currentCount(k) > highestQuorum => Moves(k)
    BY <1>0, <2>1, MajorityAccepted DEF MajorityInv, Moves
  <2>3. \A l \in Ledger : l # k /\ Underway(l) => Moves(l)
    BY <1>1, <2>1 DEF Underway, Moves
  <2> QED
    BY <1>0, <2>1, <2>2, <2>3, ValidRises
<1>3. ASSUME Advance \/ Fill \/ UNCHANGED vars \/ \E k \in Ledger : acquired(k) \/ logFailure(k)
      PROVE  /\ mValidLedger' \in Ledger \cup {NoLedger} /\ SeqOf(mValidLedger) <= SeqOf(mValidLedger')
             /\ \A l \in Ledger : currentCount(l) > highestQuorum /\ Underway(l) => Moves(l)
  <2>1. mValidLedger' = mValidLedger
    BY <1>3 DEF Advance, doAdvanceHead, findNewLedgersToPublish, publishFull, setPubLedger,
                fetchHistory, doAdvanceEnd, Fill, fillRead, fillEnd, vars, acquired, logFailure
  <2>2. wanted \cup dispatched \cup failed \subseteq wanted' \cup dispatched' \cup failed'
    <3>1. ASSUME NEW k \in Ledger, acquired(k) \/ logFailure(k)
          PROVE  wanted \cup dispatched \cup failed \subseteq wanted' \cup dispatched' \cup failed'
      BY <3>1 DEF acquired, logFailure
    <3>2. ASSUME findNewLedgersToPublish \/ fetchHistory
          PROVE  wanted \cup dispatched \cup failed \subseteq wanted' \cup dispatched' \cup failed'
      BY <3>2, AcquireEffects DEF findNewLedgersToPublish, fetchHistory
    <3> QED
      BY <1>3, <3>1, <3>2
      DEF Advance, doAdvanceHead, publishFull, setPubLedger, doAdvanceEnd, Fill, fillRead, fillEnd, vars, acqVars
  <2> QED
    BY <1>0, <1>1, <2>1, <2>2 DEF Underway, Moves
<1>4. /\ mValidLedger' \in Ledger \cup {NoLedger} /\ SeqOf(mValidLedger) <= SeqOf(mValidLedger')
      /\ \A l \in Ledger : currentCount(l) > highestQuorum /\ Underway(l) => Moves(l)
  BY <1>2, <1>3
<1>5. \A l \in Ledger : ScanAhead(LedgerSeq[l]) => Moves(l)
  BY <1>1 DEF ScanAhead, Moves
<1>6. MajorityIsPending'
  BY <1>0, <1>1, <1>4, <1>5, PendingMoves DEF MajorityInv
<1> QED
  BY <1>1, <1>6 DEF MajorityInv, CurrentIsCounted, BuildingIsBuilt, valVars

LEMMA MajorityBegins == Init => MajorityInv
<1> SUFFICES ASSUME Init PROVE MajorityInv
  OBVIOUS
<1>1. PeerTypes /\ mValidLedger \in Ledger \cup {NoLedger}
  BY InitHolds, IInvSplit DEF StreamInv, StreamTypes
<1>2. ASSUME NEW l \in Ledger PROVE ~HasMajority(l)
  <2>1. {v \in Validator : current[v] = l} = {}
    BY LedgerFacts DEF Init
  <2>2. currentCount(l) = 0
    BY <2>1, FS_EmptySet DEF currentCount
  <2> QED
    BY <1>1, <2>2, QuorumsAreOrdered DEF HasMajority
<1> QED
  BY <1>2, ParameterAssumption
  DEF Init, MajorityInv, CurrentIsCounted, BuildingIsBuilt, MajorityIsPending

LEMMA MajorityKept ==
  ASSUME HalfQuorum, IInv, MajorityInv, [Next]_vars
  PROVE  MajorityInv'
<1>1. PeerTypes'
  BY PeerTypesKept
<1> QED
  BY <1>1, AddKeepsMajority, CallsKeepMajority, RoundKeepsMajority, StreamKeepsMajority DEF Next

(***************************************************************************)
(* No validation is overlooked by the threads that leave it to each other  *)
(* (checkAccept, setBuildingLedger, consensusBuilt): when every handler    *)
(* has run, no ledger newer than the valid one has a majority of current   *)
(* validations, and no wake-up of the advance thread was lost.  The        *)
(* hypothesis is that the configured quorum is at least half of the        *)
(* trusted validators, rounded down, however many these are; the quorum    *)
(* may still rise.                                                         *)
(***************************************************************************)
THEOREM MajorityNeverOverlooked == HalfQuorum => (Spec => []NothingOverlooked)
<1> SUFFICES ASSUME HalfQuorum PROVE Spec => []NothingOverlooked
  OBVIOUS
<1>1. Init => IInv /\ MajorityInv
  BY InitHolds, MajorityBegins
<1>2. IInv /\ MajorityInv /\ [Next]_vars => IInv' /\ MajorityInv'
  BY StepKeeps, MajorityKept
<1>3. IInv /\ MajorityInv => NothingOverlooked
  <2> SUFFICES ASSUME IInv, MajorityInv, Quiet, NEW l \in Ledger, currentCount(l) > highestQuorum
               PROVE  LedgerSeq[l] <= SeqOf(mValidLedger) \/ l \in failed
    BY DEF NothingOverlooked, MajorityIsAccepted, IInv
  <2>1. (Underway(l) => l \in failed) /\ ~ScanAhead(LedgerSeq[l])
    BY DEF Quiet, Underway, ScanAhead
  <2>2. SeqOf(mValidLedger) \in Nat /\ LedgerSeq[l] \in Nat
    BY IInvSplit, LedgerFacts DEF StreamInv, StreamTypes
  <2> QED
    BY <2>1, <2>2 DEF MajorityInv, MajorityIsPending, HasMajority
<1> QED
  BY <1>1, <1>2, <1>3, PTL DEF Spec

=============================================================================
