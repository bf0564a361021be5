---------------------------- MODULE LedgerMaster ----------------------------
(***************************************************************************)
(* LedgerMaster: which ledgers this server takes as fully validated, which *)
(* ones it publishes, and which ones it says it has.                       *)
(*                                                                         *)
(* Four kinds of thread meet here: the jobs that bring in one validation   *)
(* each (addValidation, then checkAccept of its hash), the consensus round *)
(* that builds a ledger (setBuildingLedger ... consensusBuilt, switchLCL), *)
(* the completion jobs of acquired ledgers (LADispatch), and the one       *)
(* advance thread (doAdvance) with the tryFill job it starts.  A step of   *)
(* this module is what one thread does between two points at which it      *)
(* takes or gives up m_mutex, or reads an atomic on its own.               *)
(*                                                                         *)
(* Left to other modules: a save reaches the ledger table at once (its     *)
(* delay and its failure are LedgerSave's), and an acquisition completes   *)
(* or fails sooner or later (LedgerAcquire's).  A ledger that was here can *)
(* be loaded: the exceptions for missing nodes are left out.               *)
(***************************************************************************)
EXTENDS Integers, Sequences, FiniteSets, FiniteSetsExt

CONSTANTS
  Ledger,         \* ledgers, named by their hashes
  NoLedger,       \* no ledger
  LedgerSeq,      \* LedgerSeq[l]: the sequence number of l
  Parent,         \* Parent[l]: the ledger before l, or NoLedger
  Genesis,        \* the ledger the server starts from
  Validator,      \* the trusted validators
  Self,           \* our own validator, or anything else when we do not validate
  Builder,        \* the consensus thread, when it calls checkAccept
  MinValidations, \* the configured quorum
  Strict,         \* mStrictValCount: the quorum never rises
  MaxGap,         \* MAX_LEDGER_GAP
  Skip,           \* the ledgers a skip list goes back (256 in the code)
  MaxAcquire,     \* the acquisitions one pass may start (3 in the code)
  LedgerHistory,  \* ledger_history_
  CanDelete,      \* SHAMapStore::getCanDelete
  FetchSize,      \* ledger_fetch_size_
  PriorIndex,     \* the ledger tables an earlier run may have left behind
  Validated,      \* bound: Validated[v], the ledgers validator v signs
  Built           \* bound: the ledgers our rounds build

Seqs == {LedgerSeq[l] : l \in Ledger}
Threads == Validator \cup {Builder}

ASSUME LedgerAssumption ==
  /\ NoLedger \notin Ledger
  /\ Genesis \in Ledger
  /\ LedgerSeq \in [Ledger -> Nat \ {0}]
  /\ Parent \in [Ledger -> Ledger \cup {NoLedger}]
  /\ \A l \in Ledger : IF Parent[l] = NoLedger THEN LedgerSeq[l] = 1
                                               ELSE LedgerSeq[l] = LedgerSeq[Parent[l]] + 1

ASSUME ParameterAssumption ==
  /\ IsFiniteSet(Validator) /\ Builder \notin Validator
  /\ MinValidations \in Nat /\ Strict \in BOOLEAN
  /\ MaxGap \in Nat /\ Skip \in Nat \ {0} /\ MaxAcquire \in Nat \ {0}
  /\ LedgerHistory \in Nat /\ CanDelete \in Nat /\ FetchSize \in Nat
  /\ PriorIndex \subseteq [Seqs -> Ledger \cup {NoLedger}]
  /\ \A rows \in PriorIndex : \A s \in Seqs : rows[s] # NoLedger => LedgerSeq[rows[s]] = s
  /\ Validated \in [Validator -> SUBSET Ledger] /\ Built \subseteq Ledger

VARIABLES
  vals,               \* Validations::mValidations: who validated each ledger
  current,            \* Validations::mCurrentValidations: each validator's newest
  mValidLedger,       \* the last fully validated ledger (and mLastValidateHash)
  accepted,           \* history: the ledgers mValidLedger has been
  mPubLedger,         \* the last published ledger
  mClosedLedger,      \* the last closed ledger
  mMinValidations,    \* the quorum now
  mBuildingLedgerSeq, \* the sequence the round is building, or 0
  mCompleteLedgers,   \* the sequences we say we have
  index,              \* the ledger table: the ledger saved for each sequence
  held,               \* ledgers getLedgerByHash finds
  wanted,             \* ledgers InboundLedgers is acquiring
  dispatched,         \* acquired ledgers whose LADispatch job is queued
  failed,             \* ledgers whose last acquisition failed
  mHistLedger,        \* the last ledger fetched for history
  fill,               \* the tryFill job and the rows it has read
  mAdvanceWork,       \* there is something to do for the advance thread
  adv,                \* the advance thread (mAdvanceThread: it is not "off")
  call,               \* a checkAccept(hash, seq) under way in each thread
  build               \* the consensus thread's accept

valVars  == <<vals, current>>
dbVars   == <<mCompleteLedgers, index>>
acqVars  == <<held, wanted, dispatched, failed>>
histVars == <<mHistLedger, fill>>
advVars  == <<mAdvanceWork, adv>>
vars == <<valVars, mValidLedger, accepted, mPubLedger, mClosedLedger, mMinValidations,
          mBuildingLedgerSeq, dbVars, acqVars, histVars, advVars, call, build>>

Chain == INSTANCE LedgerChain WITH valid <- mValidLedger, published <- mPubLedger

SeqOf(l) == Chain!SeqOf(l)
hashOfSeq(l, s) == Chain!HashOfSeq(l, s)

NoJob == [at |-> "off", l |-> NoLedger]

Init ==
  /\ vals = [l \in Ledger |-> {}] /\ current = [v \in Validator |-> NoLedger]
  /\ mValidLedger = NoLedger /\ accepted = {}
  /\ mPubLedger = NoLedger /\ mClosedLedger = Genesis
  /\ mMinValidations = MinValidations /\ mBuildingLedgerSeq = 0
  /\ mCompleteLedgers = {} /\ index \in PriorIndex
  /\ held = {Genesis} \cup ({index[s] : s \in Seqs} \ {NoLedger})
  /\ wanted = {} /\ dispatched = {} /\ failed = {}
  /\ mHistLedger = NoLedger /\ fill = [at |-> "off", l |-> NoLedger, rows |-> {}]
  /\ mAdvanceWork = FALSE /\ adv = [at |-> "off", todo |-> <<>>, missing |-> 0]
  /\ call = [c \in Threads |-> NoJob] /\ build = NoJob

(***************************************************************************)
(* The quorum, and what the server is able to accept now.                  *)
(***************************************************************************)
TrustedValidationCount(l) == Cardinality(vals[l])

getNeededValidations ==
  IF mValidLedger = NoLedger THEN mMinValidations
  ELSE Max({mMinValidations, (TrustedValidationCount(mValidLedger) * 150) \div 256})

\* Mutant: the sequence is not looked at again under m_mutex.
Accepts_Unordered(l) == TrustedValidationCount(l) >= getNeededValidations

Accepts(l) ==
  LedgerSeq[l] > SeqOf(mValidLedger) /\ TrustedValidationCount(l) >= getNeededValidations

(***************************************************************************)
(* InboundLedgers::acquire for the ledgers of S.  One that failed stays in *)
(* the list for a while, in which asking again has no effect.              *)
(***************************************************************************)
acquire(S) ==
  \E again \in SUBSET (S \cap failed) :
    /\ wanted' = wanted \cup (S \ failed) \cup again
    /\ failed' = failed \ again

(***************************************************************************)
(* tryAdvance, called when v is the valid ledger.                          *)
(***************************************************************************)
tryAdvance(v) ==
  /\ mAdvanceWork' = TRUE
  /\ adv' = IF adv.at = "off" /\ v # NoLedger THEN [adv EXCEPT !.at = "head"] ELSE adv

(***************************************************************************)
(* checkAccept(ledger) under m_mutex, up to its call of tryAdvance.  The   *)
(* first ledger accepted is saved and published on the spot.               *)
(***************************************************************************)
setValidLedger(l) ==
  IF Accepts(l)
  THEN /\ mValidLedger' = l /\ accepted' = accepted \cup {l}
       /\ mPubLedger' = IF mPubLedger = NoLedger THEN l ELSE mPubLedger
       /\ index' = IF mPubLedger = NoLedger THEN [index EXCEPT ![LedgerSeq[l]] = l] ELSE index
  ELSE UNCHANGED <<mValidLedger, accepted, mPubLedger, index>>

checkAccept(l) ==
  /\ setValidLedger(l)
  /\ IF Accepts(l) THEN tryAdvance(l) ELSE UNCHANGED advVars

-----------------------------------------------------------------------------
(***************************************************************************)
(* A validation arrives (recvValidation).  A validator signs ledgers of    *)
(* rising sequence; an older validation that is delivered late is counted  *)
(* for its ledger and then dropped.                                        *)
(***************************************************************************)
addValidation(v, l) ==
  /\ call[v].at = "off" /\ v \notin vals[l]
  /\ v = Self => build = [at |-> "validate", l |-> l]
  /\ vals' = [vals EXCEPT ![l] = @ \cup {v}]
  /\ IF LedgerSeq[l] > SeqOf(current[v])
     THEN /\ current' = [current EXCEPT ![v] = l]
          /\ call' = [call EXCEPT ![v] = [at |-> "count", l |-> l]]
     ELSE UNCHANGED <<current, call>>
  /\ build' = IF v = Self THEN [build EXCEPT !.at = "built"] ELSE build
  /\ UNCHANGED <<mValidLedger, accepted, mPubLedger, mClosedLedger, mMinValidations,
                 mBuildingLedgerSeq, dbVars, acqVars, histVars, advVars>>

(***************************************************************************)
(* checkAccept(hash, seq): count the validations and raise the quorum...   *)
(***************************************************************************)
CountValidations(c) ==
  LET l == call[c].l
      n == TrustedValidationCount(l)
  IN  /\ call[c].at = "count"
      /\ IF LedgerSeq[l] < SeqOf(mValidLedger)
         THEN call' = [call EXCEPT ![c] = NoJob] /\ UNCHANGED mMinValidations
         ELSE /\ call' = [call EXCEPT ![c].at = "test"]
              /\ mMinValidations' =
                   IF n >= mMinValidations /\ ~Strict THEN Max({mMinValidations, n \div 2 + 1})
                                                      ELSE mMinValidations
      /\ UNCHANGED <<valVars, mValidLedger, accepted, mPubLedger, mClosedLedger,
                     mBuildingLedgerSeq, dbVars, acqVars, histVars, advVars, build>>

(***************************************************************************)
(* ... leave it alone if the ledger is valid already or being built, else  *)
(* find it or ask for it ...                                               *)
(***************************************************************************)
FindValidated(c) ==
  LET l == call[c].l
      s == LedgerSeq[l]
      known == s = SeqOf(mValidLedger) \/ s = mBuildingLedgerSeq
  IN  /\ call[c].at = "test"
      /\ call' = IF ~known /\ l \in held THEN [call EXCEPT ![c].at = "accept"]
                                         ELSE [call EXCEPT ![c] = NoJob]
      /\ acquire(IF known \/ l \in held THEN {} ELSE {l})
      /\ UNCHANGED <<valVars, mValidLedger, accepted, mPubLedger, mClosedLedger, mMinValidations,
                     mBuildingLedgerSeq, dbVars, held, dispatched, histVars, advVars, build>>

\* ... and see whether it can be the new valid ledger.
AcceptValidated(c) ==
  /\ call[c].at = "accept"
  /\ checkAccept(call[c].l)
  /\ call' = [call EXCEPT ![c] = NoJob]
  /\ UNCHANGED <<valVars, mClosedLedger, mMinValidations, mBuildingLedgerSeq,
                 mCompleteLedgers, acqVars, histVars, build>>

-----------------------------------------------------------------------------
(***************************************************************************)
(* The consensus round's accept job: it announces the sequence it builds,  *)
(* stores the ledger, validates it if we are a validator, reports it       *)
(* (consensusBuilt) and makes it the last closed ledger (switchLCL).       *)
(***************************************************************************)
setBuildingLedger(l) ==
  /\ build.at = "off" /\ Parent[l] = mClosedLedger
  /\ mBuildingLedgerSeq' = LedgerSeq[l]
  /\ build' = [at |-> "build", l |-> l]
  /\ UNCHANGED <<valVars, mValidLedger, accepted, mPubLedger, mClosedLedger, mMinValidations,
                 dbVars, acqVars, histVars, advVars, call>>

storeLedger ==
  /\ build.at = "build"
  /\ held' = held \cup {build.l}
  /\ build' = [build EXCEPT !.at = IF Self \in Validator \ vals[build.l] THEN "validate" ELSE "built"]
  /\ UNCHANGED <<valVars, mValidLedger, accepted, mPubLedger, mClosedLedger, mMinValidations,
                 mBuildingLedgerSeq, dbVars, wanted, dispatched, failed, histVars, advVars, call>>

\* Mutant: the sequence being built is not reset.
consensusBuilt_NoReset ==
  /\ build.at = "built" /\ (Self \in Validator => call[Self].at = "off")
  /\ build' = [build EXCEPT !.at = IF LedgerSeq[build.l] <= SeqOf(mValidLedger) THEN "switch"
                                                                             ELSE "check"]
  /\ UNCHANGED <<valVars, mValidLedger, accepted, mPubLedger, mClosedLedger, mMinValidations,
                 mBuildingLedgerSeq, dbVars, acqVars, histVars, advVars, call>>

consensusBuilt ==
  /\ build.at = "built" /\ (Self \in Validator => call[Self].at = "off")
  /\ mBuildingLedgerSeq' = 0
  /\ build' = [build EXCEPT !.at = IF LedgerSeq[build.l] <= SeqOf(mValidLedger) THEN "switch"
                                                                             ELSE "check"]
  /\ UNCHANGED <<valVars, mValidLedger, accepted, mPubLedger, mClosedLedger, mMinValidations,
                 dbVars, acqVars, histVars, advVars, call>>

checkBuilt ==
  /\ build.at = "check"
  /\ checkAccept(build.l)
  /\ build' = [build EXCEPT !.at = "scan"]
  /\ UNCHANGED <<valVars, mClosedLedger, mMinValidations, mBuildingLedgerSeq,
                 mCompleteLedgers, acqVars, histVars, call>>

(***************************************************************************)
(* The validations saved up while we were building: of the ledgers with    *)
(* more than the needed number of current validations, a highest one.      *)
(***************************************************************************)
currentCount(l) == Cardinality({v \in Validator : current[v] = l})

candidates ==
  {l \in Ledger : LedgerSeq[l] > SeqOf(mValidLedger) /\ currentCount(l) > getNeededValidations}

scanValidations ==
  LET old == LedgerSeq[build.l] <= SeqOf(mValidLedger)
  IN  /\ build.at = "scan" /\ call[Builder].at = "off"
      /\ build' = [build EXCEPT !.at = "switch"]
      /\ IF old \/ candidates = {} THEN UNCHANGED call
         ELSE \E l \in {x \in candidates : \A y \in candidates : LedgerSeq[y] <= LedgerSeq[x]} :
                call' = [call EXCEPT ![Builder] = [at |-> "count", l |-> l]]
      /\ UNCHANGED <<valVars, mValidLedger, accepted, mPubLedger, mClosedLedger, mMinValidations,
                     mBuildingLedgerSeq, dbVars, acqVars, histVars, advVars>>

switchLCL ==
  /\ build.at = "switch" /\ call[Builder].at = "off"
  /\ mClosedLedger' = build.l
  /\ checkAccept(build.l)
  /\ build' = NoJob
  /\ UNCHANGED <<valVars, mMinValidations, mBuildingLedgerSeq, mCompleteLedgers, acqVars,
                 histVars, call>>

-----------------------------------------------------------------------------
(***************************************************************************)
(* InboundLedgers, as LedgerMaster sees it: an acquisition completes, and  *)
(* a job then offers the ledger to LedgerMaster, or it fails, and the job  *)
(* only notes that (logFailure).                                           *)
(***************************************************************************)
acquired(l) ==
  /\ l \in wanted
  /\ wanted' = wanted \ {l} /\ held' = held \cup {l} /\ dispatched' = dispatched \cup {l}
  /\ UNCHANGED <<valVars, mValidLedger, accepted, mPubLedger, mClosedLedger, mMinValidations,
                 mBuildingLedgerSeq, dbVars, failed, histVars, advVars, call, build>>

logFailure(l) ==
  /\ l \in wanted
  /\ wanted' = wanted \ {l} /\ failed' = failed \cup {l}
  /\ UNCHANGED <<valVars, mValidLedger, accepted, mPubLedger, mClosedLedger, mMinValidations,
                 mBuildingLedgerSeq, dbVars, held, dispatched, histVars, advVars, call, build>>

LADispatch(l) ==
  /\ l \in dispatched
  /\ dispatched' = dispatched \ {l}
  /\ setValidLedger(l)
  /\ tryAdvance(IF Accepts(l) THEN l ELSE mValidLedger)
  /\ UNCHANGED <<valVars, mClosedLedger, mMinValidations, mBuildingLedgerSeq,
                 mCompleteLedgers, held, wanted, failed, histVars, call, build>>

-----------------------------------------------------------------------------
(***************************************************************************)
(* What a ledger that joins the trusted chain does to the set of complete  *)
(* sequences and to the ledger table (setFullLedger): a row of another     *)
(* chain just below it is no longer complete, and if the sequence below is *)
(* still thought complete every sequence down to the first one on which    *)
(* the chains agree goes (fixMismatch).                                    *)
(***************************************************************************)
getHashByIndex(s) == IF s \in Seqs THEN index[s] ELSE NoLedger

\* The skip lists of l have the hash for s (hashOfSeq is not none).
knows(l, s) == LedgerSeq[l] - s <= Skip \/ s % Skip = 0

getLedgerBySeq(s) ==
  LET l == hashOfSeq(mValidLedger, s) IN
  IF ~knows(mValidLedger, s) THEN getHashByIndex(s) ELSE IF l \in held THEN l ELSE NoLedger

fixMismatch(l, have) ==
  {t \in have : \/ t >= LedgerSeq[l]
                \/ \E u \in have : /\ t <= u /\ u < LedgerSeq[l] /\ knows(l, u)
                                   /\ getLedgerBySeq(u) = hashOfSeq(l, u)}

setFullLedger(l) ==
  LET s == LedgerSeq[l]
      below == getHashByIndex(s - 1)
      kept == IF below \notin {NoLedger, Parent[l]} THEN mCompleteLedgers \ {s - 1}
                                                    ELSE mCompleteLedgers
  IN  /\ index' = [index EXCEPT ![s] = l]
      /\ mCompleteLedgers' = IF s - 1 \in kept THEN fixMismatch(l, kept \cup {s})
                                               ELSE kept \cup {s}

-----------------------------------------------------------------------------
(***************************************************************************)
(* doAdvance.  The head of its loop, under m_mutex: publish after a gap,   *)
(* look for the next ledgers to publish, or see what history is missing.   *)
(* Whether the server is idle and in sync enough to fetch history is left  *)
(* open.                                                                   *)
(***************************************************************************)
prevMissing(s) == Max({n \in 0 .. s - 1 : n \notin mCompleteLedgers})

shouldAcquire(s) ==
  LET now == SeqOf(mValidLedger) IN s >= now \/ s > CanDelete \/ now - s <= LedgerHistory

wantsHistory(s) ==
  s > 0 /\ shouldAcquire(s) /\ (fill.at = "off" \/ s > LedgerSeq[fill.l])

headGap ==
  /\ SeqOf(mValidLedger) > SeqOf(mPubLedger) + MaxGap
  /\ mPubLedger' = mValidLedger
  /\ adv' = [adv EXCEPT !.at = "full", !.todo = <<mValidLedger>>]
  /\ UNCHANGED mHistLedger

headFind ==
  /\ SeqOf(mValidLedger) \in SeqOf(mPubLedger) + 1 .. SeqOf(mPubLedger) + MaxGap
  /\ adv' = [adv EXCEPT !.at = "find", !.todo = <<mValidLedger>>]
  /\ UNCHANGED <<mPubLedger, mHistLedger>>

headHistory ==
  /\ SeqOf(mValidLedger) = SeqOf(mPubLedger)
  /\ LET missing == prevMissing(SeqOf(mPubLedger))
     IN  adv' = IF wantsHistory(missing)
                THEN [adv EXCEPT !.at = "history", !.missing = missing]
                ELSE [adv EXCEPT !.at = "off"]
  /\ UNCHANGED <<mPubLedger, mHistLedger>>

headBusy ==
  /\ SeqOf(mValidLedger) = SeqOf(mPubLedger)
  /\ mHistLedger' = NoLedger
  /\ adv' = [adv EXCEPT !.at = "off"]
  /\ UNCHANGED mPubLedger

doAdvanceHead ==
  /\ adv.at = "head"
  /\ mAdvanceWork' = FALSE
  /\ headGap \/ headFind \/ headHistory \/ headBusy
  /\ UNCHANGED <<valVars, mValidLedger, accepted, mClosedLedger, mMinValidations,
                 mBuildingLedgerSeq, dbVars, acqVars, fill, call, build>>

(***************************************************************************)
(* findNewLedgersToPublish with m_mutex released: the ledgers that follow  *)
(* the published one without a hole, up to the ledger that was valid at    *)
(* the head; the first MaxAcquire others are asked for.                    *)
(***************************************************************************)
findNewLedgersToPublish ==
  LET valid == Head(adv.todo)
      first == SeqOf(mPubLedger) + 1
      has == {s \in first .. LedgerSeq[valid] :
                s = LedgerSeq[valid] \/ hashOfSeq(valid, s) \in held}
      count == Cardinality({s \in has : first .. s \subseteq has})
      lacks == first .. LedgerSeq[valid] \ has
      asked == {s \in lacks : Cardinality({t \in lacks : t <= s}) <= MaxAcquire}
  IN  /\ adv.at = "find"
      /\ adv' = [at |-> IF count = 0 THEN "end" ELSE "full", missing |-> 0,
                 todo |-> [i \in 1 .. count |-> hashOfSeq(valid, first + i - 1)]]
      /\ acquire({hashOfSeq(valid, s) : s \in asked})
      /\ mHistLedger' = IF count = 0 THEN NoLedger ELSE mHistLedger
      /\ UNCHANGED <<valVars, mValidLedger, accepted, mPubLedger, mClosedLedger, mMinValidations,
                     mBuildingLedgerSeq, dbVars, held, dispatched, fill, mAdvanceWork, call, build>>

\* Publishing: each ledger joins the chain with m_mutex released ...
publishFull ==
  /\ adv.at = "full"
  /\ setFullLedger(Head(adv.todo))
  /\ adv' = [adv EXCEPT !.at = "setpub"]
  /\ UNCHANGED <<valVars, mValidLedger, accepted, mPubLedger, mClosedLedger, mMinValidations,
                 mBuildingLedgerSeq, acqVars, histVars, mAdvanceWork, call, build>>

\* ... and is then the published one.
setPubLedger ==
  /\ adv.at = "setpub"
  /\ mPubLedger' = Head(adv.todo)
  /\ adv' = [adv EXCEPT !.at = IF Len(adv.todo) = 1 THEN "head" ELSE "full",
                        !.todo = Tail(adv.todo)]
  /\ mAdvanceWork' = (mAdvanceWork \/ Len(adv.todo) = 1)
  /\ UNCHANGED <<valVars, mValidLedger, accepted, mClosedLedger, mMinValidations,
                 mBuildingLedgerSeq, dbVars, acqVars, histVars, call, build>>

(***************************************************************************)
(* The history branch with m_mutex released: the missing ledger joins the  *)
(* chain if we have it, and a tryFill job follows if its parent is in the  *)
(* table; otherwise the next FetchSize ledgers down are asked for.  If its *)
(* hash cannot be found the ledger above it is not complete any more.      *)
(***************************************************************************)
getCandidateLedger(s) == IF s % Skip = 0 THEN s ELSE (s + Skip) - (s % Skip)

\* The hash for s in the chain of ref, and the ledger that is asked for if it is
\* needed for that and is not here.
walkHashBySeq(s, ref) ==
  IF knows(ref, s) \/ hashOfSeq(ref, getCandidateLedger(s)) \in held THEN hashOfSeq(ref, s)
                                                                   ELSE NoLedger
walkAsks(s, ref) ==
  IF walkHashBySeq(s, ref) = NoLedger THEN {hashOfSeq(ref, getCandidateLedger(s))} ELSE {}

historyReference(s) == IF SeqOf(mHistLedger) >= s THEN mHistLedger ELSE mValidLedger
getLedgerHashForHistory(s) == walkHashBySeq(s, historyReference(s))
historyAsks(s) ==
  walkAsks(s, historyReference(s)) \cup ({getLedgerHashForHistory(s)} \ (held \cup {NoLedger}))

fetchHistory ==
  LET l == getLedgerHashForHistory(adv.missing)
      prefetch == {t \in 1 .. adv.missing : adv.missing - t < FetchSize}
  IN  /\ adv.at = "history"
      /\ \/ /\ l \in held
            /\ setFullLedger(l)
            /\ mHistLedger' = l
            /\ fill' = IF fill.at = "off" /\ getHashByIndex(LedgerSeq[l] - 1) = Parent[l]
                       THEN [at |-> "queued", l |-> l, rows |-> {}] ELSE fill
            /\ adv' = [adv EXCEPT !.at = "head", !.missing = 0]
            /\ mAdvanceWork' = TRUE
            /\ UNCHANGED <<wanted, failed>>
         \/ /\ l \notin held \cup {NoLedger}
            /\ acquire(UNION {historyAsks(s) : s \in {adv.missing} \cup prefetch})
            /\ adv' = [adv EXCEPT !.at = "end"]
            /\ UNCHANGED <<mAdvanceWork, dbVars, histVars>>
         \/ /\ l = NoLedger
            /\ acquire(historyAsks(adv.missing))
            /\ mCompleteLedgers' = mCompleteLedgers \ {adv.missing + 1}
            /\ adv' = [adv EXCEPT !.at = "head", !.missing = 0]
            /\ mAdvanceWork' = TRUE
            /\ UNCHANGED <<index, histVars>>
      /\ UNCHANGED <<valVars, mValidLedger, accepted, mPubLedger, mClosedLedger, mMinValidations,
                     mBuildingLedgerSeq, held, dispatched, call, build>>

\* Mutant: work that came in while m_mutex was released is forgotten.
doAdvanceEnd_Forgets ==
  /\ adv.at = "end"
  /\ adv' = [adv EXCEPT !.at = "off", !.missing = 0]
  /\ UNCHANGED <<valVars, mValidLedger, accepted, mPubLedger, mClosedLedger, mMinValidations,
                 mBuildingLedgerSeq, dbVars, acqVars, histVars, mAdvanceWork, call, build>>

\* The end of the loop, under m_mutex again: once more, or the thread ends.
doAdvanceEnd ==
  /\ adv.at = "end"
  /\ LET progress == adv.missing # 0 /\ SeqOf(mValidLedger) # SeqOf(mPubLedger)
     IN  /\ mAdvanceWork' = (mAdvanceWork \/ progress)
         /\ adv' = [adv EXCEPT !.at = IF mAdvanceWork' THEN "head" ELSE "off", !.missing = 0]
  /\ UNCHANGED <<valVars, mValidLedger, accepted, mPubLedger, mClosedLedger, mMinValidations,
                 mBuildingLedgerSeq, dbVars, acqVars, histVars, call, build>>

-----------------------------------------------------------------------------
(***************************************************************************)
(* tryFill: read the rows below the ledger, then extend the complete range *)
(* down the chain for as long as the rows agree with it.                   *)
(***************************************************************************)
fillRead ==
  /\ fill.at = "queued"
  /\ mCompleteLedgers' = mCompleteLedgers \cup {LedgerSeq[fill.l]}
  /\ fill' = [fill EXCEPT !.at = "read", !.rows = {index[s] : s \in Seqs} \ {NoLedger}]
  /\ UNCHANGED <<valVars, mValidLedger, accepted, mPubLedger, mClosedLedger, mMinValidations,
                 mBuildingLedgerSeq, index, acqVars, mHistLedger, advVars, call, build>>

\* Mutant: the rows are not compared with the chain of l.
fillRange_AnyRow(l, rows) ==
  {s \in 1 .. LedgerSeq[l] : \A t \in s .. LedgerSeq[l] - 1 : t \notin mCompleteLedgers}

fillRange(l, rows) ==
  {s \in 1 .. LedgerSeq[l] :
     \A t \in s .. LedgerSeq[l] - 1 : hashOfSeq(l, t) \in rows /\ t \notin mCompleteLedgers}

fillEnd ==
  /\ fill.at = "read"
  /\ mCompleteLedgers' = mCompleteLedgers \cup fillRange(fill.l, fill.rows)
  /\ fill' = [at |-> "off", l |-> NoLedger, rows |-> {}]
  /\ tryAdvance(mValidLedger)
  /\ UNCHANGED <<valVars, mValidLedger, accepted, mPubLedger, mClosedLedger, mMinValidations,
                 mBuildingLedgerSeq, index, acqVars, mHistLedger, call, build>>

-----------------------------------------------------------------------------
Calls(c) == CountValidations(c) \/ FindValidated(c) \/ AcceptValidated(c)
Consensus == storeLedger \/ consensusBuilt \/ checkBuilt \/ scanValidations \/ switchLCL
OwnValidation == \E v \in Validator : v = Self /\ \E l \in Validated[v] : addValidation(v, l)
Advance == \/ doAdvanceHead \/ findNewLedgersToPublish \/ publishFull \/ setPubLedger
           \/ fetchHistory \/ doAdvanceEnd
Fill == fillRead \/ fillEnd

Next ==
  \/ \E v \in Validator : \E l \in Validated[v] : addValidation(v, l)
  \/ \E c \in Threads : Calls(c)
  \/ \E l \in Built : setBuildingLedger(l)
  \/ \E l \in Ledger : acquired(l) \/ logFailure(l) \/ LADispatch(l)
  \/ Consensus \/ Advance \/ Fill

Spec == Init /\ [][Next]_vars

(***************************************************************************)
(* Every job runs to its end and every acquisition completes or fails;     *)
(* validations and rounds may stop coming.                                 *)
(***************************************************************************)
FairSpec ==
  /\ Spec
  /\ WF_vars(Consensus \/ OwnValidation) /\ WF_vars(Advance) /\ WF_vars(Fill)
  /\ WF_vars(\E c \in Threads : Calls(c))
  /\ WF_vars(\E l \in Ledger : acquired(l) \/ logFailure(l)) /\ WF_vars(\E l \in Ledger : LADispatch(l))

-----------------------------------------------------------------------------
Job == [at : {"off", "count", "test", "accept"}, l : Ledger \cup {NoLedger}]
BuildJob == [at : {"off", "build", "validate", "built", "check", "scan", "switch"},
             l : Ledger \cup {NoLedger}]
FillJob == [at : {"off", "queued", "read"}, l : Ledger \cup {NoLedger}, rows : SUBSET Ledger]
AdvanceThread == [at : {"off", "head", "find", "full", "setpub", "history", "end"},
                  todo : Seq(Ledger), missing : Nat]

\* The state's types.
TypeOK ==
  /\ vals \in [Ledger -> SUBSET Validator]
  /\ current \in [Validator -> Ledger \cup {NoLedger}]
  /\ {mValidLedger, mPubLedger, mHistLedger} \subseteq Ledger \cup {NoLedger}
  /\ accepted \subseteq Ledger /\ mClosedLedger \in Ledger
  /\ mMinValidations \in Nat /\ mBuildingLedgerSeq \in Nat
  /\ mCompleteLedgers \subseteq Seqs /\ index \in [Seqs -> Ledger \cup {NoLedger}]
  /\ held \subseteq Ledger /\ wanted \subseteq Ledger /\ dispatched \subseteq Ledger
  /\ failed \subseteq Ledger
  /\ fill \in FillJob /\ mAdvanceWork \in BOOLEAN /\ adv \in AdvanceThread
  /\ call \in [Threads -> Job] /\ build \in BuildJob

(***************************************************************************)
(* The validated stream that the rest of the server sees is the one of     *)
(* LedgerChain: no interleaving of validations, rounds, acquisitions and   *)
(* the advance thread moves the valid ledger back, skips a sequence, or    *)
(* publishes a ledger outside the accepted chains.                         *)
(***************************************************************************)
ImplementsLedgerChain == Chain!Spec

Quiet ==
  /\ build.at = "off" /\ \A c \in Threads : call[c].at = "off"
  /\ wanted = {} /\ dispatched = {}

(***************************************************************************)
(* Nothing validated is overlooked: once every handler has run, no ledger  *)
(* newer than the valid one has more current validations than any quorum   *)
(* that applied so far (the configured or raised one, or the share of the  *)
(* valid ledger's validations in getNeededValidations).  A validation that *)
(* came in while the round was building the same sequence was skipped by   *)
(* checkAccept and must be picked up by consensusBuilt.  Only a ledger     *)
(* whose acquisition failed is left alone.  The proofs show this for a     *)
(* configured quorum of half of the validators, rounded down, or more.     *)
(* With less, from six validators on, consensusBuilt may pick the one      *)
(* highest candidate, see it refused because late validations of the valid *)
(* ledger raised the share, and never look at the one below.               *)
(***************************************************************************)
highestQuorum == Max({mMinValidations, (Cardinality(Validator) * 150) \div 256})

MajorityIsAccepted ==
  Quiet => \A l \in Ledger : currentCount(l) > highestQuorum =>
                              LedgerSeq[l] <= SeqOf(mValidLedger) \/ l \in failed

(***************************************************************************)
(* No wake-up of the advance thread is lost: when it has ended with a      *)
(* validated ledger unpublished, the next ledger to publish is on its way, *)
(* and its arrival starts the thread again, or its acquisition failed: the *)
(* stream then waits for the next ledger that is accepted or acquired.     *)
(***************************************************************************)
NoLostAdvance ==
  adv.at = "off" /\ SeqOf(mValidLedger) > SeqOf(mPubLedger)
    => hashOfSeq(mValidLedger, SeqOf(mPubLedger) + 1) \in wanted \cup dispatched \cup failed

(***************************************************************************)
(* Neither a validation (checkAccept, consensusBuilt) nor a wake-up of the *)
(* advance thread (tryAdvance, doAdvance) is overlooked by the threads     *)
(* that leave it to each other.                                            *)
(***************************************************************************)
NothingOverlooked == MajorityIsAccepted /\ NoLostAdvance

\* The ledgers accepted so far are on one chain: no quorum signed a fork.
OneChain ==
  \A k, l \in accepted : LedgerSeq[k] <= LedgerSeq[l] => hashOfSeq(l, LedgerSeq[k]) = k

(***************************************************************************)
(* What we say we have is the validated chain: the row of the ledger table *)
(* for a complete sequence is the ledger that the valid one has there,     *)
(* whatever an earlier run left in the table and whichever of publication, *)
(* the fetching of history and tryFill ran last (setFullLedger, tryFill).  *)
(* Once ledgers of two chains were accepted nothing is claimed: the ledger *)
(* that fetchHistory takes and the one that a tryFill job was queued for   *)
(* may then be on the other chain.                                         *)
(***************************************************************************)
CompleteIsChain ==
  OneChain => \A s \in mCompleteLedgers :
                /\ s <= SeqOf(mValidLedger)
                /\ index[s] = hashOfSeq(mValidLedger, s)

(***************************************************************************)
(* The stream catches up: whenever validations pause, the published ledger *)
(* is the valid one again, also after acquiring the ledgers in between,    *)
(* unless the acquisition of the very next one failed.                     *)
(***************************************************************************)
CatchesUp ==
  []<>(\/ SeqOf(mPubLedger) = SeqOf(mValidLedger)
       \/ hashOfSeq(mValidLedger, SeqOf(mPubLedger) + 1) \in failed)
=============================================================================
