-------------------------- MODULE LedgerConsensus --------------------------
(***************************************************************************)
(* One round of ledger consensus as one node runs it: the object           *)
(* LedgerConsensusImp from its constructor to endConsensus, with the parts *)
(* of ConsensusImp, InboundTransactions and NetworkOPs its handlers call.  *)
(*                                                                         *)
(* Every handler runs under the master lock, so it is one action; the      *)
(* handlers are operators from the object's state to its next state,       *)
(* composed the way the code calls them.  Two things do not hold the       *)
(* master lock: InboundTransactions::giveSet, which publishes a set before *)
(* mapComplete is called, and most of accept, which is a job of its own.   *)
(*                                                                         *)
(* A transaction set is its own hash.  The other validators, the           *)
(* validations received, the clock and the arrival of sets and ledgers are *)
(* the environment: any order, any loss, any repetition.                   *)
(***************************************************************************)
EXTENDS DisputedTx

CONSTANTS
  Tx,             \* transactions
  Ledger,         \* closed ledgers the network may be on
  LedgerInfo,     \* their headers, as far as consensus reads them
  NoLedger,       \* no hash
  NewLedger,      \* the ledger this round builds
  CloseTime,      \* the close times clocks may show
  LaterTime,      \* the close times a peer may change its position to
  LastValidation, \* our last validation, from an earlier round
  IsValidator,    \* validation keys are configured
  PreviousProposers, PreviousMSeconds,  \* of the last round (ConsensusImp)
  Instant,        \* bound: readings of the clock since the round or phase began
  MaxProposeSeq,  \* bound: sequence numbers of proposals
  MaxProposals,   \* bound: proposals received
  ProposalsKept   \* proposals stored per peer (10 in storeProposal)

ASSUME LedgerConsensusAssumption ==
  /\ IsFiniteSet(Peer)
  /\ NoLedger \notin Ledger /\ NewLedger \notin Ledger /\ NoLedger # NewLedger
  /\ LedgerInfo \in [Ledger -> [seq : Nat, closeTime : Nat, closeAgree : BOOLEAN,
                                closeTimeResolution : {10, 20, 30, 60, 90, 120}]]
  /\ CloseTime \subseteq Nat \ {0} /\ LaterTime \subseteq Nat
  /\ LastValidation \in Ledger \cup {NoLedger}
  /\ IsValidator \in BOOLEAN
  /\ PreviousProposers \in Nat /\ PreviousMSeconds \in Nat \ {0}
  /\ Instant \subseteq Nat
  /\ MaxProposeSeq \in Nat /\ MaxProposals \in Nat /\ ProposalsKept \in Nat \ {0}

VARIABLES
  lc,         \* the consensus object (see Round)
  stored,     \* storedProposals_ of ConsensusImp, per peer in order of arrival
  received    \* number of proposals received

vars == <<lc, stored, received>>

TxSet == SUBSET Tx
seqJoin == 0
seqLeave == MaxProposeSeq + 2          \* 0xffffffff: above every other number
Position == [proposeSeq : 0..seqLeave, set : TxSet, closeTime : Nat]
NoPosition == [proposeSeq |-> -1, set |-> {}, closeTime |-> 0]
Proposal == [prevLedger : Ledger, pos : Position]

(***************************************************************************)
(* What a peer may send: its clock's time first, perhaps zero later; the   *)
(* other fields of a bow-out are never read.                               *)
(***************************************************************************)
PeerPosition ==
  [proposeSeq : {seqJoin}, set : TxSet, closeTime : CloseTime]
    \cup [proposeSeq : 1..MaxProposeSeq, set : TxSet, closeTime : LaterTime]
    \cup [proposeSeq : {seqLeave}, set : {{}}, closeTime : {0}]

Round == [
  state : {"open", "establish", "finished", "accepted", "ended"},
  mPrevLedgerHash : Ledger,            \* the network's last closed ledger
  mPreviousLedger : Ledger,            \* the one we work from
  mAcquiringLedger : Ledger \cup {NoLedger},
  mHaveCorrectLCL : BOOLEAN, mProposing : BOOLEAN, mValidating : BOOLEAN,
  mConsensusFail : BOOLEAN, mHaveCloseTimeConsensus : BOOLEAN,
  mCurrentMSeconds : Nat,              \* clock reading of the last timer
  sinceStart : Nat,                    \* lower bound of the next reading
  mOurPosition : Position \cup {NoPosition},
  mPeerPositions : [Peer -> Position \cup {NoPosition}],
  mAcquired : SUBSET TxSet,
  disputed : SUBSET Tx,                \* the keys of mDisputes
  mDisputes : [Tx -> Dispute],         \* its values, NewDispute(FALSE) elsewhere
  mCompares : SUBSET TxSet,
  mDeadNodes : SUBSET Peer,
  proposed : Position \cup {NoPosition},        \* what we broadcast last
  acquiring : SUBSET TxSet, complete : SUBSET TxSet,  \* InboundTransactions::m_map
  gotSet : SUBSET TxSet,               \* published, mapComplete not called yet
  lastValidation : Ledger \cup {NoLedger, NewLedger}, \* ConsensusImp::lastValidation_
  broadcast : SUBSET (Ledger \cup {NewLedger}),  \* validations sent to peers
  consensusSet : SUBSET Tx,            \* argument of accept
  built : {"no", "agreed", "disagreed"},  \* the new ledger and its close time flag
  builtTime : Nat,
  tried : BOOLEAN,                     \* accept has gone through mDisputes
  retried : SUBSET Tx]                 \* disputed transactions tried again

hasPosition(r) == r.mOurPosition # NoPosition
isBowOut(pos) == pos.proposeSeq = seqLeave
proposersOf(r) == {p \in Peer : r.mPeerPositions[p] # NoPosition}
NoPositions == [p \in Peer |-> NoPosition]
NoDisputes == [t \in Tx |-> NewDispute(FALSE)]

-----------------------------------------------------------------------------
(***************************************************************************)
(* Close times, relative to the ledger we work from.                       *)
(***************************************************************************)
mCloseResolution(r) ==
  LET info == LedgerInfo[r.mPreviousLedger]
  IN getNextLedgerTimeResolution(info.closeTimeResolution, info.closeAgree, info.seq + 1)

effective(r, closeTime) ==
  effectiveCloseTime(closeTime, mCloseResolution(r), LedgerInfo[r.mPreviousLedger].closeTime)

-----------------------------------------------------------------------------
(***************************************************************************)
(* InboundTransactions::getSet with acquire, for the sets in H: those that *)
(* are unknown are asked for.                                              *)
(***************************************************************************)
getSet(r, H) == [r EXCEPT !.acquiring = @ \cup (H \ r.complete)]

(***************************************************************************)
(* getTransactionTree for the sets in H: a set that is complete is taken.  *)
(***************************************************************************)
getTransactionTree(r, H) ==
  [getSet(r, H \ r.mAcquired) EXCEPT !.mAcquired = @ \cup (H \cap r.complete)]

(***************************************************************************)
(* addDisputedTransaction: our vote from our position, the peers' votes    *)
(* from those of their sets that we have.                                  *)
(***************************************************************************)
newDispute(r, t) ==
  LET known == {p \in proposersOf(r) : r.mPeerPositions[p].set \in r.mAcquired}
      yes == {p \in known : t \in r.mPeerPositions[p].set}
  IN setVote(NewDispute(hasPosition(r) /\ t \in r.mOurPosition.set), yes, known \ yes)

(***************************************************************************)
(* createDisputes of our position against each set in Others, which are    *)
(* marked as compared.                                                     *)
(***************************************************************************)
createDisputes(r, Others) ==
  LET ours == r.mOurPosition.set
      differences == UNION {(ours \ s) \cup (s \ ours) : s \in Others}
  IN [r EXCEPT
        !.mCompares = @ \cup Others,
        !.disputed = @ \cup differences,
        !.mDisputes = [t \in Tx |-> IF t \in differences \ r.disputed
                                      THEN newDispute(r, t) ELSE @[t]]]

\* Mutant: the votes are not adjusted.
adjustCount_Skipped(r, s, P) == r

(***************************************************************************)
(* Record on every dispute that the peers in P hold the set s.             *)
(***************************************************************************)
adjustCount(r, s, P) ==
  [r EXCEPT !.mDisputes = [t \in Tx |->
     IF t \notin r.disputed THEN @[t]
     ELSE IF t \in s THEN setVote(@[t], P, {}) ELSE setVote(@[t], {}, P)]]

\* Mutant: the votes of peers that leave stay.
removePeers_KeepVotes(r, P) ==
  [r EXCEPT !.mPeerPositions = [p \in Peer |-> IF p \in P THEN NoPosition ELSE @[p]]]

\* Mutant: the positions of peers that leave stay.
removePeers_KeepPositions(r, P) ==
  [r EXCEPT !.mDisputes = [t \in Tx |-> unVote(@[t], P)]]

(***************************************************************************)
(* The peers in P no longer take part.                                     *)
(***************************************************************************)
removePeers(r, P) ==
  [r EXCEPT !.mPeerPositions = [p \in Peer |-> IF p \in P THEN NoPosition ELSE @[p]],
            !.mDisputes = [t \in Tx |-> unVote(@[t], P)]]

(***************************************************************************)
(* InboundTransactions::giveSet: the set is complete.                      *)
(***************************************************************************)
giveSet(r, s) ==
  [r EXCEPT !.complete = @ \cup {s}, !.acquiring = @ \ {s}]

(***************************************************************************)
(* mapCompleteInternal: we have a set, acquired from the network or made   *)
(* by us.                                                                  *)
(***************************************************************************)
mapCompleteInternal(r, s, acquired) ==
  LET given == IF acquired THEN r ELSE giveSet(r, s)
      compared ==
        IF hasPosition(r) /\ ~isBowOut(r.mOurPosition) /\ s # r.mOurPosition.set
          THEN createDisputes(given, {s}) ELSE given
      known == [compared EXCEPT !.mAcquired = @ \cup {s}]
  IN IF s \in r.mAcquired THEN r
     ELSE adjustCount(known, s, {p \in proposersOf(r) : r.mPeerPositions[p].set = s})

(***************************************************************************)
(* peerPosition: proposals of dead nodes and old sequence numbers are      *)
(* ignored, and a bow-out is final for this ledger.                        *)
(***************************************************************************)
ignores(r, p, pos) ==
  \/ p \in r.mDeadNodes
  \/ p \in proposersOf(r) /\ pos.proposeSeq <= r.mPeerPositions[p].proposeSeq

peerPosition(r, p, pos) ==
  LET left == [removePeers(r, {p}) EXCEPT !.mDeadNodes = @ \cup {p}]
      moved == getTransactionTree(
                 [r EXCEPT !.mPeerPositions[p] = pos], {pos.set})
  IN IF ignores(r, p, pos) THEN r
     ELSE IF isBowOut(pos) THEN left
     ELSE IF pos.set \in moved.mAcquired THEN adjustCount(moved, pos.set, {p})
     ELSE moved

(***************************************************************************)
(* playbackProposals, on an object without positions and disputes: for     *)
(* each peer, the stored proposals for this ledger are handled in order.   *)
(* Only those above all earlier ones count, and a bow-out ends the list.   *)
(***************************************************************************)
playbackProposals(r, sto) ==
  LET seqAt(p, i) == sto[p][i].pos.proposeSeq
      mine(p) == {i \in DOMAIN sto[p] : sto[p][i].prevLedger = r.mPrevLedgerHash}
      counted(p) == {i \in mine(p) : \A j \in mine(p) : j < i => seqAt(p, j) < seqAt(p, i)}
      leaves(p) == \E i \in counted(p) : seqAt(p, i) = seqLeave
      latest(p) == sto[p][CHOOSE i \in counted(p) : \A j \in counted(p) : j <= i].pos
      present == {p \in Peer : counted(p) # {} /\ ~leaves(p)}
      sets == UNION {{sto[p][i].pos.set : i \in
                        {k \in counted(p) : seqAt(p, k) # seqLeave}} : p \in Peer}
  IN getTransactionTree([r EXCEPT !.mPeerPositions = [p \in Peer |->
                                    IF p \in present THEN latest(p) ELSE NoPosition],
                                  !.mDeadNodes = {p \in Peer : leaves(p)}], sets)

-----------------------------------------------------------------------------
propose(r) == [r EXCEPT !.proposed = r.mOurPosition]

(***************************************************************************)
(* handleLCL: the network's last closed ledger is lcl.  "got" says whether *)
(* LedgerMaster has it.                                                    *)
(***************************************************************************)
bowOut(r) ==
  IF r.mHaveCorrectLCL /\ r.mProposing /\ hasPosition(r)
    THEN propose([r EXCEPT !.mOurPosition.proposeSeq = seqLeave]) ELSE r

\* Mutant: the node goes on proposing.
startOver_Proposing(r, lcl) ==
  [bowOut(r) EXCEPT !.mPrevLedgerHash = lcl,
                    !.mPeerPositions = NoPositions, !.mDeadNodes = {},
                    !.disputed = {}, !.mDisputes = NoDisputes]

startOver(r, lcl) ==
  [bowOut(r) EXCEPT !.mPrevLedgerHash = lcl, !.mProposing = FALSE,
                    !.mPeerPositions = NoPositions, !.mDeadNodes = {},
                    !.disputed = {}, !.mDisputes = NoDisputes]

handleLCL(r, lcl, got, sto) ==
  LET on == IF lcl = r.mPrevLedgerHash THEN r ELSE playbackProposals(startOver(r, lcl), sto)
  IN CASE on.mPreviousLedger = lcl -> on
       [] on.mPreviousLedger # lcl /\ got ->
            [on EXCEPT !.mPreviousLedger = lcl, !.mHaveCorrectLCL = TRUE]
       [] on.mPreviousLedger # lcl /\ ~got ->
            IF on.mAcquiringLedger = lcl THEN on
            ELSE [on EXCEPT !.mAcquiringLedger = lcl, !.mHaveCorrectLCL = FALSE]

(***************************************************************************)
(* checkLCL: netLgr is the ledger most validations favour.                 *)
(***************************************************************************)
checkLCL(r, netLgr, got, sto) ==
  IF netLgr # r.mPrevLedgerHash \/ r.mPreviousLedger # r.mPrevLedgerHash
    THEN handleLCL(r, netLgr, got, sto) ELSE r

-----------------------------------------------------------------------------
(***************************************************************************)
(* checkOurValidation: a partial validation of the ledger we work from, if *)
(* we did not validate it.  It is recorded, and not sent to anybody.       *)
(***************************************************************************)
owesValidation(r) ==
  /\ r.mHaveCorrectLCL /\ IsValidator
  /\ r.lastValidation # r.mPrevLedgerHash
  /\ r.lastValidation \in Ledger =>
       LedgerInfo[r.lastValidation].seq # LedgerInfo[r.mPreviousLedger].seq

checkOurValidation(r) ==
  IF owesValidation(r) THEN [r EXCEPT !.lastValidation = r.mPreviousLedger] ELSE r

(***************************************************************************)
(* takeInitialPosition with the transactions of the open ledger.           *)
(***************************************************************************)
takeInitialPosition(r, initialSet, closeTime) ==
  LET have == mapCompleteInternal(r, initialSet, FALSE)
      taken == [have EXCEPT
        !.mOurPosition = [proposeSeq |-> seqJoin, set |-> initialSet, closeTime |-> closeTime],
        !.mDisputes = [t \in Tx |-> IF t \notin have.disputed THEN @[t]
                                      ELSE [@[t] EXCEPT !.mOurVote = t \in initialSet]]]
      contrary == {taken.mPeerPositions[p].set : p \in proposersOf(taken)} \cap taken.mAcquired
      disputed == createDisputes(taken, contrary)
  IN IF r.mProposing THEN propose(disputed) ELSE disputed

closeLedger(r, openTxs, closeTime) ==
  takeInitialPosition(
    [checkOurValidation(r) EXCEPT !.state = "establish", !.sinceStart = 0],
    openTxs, closeTime)

(***************************************************************************)
(* statePreClose: "sinceClose" is the time since the last ledger's close,  *)
(* "validated" the number of validations of it we have.                    *)
(***************************************************************************)
idleInterval(r) ==
  LET twice == 2 * LedgerInfo[r.mPreviousLedger].closeTimeResolution
  IN IF twice > LEDGER_IDLE_INTERVAL THEN twice ELSE LEDGER_IDLE_INTERVAL

statePreClose(r, openTxs, closeTime, validated, sinceClose) ==
  IF shouldCloseLedger(openTxs # {}, PreviousProposers, Cardinality(proposersOf(r)),
                       validated, PreviousMSeconds, sinceClose,
                       r.mCurrentMSeconds, idleInterval(r))
    THEN closeLedger(r, openTxs, closeTime) ELSE r

-----------------------------------------------------------------------------
mClosePercent(r) == (r.mCurrentMSeconds * 100) \div PreviousMSeconds

(***************************************************************************)
(* The close times proposed, ours too if we propose, and how many propose  *)
(* each.  The most popular one wins if it has enough votes for the time    *)
(* the round has taken, the latest of several; otherwise zero is proposed. *)
(***************************************************************************)
closeTimes(r) ==
  {effective(r, r.mPeerPositions[p].closeTime) : p \in proposersOf(r)}
    \cup (IF r.mProposing THEN {effective(r, r.mOurPosition.closeTime)} ELSE {})

votesFor(r, c) ==
  Cardinality({p \in proposersOf(r) : effective(r, r.mPeerPositions[p].closeTime) = c})
    + (IF r.mProposing /\ effective(r, r.mOurPosition.closeTime) = c THEN 1 ELSE 0)

participants(r) == Cardinality(proposersOf(r)) + (IF r.mProposing THEN 1 ELSE 0)

threshVote(r) == participantsNeeded(participants(r), neededWeight(mClosePercent(r)))

\* Mutant: the avalanche's threshold is taken for the one of close times.
threshConsensus_Initial(r) == participantsNeeded(participants(r), AV_INIT_CONSENSUS_PCT)

threshConsensus(r) == participantsNeeded(participants(r), AV_CT_CONSENSUS_PCT)

closeTimeVote(r) ==
  LET best == CHOOSE c \in closeTimes(r) : \A d \in closeTimes(r) :
                \/ votesFor(r, d) < votesFor(r, c)
                \/ votesFor(r, d) = votesFor(r, c) /\ d <= c
      enough == votesFor(r, best) >= threshVote(r)
  IN IF proposersOf(r) = {}
       THEN [closeTime |-> effective(r, r.mOurPosition.closeTime), agreed |-> TRUE]
       ELSE [closeTime |-> IF enough THEN best ELSE 0,
             agreed |-> enough /\ votesFor(r, best) >= threshConsensus(r)]

\* Mutant: the sequence number is not incremented.
changePosition_SameSeq(r, set, closeTime) ==
  IF isBowOut(r.mOurPosition) THEN r
  ELSE LET moved == [r EXCEPT !.mOurPosition.set = set, !.mOurPosition.closeTime = closeTime]
       IN mapCompleteInternal(IF r.mProposing THEN propose(moved) ELSE moved, set, FALSE)

(***************************************************************************)
(* LedgerProposal::changePosition: nothing after a bow-out.                *)
(***************************************************************************)
changePosition(r, set, closeTime) ==
  IF isBowOut(r.mOurPosition) THEN r
  ELSE LET moved == [r EXCEPT !.mOurPosition =
                       [proposeSeq |-> @.proposeSeq + 1, set |-> set, closeTime |-> closeTime]]
       IN mapCompleteInternal(IF r.mProposing THEN propose(moved) ELSE moved, set, FALSE)

(***************************************************************************)
(* updateOurPositions: the positions of the peers in "stale" expire, our   *)
(* votes follow the avalanche, and so does our position.                   *)
(***************************************************************************)
updateOurPositions(r, stale, oursStale) ==
  LET fresh == removePeers(r, stale)
      voted == [fresh EXCEPT !.mDisputes =
                  [t \in Tx |-> updateVote(@[t], mClosePercent(r), r.mProposing)]]
      flipped == {t \in fresh.disputed :
                    voted.mDisputes[t].mOurVote # fresh.mDisputes[t].mOurVote}
      nowYes == {t \in flipped : voted.mDisputes[t].mOurVote}
      ct == closeTimeVote(voted)
      timed == [voted EXCEPT !.mHaveCloseTimeConsensus = ct.agreed]
      changes == flipped # {} \/ ct.closeTime # r.mOurPosition.closeTime \/ oursStale
  IN IF changes
       THEN changePosition(timed, (r.mOurPosition.set \cup nowYes) \ (flipped \ nowYes),
                           ct.closeTime)
       ELSE timed

(***************************************************************************)
(* haveConsensus: disputes with the positions not compared yet, then the   *)
(* decision; "finished" is the number of validators past this ledger.      *)
(***************************************************************************)
agreeing(r) == {p \in proposersOf(r) : r.mPeerPositions[p].set = r.mOurPosition.set}

\* Mutant: the sets are marked as compared, and not compared.
compareAll_MarkOnly(r) ==
  [r EXCEPT !.mCompares = @ \cup ({r.mPeerPositions[p].set : p \in proposersOf(r)}
                                    \cap r.mAcquired)]

compareAll(r) ==
  createDisputes(r, {r.mPeerPositions[p].set : p \in proposersOf(r) \ agreeing(r)}
                      \cap (r.mAcquired \ r.mCompares))

consensusState(r, finished) ==
  checkConsensus(PreviousProposers, Cardinality(proposersOf(r)), Cardinality(agreeing(r)),
                 finished, PreviousMSeconds, r.mCurrentMSeconds)

beginAccept(r) ==
  [r EXCEPT !.state = "finished", !.consensusSet = r.mOurPosition.set]

stateEstablish(r, stale, oursStale, finished) ==
  LET updated == updateOurPositions(r, stale, oursStale)
      compared == compareAll(updated)
      ret == consensusState(compared, finished)
      decided == [compared EXCEPT !.mConsensusFail = ret = "MovedOn"]
  IN IF r.mCurrentMSeconds < LEDGER_MIN_CONSENSUS THEN r
     ELSE IF ret = "No" THEN compared
     ELSE IF ~decided.mHaveCloseTimeConsensus THEN decided
     ELSE beginAccept(decided)

-----------------------------------------------------------------------------
(***************************************************************************)
(* The constructor.  NetworkOPs demotes itself from omFULL before it       *)
(* starts a round with a ledger that is not the network's, so a node that  *)
(* may propose ("full") starts on the network's ledger.  If LedgerMaster   *)
(* has the network's ledger, the constructor's call of handleLCL moves to  *)
(* it at once: that is Start on it, and not full.                          *)
(***************************************************************************)
Start(prevLCLHash, previousLedger, full) ==
  [state |-> "open",
   mPrevLedgerHash |-> prevLCLHash, mPreviousLedger |-> previousLedger,
   mAcquiringLedger |-> IF prevLCLHash = previousLedger THEN NoLedger ELSE prevLCLHash,
   mHaveCorrectLCL |-> prevLCLHash = previousLedger,
   mProposing |-> IsValidator /\ full, mValidating |-> IsValidator,
   mConsensusFail |-> FALSE, mHaveCloseTimeConsensus |-> FALSE,
   mCurrentMSeconds |-> 0, sinceStart |-> 0,
   mOurPosition |-> NoPosition, mPeerPositions |-> NoPositions,
   mAcquired |-> {}, disputed |-> {}, mDisputes |-> NoDisputes,
   mCompares |-> {}, mDeadNodes |-> {},
   proposed |-> NoPosition, acquiring |-> {}, complete |-> {{}}, gotSet |-> {},
   lastValidation |-> LastValidation, broadcast |-> {},
   consensusSet |-> {}, built |-> "no", builtTime |-> 0, tried |-> FALSE, retried |-> {}]

Init ==
  /\ \E prevLCLHash, previousLedger \in Ledger, full \in BOOLEAN :
       /\ full => prevLCLHash = previousLedger
       /\ lc = Start(prevLCLHash, previousLedger, full)
  /\ stored = [p \in Peer |-> <<>>]
  /\ received = 0

(***************************************************************************)
(* timerEntry, by state: checkLCL first while the round is open, then the  *)
(* handler of the state.  The inputs are the clock's reading, the ledger   *)
(* the validations favour, whether LedgerMaster has it, and what the       *)
(* handler reads from elsewhere.                                           *)
(***************************************************************************)
Ticked(now, netLgr, got) ==
  [checkLCL(lc, netLgr, got, stored) EXCEPT !.mCurrentMSeconds = now, !.sinceStart = now]

TimerOpen(now, netLgr, got, openTxs, closeTime, validated, sinceClose) ==
  /\ lc.state = "open"
  /\ now >= lc.sinceStart
  /\ lc' = statePreClose(Ticked(now, netLgr, got), openTxs, closeTime, validated, sinceClose)
  /\ UNCHANGED <<stored, received>>

TimerEstablish(now, netLgr, got, stale, oursStale, finished) ==
  /\ lc.state = "establish"
  /\ now >= lc.sinceStart
  /\ oursStale => now >= PROPOSE_INTERVAL * 1000
  /\ lc' = stateEstablish(Ticked(now, netLgr, got), stale, oursStale, finished)
  /\ lc'.mOurPosition.proposeSeq = MaxProposeSeq + 1 => lc'.state = "finished"
  /\ UNCHANGED <<stored, received>>

TimerAccepted ==
  /\ lc.state = "accepted"
  /\ lc' = [lc EXCEPT !.state = "ended"]
  /\ UNCHANGED <<stored, received>>

(***************************************************************************)
(* processTrustedProposal: the proposal is stored, and handled if it is    *)
(* for the ledger we are on.                                               *)
(***************************************************************************)
storeProposal(s, q) ==
  Append(IF Len(s) >= ProposalsKept THEN Tail(s) ELSE s, q)

ReceiveProposal(p, q) ==
  /\ lc.state # "ended"
  /\ received < MaxProposals
  /\ received' = received + 1
  /\ stored' = [stored EXCEPT ![p] = storeProposal(@, q)]
  /\ lc' = IF q.prevLedger = lc.mPrevLedgerHash THEN peerPosition(lc, p, q.pos) ELSE lc

(***************************************************************************)
(* TransactionAcquire has the whole set: giveSet publishes it, without the *)
(* master lock, and then calls mapComplete, which waits for the lock.      *)
(***************************************************************************)
GiveSet(s) ==
  /\ s \in lc.acquiring
  /\ lc' = [giveSet(lc, s) EXCEPT !.gotSet = @ \cup {s}]
  /\ UNCHANGED <<stored, received>>

MapComplete(s) ==
  /\ s \in lc.gotSet
  /\ lc' = [IF lc.state = "ended" THEN lc ELSE mapCompleteInternal(lc, s, TRUE)
              EXCEPT !.gotSet = @ \ {s}]
  /\ UNCHANGED <<stored, received>>

(***************************************************************************)
(* The accept job, which holds no lock: first the new ledger is built and  *)
(* validated, unless it conflicts with one that is validated already       *)
(* ("compatible"); then the disputed transactions we voted against are     *)
(* picked to be tried again; then, with the master lock, the new open      *)
(* ledger is made of them and the round is accepted.                       *)
(***************************************************************************)
AcceptBuild(compatible) ==
  LET closeTime == lc.mOurPosition.closeTime
      validating == lc.mValidating /\ compatible
      validates == validating /\ ~lc.mConsensusFail
  IN /\ lc.state = "finished" /\ lc.built = "no"
     /\ lc' = [lc EXCEPT
          !.built = IF closeTime = 0 THEN "disagreed" ELSE "agreed",
          !.builtTime = IF closeTime = 0 THEN LedgerInfo[lc.mPreviousLedger].closeTime + 1
                        ELSE effective(lc, closeTime),
          !.mValidating = validating,
          !.lastValidation = IF validates THEN NewLedger ELSE @,
          !.broadcast = IF validates THEN @ \cup {NewLedger} ELSE @]
     /\ UNCHANGED <<stored, received>>

\* Mutant: the transactions we voted for are tried again.
notIncluded_Inverted(r) == {t \in r.disputed : r.mDisputes[t].mOurVote}

notIncluded(r) == {t \in r.disputed : ~r.mDisputes[t].mOurVote}

AcceptRetry ==
  /\ lc.state = "finished" /\ lc.built # "no" /\ ~lc.tried
  /\ lc' = [lc EXCEPT !.tried = TRUE, !.retried = notIncluded(lc)]
  /\ UNCHANGED <<stored, received>>

AcceptFinish ==
  /\ lc.state = "finished" /\ lc.tried
  /\ lc' = [lc EXCEPT !.state = "accepted"]
  /\ UNCHANGED <<stored, received>>

Next ==
  \/ \E now, sinceClose \in Instant, netLgr \in Ledger, got \in BOOLEAN, openTxs \in TxSet,
        closeTime \in CloseTime, validated \in {0, PreviousProposers} :
       TimerOpen(now, netLgr, got, openTxs, closeTime, validated, sinceClose)
  \/ \E now \in Instant, netLgr \in Ledger, got, oursStale \in BOOLEAN,
        stale \in SUBSET Peer, finished \in {0, Cardinality(Peer) + 1} :
       TimerEstablish(now, netLgr, got, stale, oursStale, finished)
  \/ TimerAccepted
  \/ \E p \in Peer, l \in Ledger, pos \in PeerPosition :
       ReceiveProposal(p, [prevLedger |-> l, pos |-> pos])
  \/ \E s \in TxSet : GiveSet(s) \/ MapComplete(s)
  \/ \E compatible \in BOOLEAN : AcceptBuild(compatible)
  \/ AcceptRetry \/ AcceptFinish

(***************************************************************************)
(* The heartbeat timer is always set again and the accept job is run.      *)
(* Time goes on, so there are always ticks later than every bound of the   *)
(* round; and peers send finitely many proposals here, so at such a tick   *)
(* all of them are stale.  A tick may well leave everything as it was, so  *)
(* the first conjunct also admits behaviours in which it can do so again   *)
(* and again.                                                              *)
(***************************************************************************)
Late == CHOOSE m \in Instant : \A n \in Instant : n <= m

LateTick ==
  \E netLgr \in Ledger, got \in BOOLEAN :
    \/ \E openTxs \in TxSet, closeTime \in CloseTime :
         TimerOpen(Late, netLgr, got, openTxs, closeTime, 0, Late)
    \/ TimerEstablish(Late, netLgr, got, Peer, FALSE, 0)

LateTickMayStutter ==
  \E netLgr \in Ledger, got \in BOOLEAN :
    \/ /\ lc.state = "open"
       /\ \E openTxs \in TxSet, closeTime \in CloseTime :
            lc = statePreClose(Ticked(Late, netLgr, got), openTxs, closeTime, 0, Late)
    \/ /\ lc.state = "establish"
       /\ lc = stateEstablish(Ticked(Late, netLgr, got), Peer, FALSE, 0)

Fairness ==
  /\ \/ []<><<LateTick>>_vars
     \/ []<>LateTickMayStutter
     \/ []<>(lc.state \notin {"open", "establish"})
  /\ WF_vars(TimerAccepted)
  /\ WF_vars(\E compatible \in BOOLEAN : AcceptBuild(compatible))
  /\ WF_vars(AcceptRetry \/ AcceptFinish)

Spec == Init /\ [][Next]_vars

FairSpec == Spec /\ Fairness

-----------------------------------------------------------------------------
(***************************************************************************)
(* Types; in particular the vote counters of DisputedTx stay integers and  *)
(* storeProposal keeps at most ten proposals of a peer.                    *)
(***************************************************************************)
TypeOK ==
  /\ lc \in Round
  /\ stored \in [Peer -> Seq(Proposal)]
  /\ \A p \in Peer : Len(stored[p]) <= ProposalsKept
  /\ received \in 0..MaxProposals

(***************************************************************************)
(* Whatever peers do (change their mind, bow out, fall silent), the votes  *)
(* counted on a dispute are those of peers whose position we hold, and the *)
(* counters agree with them: a departed peer leaves no vote behind, and no *)
(* peer that bowed out is counted again.                                   *)
(***************************************************************************)
VotesHavePositions ==
  /\ proposersOf(lc) \cap lc.mDeadNodes = {}
  /\ \A t \in lc.disputed :
       /\ CountsMatchVotes(lc.mDisputes[t])
       /\ \A p \in Peer : lc.mDisputes[t].mVotes[p] # "none" => p \in proposersOf(lc)

(***************************************************************************)
(* Our vote on every dispute is what our position says, until we bow out:  *)
(* the set we propose is the set our votes describe.                       *)
(***************************************************************************)
OurVotesMatchPosition ==
  hasPosition(lc) /\ ~isBowOut(lc.mOurPosition) =>
    \A t \in lc.disputed :
      lc.mDisputes[t].mOurVote <=> t \in lc.mOurPosition.set

(***************************************************************************)
(* The votes on every dispute, those of peers and our own, are consistent  *)
(* with the positions of those who cast them, through every change of      *)
(* mind, bow-out, stale position and late set.                             *)
(***************************************************************************)
VotesAreConsistent == VotesHavePositions /\ OurVotesMatchPosition

(***************************************************************************)
(* A node proposes only while it works from the network's ledger, and what *)
(* it broadcast last is its position.                                      *)
(***************************************************************************)
ProposingInSync ==
  lc.mProposing => /\ lc.mHaveCorrectLCL
                   /\ lc.mPreviousLedger = lc.mPrevLedgerHash
                   /\ lc.proposed = lc.mOurPosition

(***************************************************************************)
(* A set that was compared with ours differs from ours only in disputed    *)
(* transactions, so the avalanche can bring our position to it ("Make sure *)
(* we have generated disputes", haveConsensus): this holds from the moment *)
(* a set is compared, and no vote, change of position, late set or second  *)
(* comparison ends it.  Only a switch of the network's ledger does:        *)
(* handleLCL clears the disputes and keeps mCompares, and such a set is    *)
(* not compared again in this round.                                       *)
(***************************************************************************)
Difference(s, t) == (s \ t) \cup (t \ s)
Covers(r, s) == Difference(s, r.mOurPosition.set) \subseteq r.disputed

DisputesCoverDifferences ==
  [][\A s \in lc'.mCompares :
       \/ Covers(lc', s)
       \/ /\ s \in lc.mCompares
          /\ Covers(lc, s) => lc'.mPrevLedgerHash # lc.mPrevLedgerHash]_vars

(***************************************************************************)
(* Peer p, if we hold its set, is counted on every dispute as its set      *)
(* says.                                                                   *)
(***************************************************************************)
Shows(r, p) ==
  LET pos == r.mPeerPositions[p] IN
  pos # NoPosition /\ pos.set \in r.mAcquired =>
    \A t \in r.disputed : r.mDisputes[t].mVotes[p] = IF t \in pos.set THEN "yes" ELSE "no"

(***************************************************************************)
(* The set of p is published and mapComplete has not come to it, and the   *)
(* proposal of another peer takes it now: mapCompleteInternal will return  *)
(* early, without a vote for p.                                            *)
(***************************************************************************)
Overtaken(p) ==
  LET s == lc.mPeerPositions[p].set IN
  /\ p \in proposersOf(lc) /\ s \in lc.complete \ lc.mAcquired
  /\ \E q \in Peer \ {p} : /\ lc'.mPeerPositions[q] # lc.mPeerPositions[q]
                           /\ lc'.mPeerPositions[q].set = s

(***************************************************************************)
(* "Adjust tracking for each peer that takes this position"                *)
(* (mapCompleteInternal): a peer that is counted as its set says stays so  *)
(* through new disputes, late sets, changes of position and switches of    *)
(* ledgers, its own and those of others; only a proposal that overtakes    *)
(* mapComplete miscounts a peer, and only one whose set it takes.          *)
(***************************************************************************)
VotesReflectPositions ==
  [][\A p \in Peer : Shows(lc, p) => Shows(lc', p) \/ Overtaken(p)]_vars

(***************************************************************************)
(* The ledger built closes after the one it is built on.                   *)
(***************************************************************************)
CloseTimesIncrease ==
  lc.built # "no" => lc.builtTime > LedgerInfo[lc.mPreviousLedger].closeTime

(***************************************************************************)
(* Receivers drop a proposal that does not have a higher sequence number:  *)
(* ours only go up, and a bow-out is the last.                             *)
(***************************************************************************)
ProposalsAdvance ==
  [][lc'.proposed # lc.proposed =>
       lc'.proposed.proposeSeq > lc.proposed.proposeSeq]_vars

(***************************************************************************)
(* A round that ends by agreement ends with more than 80% of the           *)
(* participants on our set, and with the required share of them on the     *)
(* close time we hold, zero ("agreed to disagree") included.               *)
(***************************************************************************)
FinishesByAgreement ==
  [][lc.state = "establish" /\ lc'.state = "finished" /\ ~lc'.mConsensusFail =>
       LET n == Cardinality(proposersOf(lc')) IN
       /\ (Cardinality(agreeing(lc')) + 1) * 100 > minimumConsensusPercentage * (n + 1)
       /\ ~isBowOut(lc'.mOurPosition) /\ n > 0 =>
            Cardinality({p \in proposersOf(lc') :
                effective(lc', lc'.mPeerPositions[p].closeTime) = lc'.mOurPosition.closeTime})
              >= participantsNeeded(participants(lc'), AV_CT_CONSENSUS_PCT)
                   - (IF lc'.mProposing THEN 1 ELSE 0)]_vars

(***************************************************************************)
(* "Apply disputed transactions that didn't get in" (accept): when accept  *)
(* goes through mDisputes, every disputed transaction that is not in the   *)
(* consensus set is tried again.  After a bow-out our votes go on changing *)
(* and our set does not, so the votes no longer tell what got in: then, and*)
(* only then, one may be left out.  A dispute that mapComplete adds after  *)
(* the loop and before the round is accepted is not tried either.          *)
(***************************************************************************)
DisputedTriedAgain ==
  [][AcceptRetry =>
       isBowOut(lc.mOurPosition) \/ lc.disputed \ lc.consensusSet \subseteq lc'.retried]_vars

(***************************************************************************)
(* If the peers fall silent the round still ends, whatever they said       *)
(* before, whether or not we propose and whatever ledger we are on.        *)
(***************************************************************************)
RoundEnds == <>(lc.state = "ended")

=============================================================================
