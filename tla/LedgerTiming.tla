---------------------------- MODULE LedgerTiming ----------------------------
(***************************************************************************)
(* The timing rules and thresholds of a consensus round, as pure operators *)
(* on integers: LedgerTiming.{h,cpp} and the free functions of             *)
(* LedgerConsensusImp.cpp.  Times of day are seconds, durations are        *)
(* milliseconds, percentages are whole numbers, and division truncates     *)
(* (every operand is nonnegative).                                         *)
(***************************************************************************)
EXTENDS Integers, Sequences

minimumConsensusPercentage == 80
ledgerPossibleTimeResolutions == <<10, 20, 30, 60, 90, 120>>
increaseLedgerTimeResolutionEvery == 8
decreaseLedgerTimeResolutionEvery == 1
LEDGER_IDLE_INTERVAL == 15
LEDGER_MIN_CONSENSUS == 2000
LEDGER_MIN_CLOSE == 2000
PROPOSE_INTERVAL == 12

AV_INIT_CONSENSUS_PCT == 50
AV_MID_CONSENSUS_TIME == 50
AV_MID_CONSENSUS_PCT == 65
AV_LATE_CONSENSUS_TIME == 85
AV_LATE_CONSENSUS_PCT == 70
AV_STUCK_CONSENSUS_TIME == 200
AV_STUCK_CONSENSUS_PCT == 95
AV_CT_CONSENSUS_PCT == 75

(***************************************************************************)
(* The resolution of the next ledger's close time: coarser at once when    *)
(* the last ledger did not agree on its time, finer every eighth ledger    *)
(* when it did.                                                            *)
(***************************************************************************)
getNextLedgerTimeResolution(previousResolution, previousAgree, ledgerSeq) ==
  LET R == ledgerPossibleTimeResolutions
      i == CHOOSE k \in DOMAIN R : R[k] = previousResolution
      coarser == /\ ~previousAgree
                 /\ ledgerSeq % decreaseLedgerTimeResolutionEvery = 0
                 /\ i < Len(R)
      finer == /\ previousAgree
               /\ ledgerSeq % increaseLedgerTimeResolutionEvery = 0
               /\ i > 1
  IN IF \A k \in DOMAIN R : R[k] # previousResolution THEN previousResolution
     ELSE IF coarser THEN R[i + 1]
     ELSE IF finer THEN R[i - 1]
     ELSE previousResolution

(***************************************************************************)
(* Round to the nearest multiple of the resolution; zero means "we agreed  *)
(* to disagree" and stays zero.                                            *)
(***************************************************************************)
roundCloseTime(closeTime, closeResolution) ==
  IF closeTime = 0 THEN 0
  ELSE LET t == closeTime + closeResolution \div 2
       IN t - (t % closeResolution)

\* Mutant: the previous ledger's close time is ignored.
effectiveCloseTime_Any(closeTime, closeResolution, prevCloseTime) ==
  roundCloseTime(closeTime, closeResolution)

(***************************************************************************)
(* A close time must follow the previous ledger's.                         *)
(***************************************************************************)
effectiveCloseTime(closeTime, closeResolution, prevCloseTime) ==
  IF closeTime = 0 THEN 0
  ELSE LET t == roundCloseTime(closeTime, closeResolution)
       IN IF t > prevCloseTime THEN t ELSE prevCloseTime + 1

(***************************************************************************)
(* Whether the open ledger should close now.                               *)
(***************************************************************************)
shouldCloseLedger(anyTransactions, previousProposers, proposersClosed, proposersValidated, previousMSeconds, currentMSeconds, openMSeconds, idleInterval) ==
  \/ previousMSeconds < -1000 \/ previousMSeconds > 600000
  \/ currentMSeconds > 600000
  \/ proposersClosed + proposersValidated > previousProposers \div 2
  \/ ~anyTransactions /\ currentMSeconds >= idleInterval * 1000
  \/ /\ anyTransactions
     /\ openMSeconds >= LEDGER_MIN_CLOSE
     /\ openMSeconds >= previousMSeconds \div 2

checkConsensusReached(agreeing, proposing) ==
  (agreeing * 100) \div (proposing + 1) > minimumConsensusPercentage

(***************************************************************************)
(* Whether we agree with the network ("Yes"), the network went on without  *)
(* us ("MovedOn"), or neither ("No").                                      *)
(***************************************************************************)
checkConsensus(previousProposers, currentProposers, currentAgree, currentFinished, previousAgreeTime, currentAgreeTime) ==
  LET tooFast ==
        \/ currentAgreeTime <= LEDGER_MIN_CONSENSUS
        \/ /\ currentProposers < (previousProposers * 3) \div 4
           /\ currentAgreeTime < previousAgreeTime + LEDGER_MIN_CONSENSUS
  IN IF tooFast THEN "No"
     ELSE IF checkConsensusReached(currentAgree + 1, currentProposers) THEN "Yes"
     ELSE IF checkConsensusReached(currentFinished, currentProposers) THEN "MovedOn"
     ELSE "No"

(***************************************************************************)
(* The avalanche: the percentage required rises with the time the round    *)
(* has taken, given in percent of the time the last one took.              *)
(***************************************************************************)
neededWeight(percentTime) ==
  IF percentTime < AV_MID_CONSENSUS_TIME THEN AV_INIT_CONSENSUS_PCT
  ELSE IF percentTime < AV_LATE_CONSENSUS_TIME THEN AV_MID_CONSENSUS_PCT
  ELSE IF percentTime < AV_STUCK_CONSENSUS_TIME THEN AV_LATE_CONSENSUS_PCT
  ELSE AV_STUCK_CONSENSUS_PCT

participantsNeeded(participants, percent) ==
  LET result == (participants * percent + percent \div 2) \div 100
  IN IF result = 0 THEN 1 ELSE result
=============================================================================
