--------------------------- MODULE OperatingMode ---------------------------
(***************************************************************************)
(* The operating mode of NetworkOPs and how rounds of consensus begin and  *)
(* end (setMode, processHeartbeatTimer, tryStartConsensus,                 *)
(* checkLastClosedLedger, haveConsensusObject, beginConsensus and          *)
(* endConsensus of src/src/ripple/app/misc/NetworkOPs.cpp), with what they *)
(* meet: the round's own view of the last closed ledger, and the accept    *)
(* job, which runs without the master lock for most of its way.            *)
(*                                                                         *)
(* A handler under the master lock is one step, written as a function of   *)
(* the state s and the inputs in.  The inside of a round is the module     *)
(* LedgerConsensus.                                                        *)
(***************************************************************************)
EXTENDS Integers, FiniteSets, FiniteSetsExt

CONSTANTS
  Ledger, NoLedger, Genesis,
  Parent,          \* the parent of each ledger
  Peer, Validator, \* node IDs of peers and of trusted validators
  OurNode,         \* our own node ID
  NetworkQuorum,   \* m_network_quorum
  MaxEvents        \* bound: changes of the network in one behaviour

ASSUME OperatingModeAssumption ==
  /\ NoLedger \notin Ledger /\ Genesis \in Ledger
  /\ Parent \in [Ledger -> Ledger \cup {NoLedger}]
  /\ Peer \subseteq Nat \ {0} /\ Validator \subseteq Nat \ {0}
  /\ IsFiniteSet(Peer) /\ IsFiniteSet(Validator)
  /\ OurNode \in Nat \ ({0} \cup Peer)
  /\ MaxEvents \in Nat

VARIABLES
  ops,         \* NetworkOPs, the closed and the open ledger, what peers reported
  connected,   \* peers connected
  validation,  \* per validator: its current validation
  accept,      \* where the accept job is
  newLCL,      \* the ledger the accept job builds
  events

modeVars == <<ops, connected, validation, accept, newLCL, events>>

omDISCONNECTED == 0
omCONNECTED == 1
omSYNCING == 2
omTRACKING == 3
omFULL == 4

MaybeLedger == Ledger \cup {NoLedger}
NoRound == [state |-> "none", mPreviousLedger |-> NoLedger, mPrevLedgerHash |-> NoLedger,
            mHaveCorrectLCL |-> FALSE, mAcquiringLedger |-> NoLedger]
Round == [state : {"none", "open", "establish", "finished", "accepted"}, mPreviousLedger : MaybeLedger,
          mPrevLedgerHash : MaybeLedger, mHaveCorrectLCL : BOOLEAN,
          mAcquiringLedger : MaybeLedger]

\* mLedgerConsensus is set
inRound(s) == s.round.state # "none"

NetworkOPs ==
  [mMode : omDISCONNECTED..omFULL, mNeedNetworkLedger : BOOLEAN, m_amendmentBlocked : BOOLEAN,
   round : Round, closed : Ledger, open : Ledger, have : SUBSET Ledger,
   peerLedger : [Peer -> MaybeLedger]]

ModeTypeOK ==
  /\ ops \in NetworkOPs
  /\ connected \subseteq Peer
  /\ validation \in [Validator -> [ledger : MaybeLedger, previous : MaybeLedger]]
  /\ accept \in {"idle", "building", "blocking", "built", "opened", "switched"}
  /\ newLCL \in MaybeLedger
  /\ events \in 0..MaxEvents

ModeInit ==
  /\ \E need \in BOOLEAN, peerLedger \in [Peer -> MaybeLedger] :
       ops = [mMode |-> omDISCONNECTED, mNeedNetworkLedger |-> need,
              m_amendmentBlocked |-> FALSE, round |-> NoRound, closed |-> Genesis,
              open |-> Genesis, have |-> {Genesis}, peerLedger |-> peerLedger]
  /\ connected \in SUBSET Peer
  /\ validation \in [Validator -> [ledger : MaybeLedger, previous : {NoLedger}]]
  /\ accept = "idle" /\ newLCL = NoLedger /\ events = 0

-----------------------------------------------------------------------------
(***************************************************************************)
(* setMode: CONNECTED and SYNCING are told apart by the age of the last    *)
(* validated ledger, and a server that is amendment blocked is never FULL. *)
(***************************************************************************)
setMode(s, om, fresh) ==
  LET aged == IF om \in {omCONNECTED, omSYNCING}
                THEN IF fresh THEN omSYNCING ELSE omCONNECTED
                ELSE om
  IN [s EXCEPT !.mMode = IF aged > omTRACKING /\ s.m_amendmentBlocked THEN omTRACKING ELSE aged]

(***************************************************************************)
(* getCurrentValidations: the validators that count for ledger l, where    *)
(* one that is a ledger behind or ahead of current counts for current.     *)
(***************************************************************************)
countsFor(v, current, prior) ==
  LET val == validation[v]
  IN IF \/ val.ledger = current \/ val.previous = current
        \/ prior # NoLedger /\ val.ledger = prior
       THEN current ELSE val.ledger

validated(current, prior) ==
  {countsFor(v, current, prior) : v \in {u \in Validator : validation[u].ledger # NoLedger}}

validatorsOf(l, current, prior) ==
  {v \in Validator : validation[v].ledger # NoLedger /\ countsFor(v, current, prior) = l}

-----------------------------------------------------------------------------
\* Mutant: equal counts are not told apart.
greater_NoTieBreak(a, b) ==
  \/ a.trustedValidations > b.trustedValidations
  \/ a.trustedValidations = b.trustedValidations /\ a.nodesUsing > b.nodesUsing

(***************************************************************************)
(* ValidationCount and its order.                                          *)
(***************************************************************************)
greater(a, b) ==
  \/ a.trustedValidations > b.trustedValidations
  \/ /\ a.trustedValidations = b.trustedValidations
     /\ IF a.trustedValidations = 0
          THEN \/ a.nodesUsing > b.nodesUsing
               \/ a.nodesUsing = b.nodesUsing /\ a.highNodeUsing > b.highNodeUsing
          ELSE a.highValidation > b.highValidation

highest(ids) == IF ids = {} THEN 0 ELSE Max(ids)

validationCount(s, l) ==
  LET trusted == validatorsOf(l, s.closed, Parent[s.closed])
      using == {p \in connected : s.peerLedger[p] = l} \cup
               {n \in {OurNode} : l = s.closed /\ s.mMode >= omTRACKING}
  IN [trustedValidations |-> Cardinality(trusted), nodesUsing |-> Cardinality(using),
      highNodeUsing |-> highest(using), highValidation |-> highest(trusted)]

ledgers(s) ==
  {s.closed} \cup validated(s.closed, Parent[s.closed]) \cup
  {s.peerLedger[p] : p \in {q \in connected : s.peerLedger[q] # NoLedger}}

firstOf(S, tie) == IF tie \in S THEN tie ELSE CHOOSE l \in S : TRUE

maximal(count) ==
  {l \in DOMAIN count : \A m \in DOMAIN count : ~greater(count[m], count[l])}

bestLedgers(s) == maximal([l \in ledgers(s) |-> validationCount(s, l)])

\* Mutant: the mode stays when the network is on another ledger.
viewLost_Ignored(s, fresh) == s

(***************************************************************************)
(* checkLastClosedLedger: which ledger the network closed, whether that is *)
(* an abnormal change, and the jump to it if we have it.                   *)
(***************************************************************************)
viewLost(s, fresh) ==
  IF s.mMode \in {omTRACKING, omFULL} THEN setMode(s, omCONNECTED, fresh) ELSE s

switchLastClosedLedger(s, l) ==
  [s EXCEPT !.mNeedNetworkLedger = FALSE, !.open = l, !.closed = l]

consider(s, best, in) ==
  IF best = s.closed \/ best = Parent[s.closed] \/ (best \in s.have /\ ~in.compatible)
    THEN [s |-> s, change |-> FALSE, networkClosed |-> s.closed]
    ELSE [s |-> IF best \in s.have
                  THEN switchLastClosedLedger(viewLost(s, in.fresh), best)
                  ELSE viewLost(s, in.fresh),
          change |-> TRUE, networkClosed |-> best]

checkLastClosedLedger(s, in) == consider(s, firstOf(bestLedgers(s), s.closed), in)

-----------------------------------------------------------------------------
(***************************************************************************)
(* The round's view of its last closed ledger: checkLCL and handleLCL.     *)
(***************************************************************************)
mostValidated(own, count) ==
  LET most == {l \in DOMAIN count : \A m \in DOMAIN count : count[m] <= count[l]}
  IN IF DOMAIN count = {} \/ own \in most THEN {own} ELSE most

preferredLCLs(r, prior) ==
  mostValidated(r.mPrevLedgerHash,
    [l \in validated(r.mPrevLedgerHash, prior) |->
       Cardinality(validatorsOf(l, r.mPrevLedgerHash, prior))])

getPreferredLCL(r, tie) ==
  firstOf(preferredLCLs(r, IF r.mHaveCorrectLCL THEN Parent[r.mPreviousLedger] ELSE NoLedger), tie)

handleLCL(r, have, l) ==
  LET moved == [r EXCEPT !.mPrevLedgerHash = l]
  IN IF r.mPreviousLedger = l THEN moved
     ELSE IF l \in have THEN [moved EXCEPT !.mPreviousLedger = l, !.mHaveCorrectLCL = TRUE]
     ELSE IF r.mAcquiringLedger = l THEN moved
     ELSE [moved EXCEPT !.mAcquiringLedger = l, !.mHaveCorrectLCL = FALSE]

consensusViewChange(s, fresh) == viewLost(s, fresh)

compareLCL(s, net, in) ==
  IF net = s.round.mPrevLedgerHash /\ s.round.mPreviousLedger = net THEN s
  ELSE [(IF net # s.round.mPrevLedgerHash /\ s.round.mHaveCorrectLCL
           THEN consensusViewChange(s, in.fresh) ELSE s)
        EXCEPT !.round = handleLCL(s.round, s.have, net)]

checkLCL(s, in) == compareLCL(s, getPreferredLCL(s.round, in.tie), in)

(***************************************************************************)
(* endConsensus forgets the status of peers that report the ledger before  *)
(* ours, and the round.                                                    *)
(***************************************************************************)
endConsensus(s) ==
  [s EXCEPT !.round = NoRound,
            !.peerLedger = [p \in Peer |->
              IF p \in connected /\ s.peerLedger[p] = Parent[s.closed] THEN NoLedger
              ELSE s.peerLedger[p]]]

\* A round ends with a ledger of the model: there is one to build.
buildable(s) == {l \in Ledger : Parent[l] = s.round.mPreviousLedger}

statePreClose(s, in) == IF in.agree THEN [s EXCEPT !.round.state = "establish"] ELSE s

stateEstablish(s, in) ==
  IF in.agree /\ accept = "idle" /\ buildable(s) # {}
    THEN [s EXCEPT !.round.state = "finished"] ELSE s

timerState(s, in) ==
  IF s.round.state = "open" THEN statePreClose(s, in) ELSE stateEstablish(s, in)

timerEntry(s, in) ==
  CASE s.round.state \in {"open", "establish"} -> timerState(checkLCL(s, in), in)
    [] s.round.state = "finished" -> s
    [] s.round.state = "accepted" -> endConsensus(s)

(***************************************************************************)
(* beginConsensus, and the constructor of the round.                       *)
(***************************************************************************)
newRound(s, networkClosed) ==
  [NoRound EXCEPT !.state = "open", !.mPreviousLedger = s.open,
     !.mPrevLedgerHash = networkClosed, !.mHaveCorrectLCL = (s.open = networkClosed)]

LedgerConsensusImp(r, have) ==
  IF r.mHaveCorrectLCL THEN r ELSE handleLCL(r, have, r.mPrevLedgerHash)

started(s, in) == IF in.behind THEN timerEntry(s, in) ELSE s

beginConsensus(s, networkClosed, in) ==
  IF s.open \in s.have
    THEN started([s EXCEPT !.round = LedgerConsensusImp(newRound(s, networkClosed), s.have)], in)
    ELSE IF s.mMode = omFULL THEN setMode(s, omTRACKING, in.fresh) ELSE s

(***************************************************************************)
(* tryStartConsensus and haveConsensusObject, without a round, from what   *)
(* checkLastClosedLedger finds (check).                                    *)
(***************************************************************************)
toTracking(check, in) ==
  IF /\ check.s.mMode \in {omCONNECTED, omSYNCING} /\ ~check.change
     /\ ~check.s.mNeedNetworkLedger
    THEN [check EXCEPT !.s = setMode(@, omTRACKING, in.fresh)] ELSE check

toFull(check, in) ==
  IF check.s.mMode \in {omCONNECTED, omTRACKING} /\ ~check.change /\ in.recent
    THEN [check EXCEPT !.s = setMode(@, omFULL, in.fresh)] ELSE check

beginConnected(check, in) ==
  IF check.s.mMode = omDISCONNECTED THEN check.s
  ELSE beginConsensus(check.s, check.networkClosed, in)

tryStartConsensus(s, in) ==
  beginConnected(toFull(toTracking(checkLastClosedLedger(s, in), in), in), in)

enoughToFull(s, in) ==
  IF s.mMode \in {omTRACKING, omSYNCING} /\ in.enough THEN setMode(s, omFULL, in.fresh) ELSE s

beginUnchanged(check, in) ==
  IF check.change THEN check.s
  ELSE beginConsensus(enoughToFull(check.s, in), check.networkClosed, in)

haveConsensusObject(s, in) ==
  IF s.mMode \in {omFULL, omTRACKING} THEN tryStartConsensus(s, in)
  ELSE beginUnchanged(checkLastClosedLedger(s, in), in)

-----------------------------------------------------------------------------
(***************************************************************************)
(* processHeartbeatTimer: the mode from the number of peers, then a round  *)
(* if there is none, then the round's timer.  A ledger that closed in this *)
(* very step is too young for consensus (LEDGER_MIN_CONSENSUS).            *)
(***************************************************************************)
heartbeatMode(s, fresh) ==
  IF s.mMode \in {omDISCONNECTED, omCONNECTED, omSYNCING}
    THEN setMode(s, omCONNECTED, fresh) ELSE s

firstTimer(s, in) ==
  IF inRound(s) THEN timerEntry(s, [in EXCEPT !.agree = @ /\ s.round.state = "open"]) ELSE s

heartbeat(s, in) ==
  IF inRound(s) THEN timerEntry(s, in) ELSE firstTimer(tryStartConsensus(s, in), in)

processHeartbeatTimer(in) ==
  /\ ops' = IF Cardinality(connected) < NetworkQuorum
              THEN setMode(ops, omDISCONNECTED, in.fresh)
              ELSE heartbeat(heartbeatMode(ops, in.fresh), in)
  /\ accept' = IF ops'.round.state = "finished" /\ accept = "idle" THEN "building" ELSE accept
  /\ UNCHANGED <<connected, validation, newLCL, events>>

(***************************************************************************)
(* A proposal or a transaction set arrives outside a round                 *)
(* (processTrustedProposal, mapComplete).                                  *)
(***************************************************************************)
processTrustedProposal(in) ==
  /\ ~inRound(ops)
  /\ ops' = haveConsensusObject(ops, in)
  /\ UNCHANGED <<connected, validation, accept, newLCL, events>>

-----------------------------------------------------------------------------
(***************************************************************************)
(* The accept job.  It builds and stores the ledger without the master     *)
(* lock; a transaction in it may enable an amendment we do not support,    *)
(* which sets the flag and then the mode.                                  *)
(***************************************************************************)
AcceptBuild(l) ==
  /\ accept = "building"
  /\ l \in buildable(ops)
  /\ newLCL' = l
  /\ accept' = "built"
  /\ ops' = [ops EXCEPT !.have = @ \cup {l}]
  /\ UNCHANGED <<connected, validation, events>>

AmendmentFlag ==
  /\ accept = "building" /\ ~ops.m_amendmentBlocked
  /\ ops' = [ops EXCEPT !.m_amendmentBlocked = TRUE]
  /\ accept' = "blocking"
  /\ UNCHANGED <<connected, validation, newLCL, events>>

setAmendmentBlocked ==
  /\ accept = "blocking"
  /\ \E fresh \in BOOLEAN : ops' = setMode(ops, omTRACKING, fresh)
  /\ accept' = "building"
  /\ UNCHANGED <<connected, validation, newLCL, events>>

\* Mutant: the round counts as accepted as soon as the open ledger is new.
openOn_Accepted(s, l) == [s EXCEPT !.open = l, !.round.state = "accepted"]

(***************************************************************************)
(* Then, under the master lock, the open ledger; then the closed one, and  *)
(* the round is over.  Two asserts follow.                                 *)
(***************************************************************************)
openOn(s, l) == [s EXCEPT !.open = l]

AcceptOpen ==
  /\ accept = "built"
  /\ ops' = openOn(ops, newLCL)
  /\ accept' = "opened"
  /\ UNCHANGED <<connected, validation, newLCL, events>>

AcceptSwitch ==
  /\ accept = "opened"
  /\ ops' = [ops EXCEPT !.closed = newLCL, !.round.state = "accepted"]
  /\ accept' = "switched"
  /\ UNCHANGED <<connected, validation, newLCL, events>>

AcceptDone ==
  /\ accept = "switched"
  /\ accept' = "idle" /\ newLCL' = NoLedger
  /\ UNCHANGED <<ops, connected, validation, events>>

-----------------------------------------------------------------------------
(***************************************************************************)
(* The network: peers come, go and report ledgers, validators validate or  *)
(* their validations expire (NoLedger), ledgers are acquired, and          *)
(* LedgerMaster publishes one.                                             *)
(***************************************************************************)
Event == events < MaxEvents /\ events' = events + 1 /\ UNCHANGED <<accept, newLCL>>

PeerChanges(p) ==
  /\ Event
  /\ \/ p \in connected /\ connected' = connected \ {p} /\ UNCHANGED ops
     \/ /\ p \notin connected /\ connected' = connected \cup {p}
        /\ ops' = [ops EXCEPT !.peerLedger[p] = NoLedger]
     \/ /\ p \in connected /\ UNCHANGED connected
        /\ \E l \in Ledger \ {ops.peerLedger[p]} : ops' = [ops EXCEPT !.peerLedger[p] = l]
  /\ UNCHANGED validation

addValidation(v, l) ==
  /\ Event
  /\ l # validation[v].ledger
  /\ validation' = [validation EXCEPT ![v] =
       [ledger |-> l, previous |-> IF l = NoLedger THEN NoLedger ELSE @.ledger]]
  /\ UNCHANGED <<ops, connected>>

LedgerArrives(l) ==
  /\ Event
  /\ l \notin ops.have
  /\ ops' = [ops EXCEPT !.have = @ \cup {l}]
  /\ UNCHANGED <<connected, validation>>

clearNeedNetworkLedger ==
  /\ ops.mNeedNetworkLedger
  /\ ops' = [ops EXCEPT !.mNeedNetworkLedger = FALSE]
  /\ UNCHANGED <<connected, validation, accept, newLCL, events>>

(***************************************************************************)
(* What a handler reads and does not decide: fresh, whether the validated  *)
(* ledger is less than 60 s old; recent, whether the open ledger's parent  *)
(* closed recently; compatible, isCompatible of the ledger to switch to;   *)
(* enough, whether the last round had as many proposers as validations are *)
(* required; behind, whether over half of the proposers came before us;    *)
(* agree, whether the timer closes the ledger or finds consensus; tie,     *)
(* which of equals comes first in an unordered map.  In a round only its   *)
(* timer reads them.                                                       *)
(***************************************************************************)
Inputs ==
  LET other == IF inRound(ops) THEN {FALSE} ELSE BOOLEAN
  IN [fresh : BOOLEAN, recent : other, compatible : other, enough : other, behind : other,
      agree : BOOLEAN, tie : {validation[v].ledger : v \in Validator}]

ModeNext ==
  \/ \E in \in Inputs : processHeartbeatTimer(in) \/ processTrustedProposal(in)
  \/ \E l \in Ledger : AcceptBuild(l) \/ LedgerArrives(l)
  \/ AmendmentFlag \/ setAmendmentBlocked \/ AcceptOpen \/ AcceptSwitch \/ AcceptDone
  \/ \E p \in Peer : PeerChanges(p)
  \/ \E v \in Validator, l \in MaybeLedger : addValidation(v, l)
  \/ clearNeedNetworkLedger

ModeSpec == ModeInit /\ [][ModeNext]_modeVars

-----------------------------------------------------------------------------
(***************************************************************************)
(* A server that is amendment blocked is not FULL once setAmendmentBlocked *)
(* has returned, although it runs beside the heartbeat.                    *)
(***************************************************************************)
NotFullWhenBlocked ==
  ops.m_amendmentBlocked /\ accept # "blocking" => ops.mMode # omFULL

(***************************************************************************)
(* "we have the ledger and can even validate" (OperatingMode): in omFULL a *)
(* round works from the ledger it takes for the network's.                 *)
(***************************************************************************)
FullIsInSync ==
  inRound(ops) /\ ops.mMode = omFULL => ops.round.mPreviousLedger = ops.round.mPrevLedgerHash

(***************************************************************************)
(* Every way into omFULL (tryStartConsensus, haveConsensusObject) and      *)
(* every event after it leave the mode justified: not blocked by an        *)
(* amendment, and in sync.                                                 *)
(***************************************************************************)
FullIsJustified == NotFullWhenBlocked /\ FullIsInSync

(***************************************************************************)
(* The asserts of beginConsensus: a round starts when the open ledger was  *)
(* built on the closed one.                                                *)
(***************************************************************************)
BeginsOnClosedLedger ==
  [][~inRound(ops) /\ inRound(ops') => ops'.open = ops'.closed]_modeVars

(***************************************************************************)
(* The ledger checkLastClosedLedger prefers does not depend on the order   *)
(* in which it visits an unordered map.                                    *)
(***************************************************************************)
PreferenceIsUnique == \E l \in Ledger : bestLedgers(ops) = {l}

=============================================================================
