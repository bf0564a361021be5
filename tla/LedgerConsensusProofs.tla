----------------------- MODULE LedgerConsensusProofs -----------------------
(***************************************************************************)
(* Proofs about LedgerConsensus, for every finite set of peers, every set  *)
(* of transactions and ledgers, every clock and every sequence of          *)
(* proposals: the votes on disputes are those of the positions, a node     *)
(* proposes only on the network's ledger and with rising numbers, a ledger *)
(* closes after its parent, and a round that ends by agreement ends with   *)
(* the required majorities.  What was compared stays disputed until the    *)
(* network's ledger changes, what was left out is tried again unless we    *)
(* bowed out, and the votes of a peer stay those of its set unless a       *)
(* proposal overtakes the delivery of that set.                            *)
(***************************************************************************)
EXTENDS LedgerConsensus, FiniteSetTheorems, TLAPS

\* The counters of a dispute are its votes, and only the peers of P have votes.
DisputeSound(d, P) ==
  /\ CountsMatchVotes(d)
  /\ \A p \in Peer : d.mVotes[p] # "none" => p \in P

\* Our vote on every dispute is what our position says, until we bow out.
OurVotesSound(r) ==
  hasPosition(r) /\ ~isBowOut(r.mOurPosition) =>
    \A t \in r.disputed : r.mDisputes[t].mOurVote <=> t \in r.mOurPosition.set

(***************************************************************************)
(* What every operation on disputes keeps: peers that bowed out have no    *)
(* position, and votes are those of the positions.                         *)
(***************************************************************************)
PeerVotesSound(r) ==
  /\ r \in Round
  /\ proposersOf(r) \cap r.mDeadNodes = {}
  /\ \A t \in Tx : DisputeSound(r.mDisputes[t], proposersOf(r))

VotesSound(r) == PeerVotesSound(r) /\ OurVotesSound(r)

(***************************************************************************)
(* A node that proposes is on the network's ledger, broadcast its position *)
(* and has not bowed out.                                                  *)
(***************************************************************************)
ProposingSound(r) ==
  r.mProposing => /\ r.mHaveCorrectLCL
                  /\ r.mPreviousLedger = r.mPrevLedgerHash
                  /\ r.proposed = r.mOurPosition
                  /\ ~isBowOut(r.mOurPosition)

(***************************************************************************)
(* Before the close there is no position; a position that may still change *)
(* has room for the next number; a ledger is built after the end of        *)
(* establish, with a close time after its parent's.                        *)
(***************************************************************************)
StageSound(r) ==
  /\ r.state = "open" => r.mOurPosition = NoPosition /\ r.proposed = NoPosition
  /\ r.state # "open" => r.mOurPosition \in Position
  /\ r.state = "establish" =>
       isBowOut(r.mOurPosition) \/ r.mOurPosition.proposeSeq <= MaxProposeSeq
  /\ r.built # "no" => /\ r.state \notin {"open", "establish"}
                       /\ r.builtTime > LedgerInfo[r.mPreviousLedger].closeTime

Sound(r) == VotesSound(r) /\ ProposingSound(r) /\ StageSound(r)

StoredSound(sto) ==
  /\ sto \in [Peer -> Seq(Proposal)]
  /\ \A p \in Peer : Len(sto[p]) <= ProposalsKept

IInv == Sound(lc) /\ StoredSound(stored) /\ received \in 0..MaxProposals

-----------------------------------------------------------------------------
(***************************************************************************)
(* setVote and unVote of DisputedTx.                                       *)
(***************************************************************************)
LEMMA SubsetsFinite ==
  ASSUME NEW S \in SUBSET Peer
  PROVE  IsFiniteSet(S) /\ Cardinality(S) \in Nat
  BY LedgerConsensusAssumption, FS_Subset, FS_CardinalityType

LEMMA NewDisputeSound ==
  ASSUME NEW ours \in BOOLEAN
  PROVE  /\ NewDispute(ours) \in Dispute
         /\ CountsMatchVotes(NewDispute(ours))
         /\ NewDispute(ours).mOurVote = ours
         /\ \A p \in Peer : NewDispute(ours).mVotes[p] = "none"
<1> DEFINE d == NewDispute(ours)
<1>1. /\ d.mOurVote = ours /\ d.mYays = 0 /\ d.mNays = 0
      /\ d.mVotes = [p \in Peer |-> "none"]
  BY DEF NewDispute
<1>2. d \in Dispute
  BY DEF NewDispute, Dispute, Vote
<1>3. {p \in Peer : d.mVotes[p] = "yes"} = {} /\ {p \in Peer : d.mVotes[p] = "no"} = {}
  BY <1>1
<1>4. Cardinality({}) = 0
  BY FS_EmptySet
<1> HIDE DEF d
<1>5. CountsMatchVotes(d)
  BY <1>1, <1>3, <1>4, Zenon DEF CountsMatchVotes
<1> QED
  BY <1>1, <1>2, <1>5 DEF d

\* Replacing the subset B of A by the set C, which is apart from A.
LEMMA ExchangeCardinality ==
  ASSUME NEW A \in SUBSET Peer, NEW B \in SUBSET A, NEW C \in SUBSET Peer, C \cap A = {}
  PROVE  Cardinality((A \ B) \cup C) = Cardinality(A) + Cardinality(C) - Cardinality(B)
<1>1. /\ IsFiniteSet(A) /\ IsFiniteSet(B) /\ IsFiniteSet(C) /\ IsFiniteSet(A \ B)
      /\ Cardinality(A) \in Nat /\ Cardinality(B) \in Nat /\ Cardinality(C) \in Nat
      /\ Cardinality(A \ B) \in Nat
  BY SubsetsFinite
<1>2. Cardinality(A \ B) = Cardinality(A) - Cardinality(A \cap B)
  BY <1>1, FS_Difference
<1>3. A \cap B = B /\ (A \ B) \cap C = {}
  OBVIOUS
<1>4. Cardinality((A \ B) \cup C) = Cardinality(A \ B) + Cardinality(C) - Cardinality((A \ B) \cap C)
  BY <1>1, FS_Union
<1>5. Cardinality({}) = 0
  BY FS_EmptySet
<1>6. Cardinality((A \ B) \cup C) = Cardinality(A \ B) + Cardinality(C)
  <2>1. Cardinality((A \ B) \cap C) = 0
    BY <1>3, <1>5
  <2> QED
    BY <1>1, <1>4, <2>1
<1>7. Cardinality(A \ B) = Cardinality(A) - Cardinality(B)
  BY <1>2, <1>3
<1> QED
  BY <1>1, <1>6, <1>7

LEMMA SetVoteSound ==
  ASSUME NEW d \in Dispute, CountsMatchVotes(d),
         NEW Y \in SUBSET Peer, NEW N \in SUBSET Peer, Y \cap N = {}
  PROVE  /\ setVote(d, Y, N) \in Dispute
         /\ CountsMatchVotes(setVote(d, Y, N))
         /\ setVote(d, Y, N).mOurVote = d.mOurVote
         /\ \A p \in Peer : setVote(d, Y, N).mVotes[p] # "none"
                              => d.mVotes[p] # "none" \/ p \in Y \cup N
<1> DEFINE e == setVote(d, Y, N)
           newYes == {p \in Y : d.mVotes[p] # "yes"}
           lostYes == {p \in N : d.mVotes[p] = "yes"}
           newNo == {p \in N : d.mVotes[p] # "no"}
           lostNo == {p \in Y : d.mVotes[p] = "no"}
           yes == {p \in Peer : d.mVotes[p] = "yes"}
           no == {p \in Peer : d.mVotes[p] = "no"}
           votes == [p \in Peer |-> IF p \in Y THEN "yes"
                                    ELSE IF p \in N THEN "no" ELSE d.mVotes[p]]
<1>1. /\ newYes \in SUBSET Peer /\ lostYes \in SUBSET yes /\ newYes \cap yes = {}
      /\ newNo \in SUBSET Peer /\ lostNo \in SUBSET no /\ newNo \cap no = {}
      /\ yes \in SUBSET Peer /\ no \in SUBSET Peer
  OBVIOUS
<1>2. /\ Cardinality(newYes) \in Nat /\ Cardinality(lostYes) \in Nat
      /\ Cardinality(newNo) \in Nat /\ Cardinality(lostNo) \in Nat
      /\ Cardinality(yes) \in Nat /\ Cardinality(no) \in Nat
  BY <1>1, SubsetsFinite
<1>3. votes \in [Peer -> Vote]
  BY DEF Dispute, Vote
<1>4. e = [d EXCEPT !.mVotes = votes,
                    !.mYays = d.mYays + Cardinality(newYes) - Cardinality(lostYes),
                    !.mNays = d.mNays + Cardinality(newNo) - Cardinality(lostNo)]
  BY DEF setVote, Dispute
<1>5. {p \in Peer : votes[p] = "yes"} = (yes \ lostYes) \cup newYes
  OBVIOUS
<1>6. {p \in Peer : votes[p] = "no"} = (no \ lostNo) \cup newNo
  OBVIOUS
<1>7. /\ Cardinality((yes \ lostYes) \cup newYes)
           = Cardinality(yes) + Cardinality(newYes) - Cardinality(lostYes)
      /\ Cardinality((no \ lostNo) \cup newNo)
           = Cardinality(no) + Cardinality(newNo) - Cardinality(lostNo)
  BY <1>1, ExchangeCardinality
<1>8. d.mYays = Cardinality(yes) /\ d.mNays = Cardinality(no)
  BY DEF CountsMatchVotes
<1>9. \A p \in Peer : votes[p] # "none" => d.mVotes[p] # "none" \/ p \in Y \cup N
  OBVIOUS
<1> HIDE DEF newYes, lostYes, newNo, lostNo, yes, no, votes, e
<1>10. /\ e.mOurVote = d.mOurVote /\ e.mVotes = votes
       /\ e.mYays = d.mYays + Cardinality(newYes) - Cardinality(lostYes)
       /\ e.mNays = d.mNays + Cardinality(newNo) - Cardinality(lostNo)
  BY <1>4 DEF Dispute
<1>11. e \in Dispute
  <2>1. /\ d.mYays + Cardinality(newYes) - Cardinality(lostYes) \in Int
        /\ d.mNays + Cardinality(newNo) - Cardinality(lostNo) \in Int
    BY <1>2, <1>8
  <2> QED
    BY <2>1, <1>3, <1>4 DEF Dispute
<1>12. CountsMatchVotes(e)
  BY <1>5, <1>6, <1>7, <1>8, <1>10 DEF CountsMatchVotes
<1> QED
  BY <1>9, <1>10, <1>11, <1>12 DEF e

LEMMA UnVoteSound ==
  ASSUME NEW d \in Dispute, CountsMatchVotes(d), NEW P \in SUBSET Peer
  PROVE  /\ unVote(d, P) \in Dispute
         /\ CountsMatchVotes(unVote(d, P))
         /\ unVote(d, P).mOurVote = d.mOurVote
         /\ \A p \in Peer : unVote(d, P).mVotes[p] # "none"
                              => d.mVotes[p] # "none" /\ p \notin P
<1> DEFINE e == unVote(d, P)
           lostYes == {p \in P : d.mVotes[p] = "yes"}
           lostNo == {p \in P : d.mVotes[p] = "no"}
           yes == {p \in Peer : d.mVotes[p] = "yes"}
           no == {p \in Peer : d.mVotes[p] = "no"}
           votes == [p \in Peer |-> IF p \in P THEN "none" ELSE d.mVotes[p]]
<1>1. /\ lostYes \in SUBSET yes /\ lostNo \in SUBSET no /\ {} \in SUBSET Peer
      /\ {} \cap yes = {} /\ {} \cap no = {}
      /\ yes \in SUBSET Peer /\ no \in SUBSET Peer
  OBVIOUS
<1>2. /\ Cardinality(lostYes) \in Nat /\ Cardinality(lostNo) \in Nat
      /\ Cardinality(yes) \in Nat /\ Cardinality(no) \in Nat /\ Cardinality({}) = 0
  BY <1>1, SubsetsFinite, FS_EmptySet
<1>3. votes \in [Peer -> Vote]
  BY DEF Dispute, Vote
<1>4. e = [d EXCEPT !.mVotes = votes,
                    !.mYays = d.mYays - Cardinality(lostYes),
                    !.mNays = d.mNays - Cardinality(lostNo)]
  BY DEF unVote, Dispute
<1>5. {p \in Peer : votes[p] = "yes"} = (yes \ lostYes) \cup {}
  OBVIOUS
<1>6. {p \in Peer : votes[p] = "no"} = (no \ lostNo) \cup {}
  OBVIOUS
<1>7. /\ Cardinality((yes \ lostYes) \cup {})
           = Cardinality(yes) + Cardinality({}) - Cardinality(lostYes)
      /\ Cardinality((no \ lostNo) \cup {})
           = Cardinality(no) + Cardinality({}) - Cardinality(lostNo)
  BY <1>1, ExchangeCardinality
<1>8. d.mYays = Cardinality(yes) /\ d.mNays = Cardinality(no)
  BY DEF CountsMatchVotes
<1>9. \A p \in Peer : votes[p] # "none" => d.mVotes[p] # "none" /\ p \notin P
  OBVIOUS
<1> HIDE DEF lostYes, lostNo, yes, no, votes, e
<1>10. /\ e.mOurVote = d.mOurVote /\ e.mVotes = votes
       /\ e.mYays = d.mYays - Cardinality(lostYes)
       /\ e.mNays = d.mNays - Cardinality(lostNo)
  BY <1>4 DEF Dispute
<1>11. e \in Dispute
  <2>1. d.mYays - Cardinality(lostYes) \in Int /\ d.mNays - Cardinality(lostNo) \in Int
    BY <1>2, <1>8
  <2> QED
    BY <2>1, <1>3, <1>4 DEF Dispute
<1>12. CountsMatchVotes(e)
  <2>1. /\ Cardinality((yes \ lostYes) \cup {}) = Cardinality(yes) - Cardinality(lostYes)
        /\ Cardinality((no \ lostNo) \cup {}) = Cardinality(no) - Cardinality(lostNo)
    BY <1>2, <1>7
  <2> QED
    BY <2>1, <1>5, <1>6, <1>8, <1>10 DEF CountsMatchVotes
<1> QED
  BY <1>9, <1>10, <1>11, <1>12 DEF e

\* updateVote touches nothing but our vote.
LEMMA UpdateVoteSound ==
  ASSUME NEW d \in Dispute, CountsMatchVotes(d), NEW percentTime, NEW proposing
  PROVE  LET e == updateVote(d, percentTime, proposing) IN
         e \in Dispute /\ e.mVotes = d.mVotes /\ CountsMatchVotes(e)
<1> DEFINE e == updateVote(d, percentTime, proposing)
           b == newPosition(d, percentTime, proposing)
<1>1. b \in BOOLEAN
  <2>1. d.mYays \in Nat /\ d.mNays \in Nat
    <3>1. {p \in Peer : d.mVotes[p] = "yes"} \in SUBSET Peer /\ {p \in Peer : d.mVotes[p] = "no"} \in SUBSET Peer
      OBVIOUS
    <3> QED
      BY <3>1, SubsetsFinite DEF CountsMatchVotes
  <2>2. neededWeight(percentTime) \in Nat
    BY DEF neededWeight, AV_INIT_CONSENSUS_PCT, AV_MID_CONSENSUS_PCT, AV_LATE_CONSENSUS_PCT,
           AV_STUCK_CONSENSUS_PCT
  <2>3. /\ d.mYays * 100 + (IF d.mOurVote THEN 100 ELSE 0) \in Nat
        /\ d.mNays + d.mYays + 1 \in Nat \ {0}
    BY <2>1
  <2>4. ASSUME NEW x \in Nat, NEW y \in Nat \ {0}, NEW w \in Nat
        PROVE  (x \div y > w) \in BOOLEAN
    OBVIOUS
  <2>5. CASE proposing
    BY <2>2, <2>3, <2>4, <2>5 DEF newPosition
  <2>6. CASE ~proposing
    BY <2>1, <2>6 DEF newPosition
  <2> QED
    BY <2>5, <2>6
<1> HIDE DEF b
<1>2. e = d \/ e = [d EXCEPT !.mOurVote = b]
  BY DEF updateVote, b
<1>3. e \in Dispute /\ e.mVotes = d.mVotes /\ e.mYays = d.mYays /\ e.mNays = d.mNays
  BY <1>1, <1>2 DEF Dispute
<1>4. CountsMatchVotes(e)
  BY <1>3 DEF CountsMatchVotes
<1> QED
  BY <1>3, <1>4

-----------------------------------------------------------------------------
(***************************************************************************)
(* What the bookkeeping of sets and disputes leaves alone.                 *)
(***************************************************************************)
SameCourse(r, q) ==
  /\ q.state = r.state
  /\ q.mPrevLedgerHash = r.mPrevLedgerHash /\ q.mPreviousLedger = r.mPreviousLedger
  /\ q.mHaveCorrectLCL = r.mHaveCorrectLCL /\ q.mProposing = r.mProposing
  /\ q.mHaveCloseTimeConsensus = r.mHaveCloseTimeConsensus
  /\ q.mOurPosition = r.mOurPosition /\ q.proposed = r.proposed
  /\ q.built = r.built /\ q.builtTime = r.builtTime

SamePeers(r, q) == q.mPeerPositions = r.mPeerPositions /\ q.mDeadNodes = r.mDeadNodes

SameDisputes(r, q) == q.disputed = r.disputed /\ q.mDisputes = r.mDisputes

LEMMA SameIsTransitive ==
  ASSUME NEW r, NEW s, NEW q
  PROVE  /\ SameCourse(r, r) /\ SamePeers(r, r) /\ SameDisputes(r, r)
         /\ SameCourse(r, s) /\ SameCourse(s, q) => SameCourse(r, q)
         /\ SamePeers(r, s) /\ SamePeers(s, q) => SamePeers(r, q)
         /\ SameDisputes(r, s) /\ SameDisputes(s, q) => SameDisputes(r, q)
  BY DEF SameCourse, SamePeers, SameDisputes

\* Votes are about positions and disputes, and nothing else.
LEMMA VotesDepend ==
  ASSUME NEW r, NEW q \in Round, SamePeers(r, q), SameDisputes(r, q)
  PROVE  /\ PeerVotesSound(r) => PeerVotesSound(q)
         /\ OurVotesSound(r) /\ q.mOurPosition = r.mOurPosition => OurVotesSound(q)
<1>1. proposersOf(q) = proposersOf(r)
  BY DEF proposersOf, SamePeers
<1>2. PeerVotesSound(r) => PeerVotesSound(q)
  BY <1>1 DEF PeerVotesSound, SamePeers, SameDisputes
<1>3. OurVotesSound(r) /\ q.mOurPosition = r.mOurPosition => OurVotesSound(q)
  BY DEF OurVotesSound, hasPosition, isBowOut, SameDisputes
<1> QED
  BY <1>2, <1>3

(***************************************************************************)
(* InboundTransactions: sets asked for, taken and published.               *)
(***************************************************************************)
LEMMA GetTransactionTreeSound ==
  ASSUME NEW r \in Round, NEW H \in SUBSET TxSet
  PROVE  LET q == getTransactionTree(r, H) IN
         /\ q \in Round /\ SameCourse(r, q) /\ SamePeers(r, q) /\ SameDisputes(r, q)
         /\ q.gotSet = r.gotSet
<1> DEFINE p == getSet(r, H \ r.mAcquired)
           q == getTransactionTree(r, H)
<1>1. p = [r EXCEPT !.acquiring = r.acquiring \cup ((H \ r.mAcquired) \ r.complete)]
  BY DEF getSet, Round
<1> HIDE DEF p
<1>2. p \in Round
  <2>1. r.acquiring \cup ((H \ r.mAcquired) \ r.complete) \in SUBSET TxSet
    BY DEF Round
  <2> QED
    BY <1>1, <2>1 DEF Round
<1>3. SameCourse(r, p) /\ SamePeers(r, p) /\ SameDisputes(r, p) /\ p.gotSet = r.gotSet
  BY <1>1 DEF SameCourse, SamePeers, SameDisputes, Round
<1>q. q = [p EXCEPT !.mAcquired = p.mAcquired \cup (H \cap r.complete)]
  BY <1>2 DEF getTransactionTree, Round, p
<1> HIDE DEF q
<1>4. q \in Round
  BY <1>2, <1>q DEF Round
<1>5. SameCourse(p, q) /\ SamePeers(p, q) /\ SameDisputes(p, q) /\ q.gotSet = p.gotSet
  BY <1>2, <1>q DEF SameCourse, SamePeers, SameDisputes, Round
<1> QED
  BY <1>3, <1>4, <1>5, SameIsTransitive DEF q

LEMMA GiveSetSound ==
  ASSUME NEW r \in Round, NEW s \in TxSet
  PROVE  LET q == giveSet(r, s) IN
         /\ q \in Round /\ SameCourse(r, q) /\ SamePeers(r, q) /\ SameDisputes(r, q)
         /\ q.mAcquired = r.mAcquired /\ q.gotSet = r.gotSet
<1> DEFINE q == giveSet(r, s)
<1>1. q = [r EXCEPT !.complete = r.complete \cup {s}, !.acquiring = r.acquiring \ {s}]
  BY DEF giveSet, Round
<1> HIDE DEF q
<1>2. q \in Round
  BY <1>1 DEF Round
<1>3. /\ SameCourse(r, q) /\ SamePeers(r, q) /\ SameDisputes(r, q)
      /\ q.mAcquired = r.mAcquired /\ q.gotSet = r.gotSet
  BY <1>1 DEF SameCourse, SamePeers, SameDisputes, Round
<1> QED
  BY <1>2, <1>3 DEF q

(***************************************************************************)
(* New values for the disputes.                                            *)
(***************************************************************************)
WithDisputes(r, D) == [r EXCEPT !.mDisputes = D]

LEMMA WithDisputesSound ==
  ASSUME NEW r, PeerVotesSound(r), NEW D \in [Tx -> Dispute],
         \A t \in Tx : DisputeSound(D[t], proposersOf(r))
  PROVE  LET q == WithDisputes(r, D) IN
         /\ PeerVotesSound(q) /\ SameCourse(r, q) /\ SamePeers(r, q)
         /\ q.disputed = r.disputed /\ q.mDisputes = D
         /\ q.mAcquired = r.mAcquired /\ q.gotSet = r.gotSet
         /\ (\A t \in r.disputed : D[t].mOurVote = r.mDisputes[t].mOurVote)
              /\ OurVotesSound(r) => OurVotesSound(q)
<1> DEFINE q == WithDisputes(r, D)
<1>1. r \in Round
  BY DEF PeerVotesSound
<1>2. q \in Round
  BY <1>1 DEF WithDisputes, Round
<1>3. /\ SameCourse(r, q) /\ SamePeers(r, q) /\ q.disputed = r.disputed /\ q.mDisputes = D
      /\ q.mAcquired = r.mAcquired /\ q.gotSet = r.gotSet
  BY <1>1 DEF WithDisputes, SameCourse, SamePeers, Round
<1> HIDE DEF q
<1>4. proposersOf(q) = proposersOf(r)
  BY <1>3 DEF SamePeers, proposersOf
<1>5. PeerVotesSound(q)
  BY <1>2, <1>3, <1>4 DEF PeerVotesSound, SamePeers
<1>6. ASSUME OurVotesSound(r), \A t \in r.disputed : D[t].mOurVote = r.mDisputes[t].mOurVote
      PROVE  OurVotesSound(q)
  <2>1. q.mOurPosition = r.mOurPosition
    BY <1>3 DEF SameCourse
  <2> QED
    BY <1>3, <1>6, <2>1 DEF OurVotesSound, hasPosition, isBowOut
<1> QED
  BY <1>3, <1>5, <1>6 DEF q

(***************************************************************************)
(* A new dispute has the votes of the known positions, and ours.           *)
(***************************************************************************)
LEMMA NewDisputeOfRoundSound ==
  ASSUME NEW r \in Round, NEW t \in Tx
  PROVE  LET d == newDispute(r, t) IN
         /\ d \in Dispute /\ DisputeSound(d, proposersOf(r))
         /\ d.mOurVote = (hasPosition(r) /\ t \in r.mOurPosition.set)
<1> DEFINE known == {p \in proposersOf(r) : r.mPeerPositions[p].set \in r.mAcquired}
           yes == {p \in known : t \in r.mPeerPositions[p].set}
           ours == hasPosition(r) /\ t \in r.mOurPosition.set
           d == newDispute(r, t)
<1>1. proposersOf(r) \in SUBSET Peer
  BY DEF proposersOf
<1>2. /\ known \in SUBSET proposersOf(r) /\ yes \in SUBSET known /\ ours \in BOOLEAN
      /\ yes \in SUBSET Peer /\ known \ yes \in SUBSET Peer /\ yes \cap (known \ yes) = {}
  BY <1>1
<1>3. d = setVote(NewDispute(ours), yes, known \ yes)
  BY DEF newDispute
<1> HIDE DEF known, yes, ours, d
<1>4. /\ NewDispute(ours) \in Dispute /\ CountsMatchVotes(NewDispute(ours))
      /\ NewDispute(ours).mOurVote = ours
      /\ \A p \in Peer : NewDispute(ours).mVotes[p] = "none"
  BY <1>2, NewDisputeSound
<1>5. /\ d \in Dispute /\ CountsMatchVotes(d) /\ d.mOurVote = NewDispute(ours).mOurVote
      /\ \A p \in Peer : d.mVotes[p] # "none"
           => NewDispute(ours).mVotes[p] # "none" \/ p \in yes \cup (known \ yes)
  BY <1>2, <1>3, <1>4, SetVoteSound
<1>6. DisputeSound(d, proposersOf(r))
  BY <1>2, <1>4, <1>5 DEF DisputeSound
<1> QED
  BY <1>4, <1>5, <1>6 DEF d, ours

LEMMA CreateDisputesSound ==
  ASSUME NEW r, VotesSound(r), NEW Others \in SUBSET TxSet
  PROVE  LET q == createDisputes(r, Others) IN
         /\ VotesSound(q) /\ SameCourse(r, q) /\ SamePeers(r, q)
         /\ q.mAcquired = r.mAcquired /\ q.gotSet = r.gotSet
<1> DEFINE ours == r.mOurPosition.set
           differences == UNION {(ours \ s) \cup (s \ ours) : s \in Others}
           D == [t \in Tx |-> IF t \in differences \ r.disputed
                                THEN newDispute(r, t) ELSE r.mDisputes[t]]
           q == createDisputes(r, Others)
<1>1. r \in Round /\ PeerVotesSound(r) /\ OurVotesSound(r)
  BY DEF VotesSound, PeerVotesSound
<1>2. ours \in SUBSET Tx
  BY <1>1 DEF Round, Position, NoPosition, TxSet
<1>3. differences \in SUBSET Tx
  BY <1>2 DEF TxSet
<1>4. q = [r EXCEPT !.mCompares = r.mCompares \cup Others,
                    !.disputed = r.disputed \cup differences, !.mDisputes = D]
  BY <1>1 DEF createDisputes, Round
<1>5. \A t \in Tx :
        /\ D[t] = IF t \in differences \ r.disputed THEN newDispute(r, t) ELSE r.mDisputes[t]
        /\ D[t] \in Dispute /\ DisputeSound(D[t], proposersOf(r))
  <2> TAKE t \in Tx
  <2>1. newDispute(r, t) \in Dispute /\ DisputeSound(newDispute(r, t), proposersOf(r))
    BY <1>1, NewDisputeOfRoundSound
  <2>2. r.mDisputes[t] \in Dispute /\ DisputeSound(r.mDisputes[t], proposersOf(r))
    BY <1>1 DEF PeerVotesSound, Round
  <2> QED
    BY <2>1, <2>2
<1>6. D \in [Tx -> Dispute]
  BY <1>5
<1> HIDE DEF D, differences, q
<1>7. q \in Round
  <2>1. r.mCompares \cup Others \in SUBSET TxSet /\ r.disputed \cup differences \in SUBSET Tx
    BY <1>1, <1>3 DEF Round
  <2> QED
    BY <1>1, <1>4, <1>6, <2>1 DEF Round
<1>8. /\ SameCourse(r, q) /\ SamePeers(r, q) /\ q.mDisputes = D
      /\ q.disputed = r.disputed \cup differences
      /\ q.mAcquired = r.mAcquired /\ q.gotSet = r.gotSet
  BY <1>1, <1>4 DEF SameCourse, SamePeers, Round
<1>9. proposersOf(q) = proposersOf(r)
  BY <1>8 DEF SamePeers, proposersOf
<1>10. PeerVotesSound(q)
  BY <1>1, <1>5, <1>7, <1>8, <1>9 DEF PeerVotesSound, SamePeers
<1>11. OurVotesSound(q)
  <2> SUFFICES ASSUME hasPosition(q), ~isBowOut(q.mOurPosition), NEW t \in q.disputed
               PROVE  q.mDisputes[t].mOurVote <=> t \in q.mOurPosition.set
    BY DEF OurVotesSound
  <2>1. q.mOurPosition = r.mOurPosition /\ hasPosition(r) /\ ~isBowOut(r.mOurPosition)
    BY <1>8 DEF SameCourse, hasPosition
  <2>2. t \in Tx
    BY <1>7 DEF Round
  <2>3. CASE t \in differences \ r.disputed
    BY <1>1, <1>5, <1>8, <2>1, <2>2, <2>3, NewDisputeOfRoundSound
  <2>4. CASE t \in r.disputed
    BY <1>1, <1>5, <1>8, <2>1, <2>2, <2>4 DEF OurVotesSound
  <2> QED
    BY <1>8, <2>3, <2>4
<1> QED
  BY <1>8, <1>10, <1>11 DEF VotesSound, q

LEMMA AdjustCountSound ==
  ASSUME NEW r, PeerVotesSound(r), NEW s, NEW P \in SUBSET proposersOf(r)
  PROVE  LET q == adjustCount(r, s, P) IN
         /\ PeerVotesSound(q) /\ SameCourse(r, q) /\ SamePeers(r, q)
         /\ OurVotesSound(r) => OurVotesSound(q)
         /\ q.mAcquired = r.mAcquired /\ q.gotSet = r.gotSet
<1> DEFINE D == [t \in Tx |->
                   IF t \notin r.disputed THEN r.mDisputes[t]
                   ELSE IF t \in s THEN setVote(r.mDisputes[t], P, {})
                   ELSE setVote(r.mDisputes[t], {}, P)]
           q == adjustCount(r, s, P)
<1>1. r \in Round
  BY DEF PeerVotesSound
<1>2. q = WithDisputes(r, D)
  BY <1>1 DEF adjustCount, WithDisputes, Round
<1>3. P \in SUBSET Peer /\ {} \in SUBSET Peer /\ P \cap {} = {} /\ {} \cap P = {}
  BY DEF proposersOf
<1>4. ASSUME NEW t \in Tx
      PROVE  /\ D[t] \in Dispute /\ DisputeSound(D[t], proposersOf(r))
             /\ D[t].mOurVote = r.mDisputes[t].mOurVote
  <2> DEFINE d == r.mDisputes[t]
  <2>1. d \in Dispute /\ DisputeSound(d, proposersOf(r)) /\ CountsMatchVotes(d)
    BY <1>1 DEF PeerVotesSound, DisputeSound, Round
  <2>2. /\ setVote(d, P, {}) \in Dispute /\ DisputeSound(setVote(d, P, {}), proposersOf(r))
        /\ setVote(d, P, {}).mOurVote = d.mOurVote
    BY <1>3, <2>1, SetVoteSound DEF DisputeSound
  <2>3. /\ setVote(d, {}, P) \in Dispute /\ DisputeSound(setVote(d, {}, P), proposersOf(r))
        /\ setVote(d, {}, P).mOurVote = d.mOurVote
    BY <1>3, <2>1, SetVoteSound DEF DisputeSound
  <2>4. D[t] = d \/ D[t] = setVote(d, P, {}) \/ D[t] = setVote(d, {}, P)
    OBVIOUS
  <2> HIDE DEF D, d
  <2> QED
    BY <2>1, <2>2, <2>3, <2>4 DEF d
<1>5. D \in [Tx -> Dispute]
  BY <1>4
<1>6. r.disputed \subseteq Tx
  BY <1>1 DEF Round
<1> HIDE DEF D, q
<1> QED
  BY <1>2, <1>4, <1>5, <1>6, WithDisputesSound DEF q

(***************************************************************************)
(* mapCompleteInternal: a set we have now, compared and counted.           *)
(***************************************************************************)
LEMMA MapCompleteInternalSound ==
  ASSUME NEW r, VotesSound(r), NEW s \in TxSet, NEW acquired \in BOOLEAN
  PROVE  LET q == mapCompleteInternal(r, s, acquired) IN
         /\ VotesSound(q) /\ SameCourse(r, q) /\ SamePeers(r, q) /\ q.gotSet = r.gotSet
<1> DEFINE given == IF acquired THEN r ELSE giveSet(r, s)
           compared ==
             IF hasPosition(r) /\ ~isBowOut(r.mOurPosition) /\ s # r.mOurPosition.set
               THEN createDisputes(given, {s}) ELSE given
           known == [compared EXCEPT !.mAcquired = compared.mAcquired \cup {s}]
           P == {p \in proposersOf(r) : r.mPeerPositions[p].set = s}
           q == mapCompleteInternal(r, s, acquired)
<1>1. r \in Round
  BY DEF VotesSound, PeerVotesSound
<1>2. /\ VotesSound(given) /\ SameCourse(r, given) /\ SamePeers(r, given)
      /\ given.gotSet = r.gotSet
  <2>1. CASE acquired
    BY <2>1, SameIsTransitive
  <2>2. CASE ~acquired
    <3>1. /\ giveSet(r, s) \in Round /\ SameCourse(r, giveSet(r, s)) /\ SamePeers(r, giveSet(r, s))
          /\ SameDisputes(r, giveSet(r, s)) /\ giveSet(r, s).gotSet = r.gotSet
      BY <1>1, GiveSetSound
    <3>2. VotesSound(giveSet(r, s))
      BY <3>1, VotesDepend DEF VotesSound, SameCourse
    <3> QED
      BY <2>2, <3>1, <3>2
  <2> QED
    BY <2>1, <2>2
<1> HIDE DEF given
<1>3. /\ VotesSound(compared) /\ SameCourse(r, compared) /\ SamePeers(r, compared)
      /\ compared.gotSet = r.gotSet
  <2>1. /\ VotesSound(createDisputes(given, {s})) /\ SameCourse(given, createDisputes(given, {s}))
        /\ SamePeers(given, createDisputes(given, {s}))
        /\ createDisputes(given, {s}).gotSet = given.gotSet
    BY <1>2, CreateDisputesSound
  <2> QED
    BY <1>2, <2>1, SameIsTransitive
<1>4. compared \in Round
  BY <1>3 DEF VotesSound, PeerVotesSound
<1>5. q = IF s \in r.mAcquired THEN r ELSE adjustCount(known, s, P)
  BY <1>4 DEF mapCompleteInternal, given, Round
<1> HIDE DEF compared
<1>6. known \in Round
  BY <1>4 DEF Round
<1>7. SameCourse(compared, known) /\ SamePeers(compared, known) /\ SameDisputes(compared, known)
      /\ known.gotSet = compared.gotSet
  BY <1>4 DEF SameCourse, SamePeers, SameDisputes, Round
<1> HIDE DEF known, q
<1>8. VotesSound(known)
  BY <1>3, <1>6, <1>7, VotesDepend DEF VotesSound, SameCourse
<1>9. SameCourse(r, known) /\ SamePeers(r, known) /\ known.gotSet = r.gotSet
  BY <1>3, <1>7, SameIsTransitive
<1>10. P \in SUBSET proposersOf(known)
  BY <1>9 DEF SamePeers, proposersOf
<1> HIDE DEF P
<1>11. LET a == adjustCount(known, s, P) IN
       /\ VotesSound(a) /\ SameCourse(known, a) /\ SamePeers(known, a) /\ a.gotSet = known.gotSet
  BY <1>8, <1>10, AdjustCountSound DEF VotesSound
<1>12. CASE s \in r.mAcquired
  BY <1>5, <1>12, SameIsTransitive DEF q
<1>13. CASE s \notin r.mAcquired
  BY <1>5, <1>9, <1>11, <1>13, SameIsTransitive DEF q
<1> QED
  BY <1>12, <1>13

(***************************************************************************)
(* Peers that leave take their votes with them.                            *)
(***************************************************************************)
LEMMA RemovePeersSound ==
  ASSUME NEW r, PeerVotesSound(r), NEW P \in SUBSET Peer
  PROVE  LET q == removePeers(r, P) IN
         /\ PeerVotesSound(q) /\ SameCourse(r, q)
         /\ proposersOf(q) = proposersOf(r) \ P /\ q.mDeadNodes = r.mDeadNodes
         /\ q.disputed = r.disputed /\ q.gotSet = r.gotSet
         /\ OurVotesSound(r) => OurVotesSound(q)
<1> DEFINE D == [t \in Tx |-> unVote(r.mDisputes[t], P)]
           pp == [p \in Peer |-> IF p \in P THEN NoPosition ELSE r.mPeerPositions[p]]
           q == removePeers(r, P)
<1>1. r \in Round
  BY DEF PeerVotesSound
<1>2. q = [r EXCEPT !.mPeerPositions = pp, !.mDisputes = D]
  BY <1>1 DEF removePeers, Round
<1>3. pp \in [Peer -> Position \cup {NoPosition}]
  BY <1>1 DEF Round
<1>4. {p \in Peer : pp[p] # NoPosition} = proposersOf(r) \ P
  BY DEF proposersOf
<1>5. ASSUME NEW t \in Tx
      PROVE  /\ D[t] \in Dispute /\ DisputeSound(D[t], proposersOf(r) \ P)
             /\ D[t].mOurVote = r.mDisputes[t].mOurVote
  <2> DEFINE d == r.mDisputes[t]
  <2>1. d \in Dispute /\ DisputeSound(d, proposersOf(r)) /\ CountsMatchVotes(d)
    BY <1>1 DEF PeerVotesSound, DisputeSound, Round
  <2>2. D[t] = unVote(d, P)
    OBVIOUS
  <2> HIDE DEF D, d
  <2>3. /\ unVote(d, P) \in Dispute /\ DisputeSound(unVote(d, P), proposersOf(r) \ P)
        /\ unVote(d, P).mOurVote = d.mOurVote
    BY <2>1, UnVoteSound DEF DisputeSound
  <2> QED
    BY <2>2, <2>3 DEF d
<1>6. D \in [Tx -> Dispute]
  BY <1>5
<1> HIDE DEF D, pp, q
<1>7. q \in Round
  BY <1>1, <1>2, <1>3, <1>6 DEF Round
<1>8. /\ SameCourse(r, q) /\ q.mPeerPositions = pp /\ q.mDisputes = D
      /\ q.disputed = r.disputed /\ q.mDeadNodes = r.mDeadNodes /\ q.gotSet = r.gotSet
  BY <1>1, <1>2 DEF SameCourse, Round
<1>9. proposersOf(q) = proposersOf(r) \ P
  BY <1>4, <1>8 DEF proposersOf
<1>10. PeerVotesSound(q)
  BY <1>5, <1>7, <1>8, <1>9 DEF PeerVotesSound
<1>11. ASSUME OurVotesSound(r) PROVE OurVotesSound(q)
  <2>1. q.mOurPosition = r.mOurPosition /\ r.disputed \subseteq Tx
    BY <1>1, <1>8 DEF SameCourse, Round
  <2> QED
    BY <1>5, <1>8, <1>11, <2>1 DEF OurVotesSound, hasPosition, isBowOut
<1> QED
  BY <1>8, <1>9, <1>10, <1>11 DEF q

(***************************************************************************)
(* peerPosition: a bow-out, or a position that is newer than the last.     *)
(***************************************************************************)
LEMMA NoPositionIsNone == NoPosition \notin Position
  BY DEF Position, NoPosition

LEMMA PeerPositionSound ==
  ASSUME NEW r, VotesSound(r), NEW p \in Peer, NEW pos \in Position
  PROVE  LET q == peerPosition(r, p, pos) IN
         /\ VotesSound(q) /\ SameCourse(r, q) /\ q.gotSet = r.gotSet
<1> DEFINE removed == removePeers(r, {p})
           left == [removed EXCEPT !.mDeadNodes = removed.mDeadNodes \cup {p}]
           pp == [r.mPeerPositions EXCEPT ![p] = pos]
           told == [r EXCEPT !.mPeerPositions = pp]
           moved == getTransactionTree(told, {pos.set})
           q == peerPosition(r, p, pos)
<1>1. r \in Round /\ PeerVotesSound(r) /\ OurVotesSound(r)
  BY DEF VotesSound, PeerVotesSound
<1>2. VotesSound(left) /\ SameCourse(r, left) /\ left.gotSet = r.gotSet
  <2>1. {p} \in SUBSET Peer
    OBVIOUS
  <2>2. /\ PeerVotesSound(removed) /\ SameCourse(r, removed)
        /\ proposersOf(removed) = proposersOf(r) \ {p}
        /\ removed.mDeadNodes = r.mDeadNodes /\ removed.gotSet = r.gotSet
        /\ OurVotesSound(removed)
    BY <1>1, <2>1, RemovePeersSound
  <2> HIDE DEF removed
  <2>3. removed \in Round
    BY <2>2 DEF PeerVotesSound
  <2>4. left \in Round
    BY <2>3 DEF Round
  <2>5. /\ SameCourse(removed, left) /\ SameDisputes(removed, left) /\ left.gotSet = removed.gotSet
        /\ left.mPeerPositions = removed.mPeerPositions
        /\ left.mDeadNodes = removed.mDeadNodes \cup {p}
    BY <2>3 DEF SameCourse, SameDisputes, Round
  <2> HIDE DEF left
  <2>6. proposersOf(left) = proposersOf(removed)
    BY <2>5 DEF proposersOf
  <2>7. PeerVotesSound(left)
    BY <2>2, <2>4, <2>5, <2>6 DEF PeerVotesSound, SameDisputes
  <2>8. OurVotesSound(left)
    BY <2>2, <2>5 DEF OurVotesSound, SameDisputes, SameCourse, hasPosition, isBowOut
  <2> QED
    BY <2>2, <2>5, <2>7, <2>8, SameIsTransitive DEF VotesSound
<1>3. ASSUME p \notin r.mDeadNodes
      PROVE  /\ VotesSound(moved) /\ SameCourse(r, moved) /\ moved.gotSet = r.gotSet
             /\ p \in proposersOf(moved)
  <2>1. pp \in [Peer -> Position \cup {NoPosition}] /\ pp[p] = pos
    BY <1>1 DEF Round
  <2>2. \A x \in Peer : x # p => pp[x] = r.mPeerPositions[x]
    BY <1>1 DEF Round
  <2> HIDE DEF pp
  <2>3. told \in Round
    BY <1>1, <2>1 DEF Round
  <2>4. /\ SameCourse(r, told) /\ SameDisputes(r, told) /\ told.gotSet = r.gotSet
        /\ told.mPeerPositions = pp /\ told.mDeadNodes = r.mDeadNodes
    BY <1>1 DEF SameCourse, SameDisputes, Round
  <2> HIDE DEF told
  <2>5. proposersOf(told) = proposersOf(r) \cup {p}
    BY <2>1, <2>2, <2>4, NoPositionIsNone DEF proposersOf
  <2>6. PeerVotesSound(told)
    BY <1>1, <1>3, <2>3, <2>4, <2>5 DEF PeerVotesSound, DisputeSound, SameDisputes
  <2>7. OurVotesSound(told)
    BY <1>1, <2>4 DEF OurVotesSound, SameDisputes, SameCourse, hasPosition, isBowOut
  <2>8. {pos.set} \in SUBSET TxSet
    BY DEF Position
  <2>9. /\ moved \in Round /\ SameCourse(told, moved) /\ SamePeers(told, moved)
        /\ SameDisputes(told, moved) /\ moved.gotSet = told.gotSet
    BY <2>3, <2>8, GetTransactionTreeSound
  <2> HIDE DEF moved
  <2>10. VotesSound(moved)
    BY <2>6, <2>7, <2>9, VotesDepend DEF VotesSound, SameCourse
  <2>11. p \in proposersOf(moved)
    BY <2>5, <2>9 DEF SamePeers, proposersOf
  <2> QED
    BY <2>4, <2>9, <2>10, <2>11, SameIsTransitive
<1>4. /\ ignores(r, p, pos) => q = r
      /\ ~ignores(r, p, pos) /\ isBowOut(pos) => q = left
      /\ ~ignores(r, p, pos) /\ ~isBowOut(pos) =>
           q = moved \/ q = adjustCount(moved, pos.set, {p})
  <2>1. removed \in Round
    <3>1. {p} \in SUBSET Peer
      OBVIOUS
    <3> QED
      BY <1>1, <3>1, RemovePeersSound DEF PeerVotesSound
  <2>2. left = [removed EXCEPT !.mDeadNodes = @ \cup {p}]
    BY <2>1 DEF Round
  <2>3. told = [r EXCEPT !.mPeerPositions[p] = pos]
    BY <1>1 DEF Round
  <2> HIDE DEF left, told
  <2> QED
    BY <2>2, <2>3 DEF peerPosition
<1> HIDE DEF left, moved, q
<1>5. CASE ignores(r, p, pos)
  BY <1>4, <1>5, SameIsTransitive DEF q
<1>6. CASE ~ignores(r, p, pos) /\ isBowOut(pos)
  BY <1>2, <1>4, <1>6 DEF q
<1>7. CASE ~ignores(r, p, pos) /\ ~isBowOut(pos)
  <2>1. /\ VotesSound(moved) /\ SameCourse(r, moved) /\ moved.gotSet = r.gotSet
        /\ {p} \in SUBSET proposersOf(moved)
    BY <1>3, <1>7 DEF ignores
  <2>2. LET a == adjustCount(moved, pos.set, {p}) IN
        VotesSound(a) /\ SameCourse(moved, a) /\ a.gotSet = moved.gotSet
    BY <2>1, AdjustCountSound DEF VotesSound
  <2> QED
    BY <1>4, <1>7, <2>1, <2>2, SameIsTransitive DEF q
<1> QED
  BY <1>5, <1>6, <1>7

-----------------------------------------------------------------------------
(***************************************************************************)
(* Sets of naturals have a least element, bounded ones a greatest.         *)
(***************************************************************************)
LEMMA LeastNatural ==
  ASSUME NEW T \in SUBSET Nat, T # {}
  PROVE  \E x \in T : \A y \in T : x <= y
<1>1. PICK x \in T : \A y \in T : ~(<<y, x>> \in OpToRel(<, Nat))
  BY WFMin, NatLessThanWellFounded
<1>2. \A y \in T : <<y, x>> \in OpToRel(<, Nat) <=> y < x
  BY DEF OpToRel
<1>3. \A y \in T : ~(y < x)
  BY <1>1, <1>2, Zenon
<1> QED
  BY <1>3

LEMMA GreatestNatural ==
  ASSUME NEW T \in SUBSET Nat, T # {}, NEW b \in Nat, \A x \in T : x <= b
  PROVE  \E x \in T : \A y \in T : y <= x
<1> DEFINE bounds == {n \in Nat : \A x \in T : x <= n}
<1>1. PICK n \in bounds : \A m \in bounds : n <= m
  <2>1. bounds \in SUBSET Nat /\ bounds # {}
    OBVIOUS
  <2> HIDE DEF bounds
  <2> QED
    BY <2>1, LeastNatural
<1>2. n \in T
  <2> SUFFICES ASSUME n \notin T PROVE FALSE
    OBVIOUS
  <2>1. PICK x \in T : TRUE
    OBVIOUS
  <2>2. n - 1 \in Nat /\ \A y \in T : y <= n - 1
    BY <2>1
  <2>3. n - 1 \in bounds
    BY <2>2
  <2> QED
    BY <1>1, <2>3
<1> QED
  BY <1>1, <1>2

(***************************************************************************)
(* playbackProposals, on an object without disputes: positions and dead    *)
(* nodes are those of the stored proposals.                                *)
(***************************************************************************)
LEMMA PlaybackSound ==
  ASSUME NEW r \in Round, r.disputed = {}, r.mDisputes = NoDisputes,
         NEW sto, StoredSound(sto)
  PROVE  LET q == playbackProposals(r, sto) IN
         /\ VotesSound(q) /\ SameCourse(r, q) /\ SameDisputes(r, q) /\ q.gotSet = r.gotSet
<1> DEFINE seqAt(p, i) == sto[p][i].pos.proposeSeq
           mine(p) == {i \in DOMAIN sto[p] : sto[p][i].prevLedger = r.mPrevLedgerHash}
           counted(p) == {i \in mine(p) : \A j \in mine(p) : j < i => seqAt(p, j) < seqAt(p, i)}
           leaves(p) == \E i \in counted(p) : seqAt(p, i) = seqLeave
           latest(p) == sto[p][CHOOSE i \in counted(p) : \A j \in counted(p) : j <= i].pos
           present == {p \in Peer : counted(p) # {} /\ ~leaves(p)}
           sets == UNION {{sto[p][i].pos.set : i \in
                             {k \in counted(p) : seqAt(p, k) # seqLeave}} : p \in Peer}
           dead == {p \in Peer : leaves(p)}
           pp == [p \in Peer |-> IF p \in present THEN latest(p) ELSE NoPosition]
           told == [r EXCEPT !.mPeerPositions = pp, !.mDeadNodes = dead]
           q == playbackProposals(r, sto)
<1>1. q = getTransactionTree(told, sets)
  BY DEF playbackProposals
<1>2. \A p \in Peer : \A i \in DOMAIN sto[p] : sto[p][i].pos \in Position
  <2>1. \A p \in Peer : sto[p] \in Seq(Proposal)
    BY DEF StoredSound
  <2>2. \A p \in Peer : \A i \in DOMAIN sto[p] : sto[p][i] \in Proposal
    BY <2>1
  <2>3. \A x \in Proposal : x.pos \in Position
    BY DEF Proposal
  <2> QED
    BY <2>2, <2>3
<1>3. ASSUME NEW p \in Peer PROVE counted(p) \subseteq DOMAIN sto[p]
  OBVIOUS
<1>4. ASSUME NEW p \in present PROVE latest(p) \in Position
  <2> DEFINE T == counted(p)
  <2>1. T # {} /\ T \subseteq DOMAIN sto[p]
    OBVIOUS
  <2>2. T \in SUBSET Nat /\ Len(sto[p]) \in Nat /\ \A i \in T : i <= Len(sto[p])
    BY <2>1 DEF StoredSound
  <2> HIDE DEF T
  <2>3. \E i \in T : \A j \in T : j <= i
    BY <2>1, <2>2, GreatestNatural
  <2>4. (CHOOSE i \in T : \A j \in T : j <= i) \in T
    BY <2>3
  <2>5. sto[p][CHOOSE i \in T : \A j \in T : j <= i].pos \in Position
    BY <1>2, <2>1, <2>4
  <2> QED
    BY <2>5 DEF T
<1>5. sets \in SUBSET TxSet
  <2>1. \A p \in Peer : \A i \in counted(p) : sto[p][i].pos.set \in TxSet
    BY <1>2 DEF Position
  <2> HIDE DEF counted
  <2> QED
    BY <2>1
<1>6. present \cap dead = {} /\ dead \subseteq Peer
  OBVIOUS
<1> HIDE DEF counted, latest, present, dead, sets
<1>7. pp \in [Peer -> Position \cup {NoPosition}]
  BY <1>4
<1>8. {p \in Peer : pp[p] # NoPosition} \subseteq present
  OBVIOUS
<1> HIDE DEF pp
<1>9. told \in Round
  BY <1>6, <1>7 DEF Round
<1>10. /\ SameCourse(r, told) /\ SameDisputes(r, told) /\ told.gotSet = r.gotSet
       /\ told.mPeerPositions = pp /\ told.mDeadNodes = dead
  BY DEF SameCourse, SameDisputes, Round
<1> HIDE DEF told, q
<1>11. /\ q \in Round /\ SameCourse(told, q) /\ SamePeers(told, q) /\ SameDisputes(told, q)
       /\ q.gotSet = told.gotSet
  BY <1>1, <1>5, <1>9, GetTransactionTreeSound
<1>12. SameCourse(r, q) /\ SameDisputes(r, q)
  BY <1>10, <1>11, SameIsTransitive
<1>13. PeerVotesSound(q)
  <2>1. proposersOf(q) \cap q.mDeadNodes = {}
    BY <1>6, <1>8, <1>10, <1>11 DEF proposersOf, SamePeers
  <2>2. ASSUME NEW t \in Tx PROVE DisputeSound(q.mDisputes[t], proposersOf(q))
    <3>1. q.mDisputes[t] = NewDispute(FALSE)
      BY <1>12 DEF SameDisputes, NoDisputes
    <3> QED
      BY <3>1, NewDisputeSound DEF DisputeSound
  <2> QED
    BY <1>11, <2>1, <2>2 DEF PeerVotesSound
<1>14. OurVotesSound(q)
  BY <1>12 DEF OurVotesSound, SameDisputes
<1> QED
  BY <1>10, <1>11, <1>12, <1>13, <1>14 DEF VotesSound, q

-----------------------------------------------------------------------------
(***************************************************************************)
(* What we broadcast has a higher number than what we broadcast before.    *)
(***************************************************************************)
Advances(r, q) ==
  q.proposed # r.proposed => q.proposed.proposeSeq > r.proposed.proposeSeq

LEMMA ProposeSeqType ==
  ASSUME NEW r \in Round
  PROVE  /\ r.proposed.proposeSeq \in Int /\ r.mOurPosition.proposeSeq \in Int
         /\ r.proposed.proposeSeq <= seqLeave /\ r.mOurPosition.proposeSeq <= seqLeave
         /\ seqLeave \in Nat /\ seqLeave = MaxProposeSeq + 2 /\ MaxProposeSeq \in Nat
<1>1. seqLeave \in Nat /\ seqLeave = MaxProposeSeq + 2 /\ MaxProposeSeq \in Nat
  BY LedgerConsensusAssumption DEF seqLeave
<1>2. r.proposed \in Position \cup {NoPosition} /\ r.mOurPosition \in Position \cup {NoPosition}
  BY DEF Round
<1>3. \A pos \in Position \cup {NoPosition} : pos.proposeSeq \in Int /\ pos.proposeSeq <= seqLeave
  BY <1>1 DEF Position, NoPosition
<1> QED
  BY <1>1, <1>2, <1>3

LEMMA AdvancesTransitive ==
  ASSUME NEW r \in Round, NEW s \in Round, NEW q \in Round, Advances(r, s), Advances(s, q)
  PROVE  Advances(r, q)
  BY ProposeSeqType DEF Advances

(***************************************************************************)
(* bowOut and startOver: the node stops proposing, and may say so once.    *)
(***************************************************************************)
LEMMA BowOutSound ==
  ASSUME NEW r, Sound(r)
  PROVE  LET q == bowOut(r) IN
         /\ q \in Round /\ Advances(r, q) /\ q.state = r.state
         /\ q.mPreviousLedger = r.mPreviousLedger /\ q.gotSet = r.gotSet
         /\ q.built = r.built /\ q.builtTime = r.builtTime
         /\ \/ q.mOurPosition = r.mOurPosition /\ q.proposed = r.proposed
            \/ /\ q.mOurPosition \in Position /\ isBowOut(q.mOurPosition)
               /\ r.state # "open"
<1> DEFINE q == bowOut(r)
           left == [r.mOurPosition EXCEPT !.proposeSeq = seqLeave]
           moved == [r EXCEPT !.mOurPosition = left]
<1>1. r \in Round
  BY DEF Sound, VotesSound, PeerVotesSound
<1>2. CASE r.mHaveCorrectLCL /\ r.mProposing /\ hasPosition(r)
  <2>1. r.mOurPosition \in Position /\ r.state # "open" /\ r.proposed = r.mOurPosition
    BY <1>1, <1>2 DEF hasPosition, Round, Sound, StageSound, ProposingSound
  <2>2. left \in Position /\ left.proposeSeq = seqLeave
    BY <2>1, <1>1, ProposeSeqType DEF Position
  <2>3. q = propose(moved)
    BY <1>1, <1>2 DEF bowOut, Round
  <2> HIDE DEF left
  <2>4. moved \in Round
    BY <1>1, <2>2 DEF Round
  <2>5. moved.mOurPosition = left
    BY <1>1 DEF Round
  <2>6. q = [r EXCEPT !.mOurPosition = left, !.proposed = left]
    BY <1>1, <2>3, <2>4, <2>5 DEF propose, Round
  <2> HIDE DEF moved, q
  <2>7. q \in Round
    BY <1>1, <2>2, <2>6 DEF Round
  <2>8. /\ q.state = r.state /\ q.mPreviousLedger = r.mPreviousLedger /\ q.gotSet = r.gotSet
        /\ q.built = r.built /\ q.builtTime = r.builtTime
        /\ q.mOurPosition = left /\ q.proposed = left
    BY <1>1, <2>6 DEF Round
  <2>9. r.mOurPosition.proposeSeq # seqLeave
    BY <1>2 DEF Sound, ProposingSound, isBowOut
  <2>10. Advances(r, q)
    BY <1>1, <2>1, <2>2, <2>8, <2>9, ProposeSeqType DEF Advances
  <2> QED
    BY <2>1, <2>2, <2>7, <2>8, <2>10 DEF isBowOut, q
<1>3. CASE ~(r.mHaveCorrectLCL /\ r.mProposing /\ hasPosition(r))
  BY <1>1, <1>3 DEF bowOut, Advances
<1> QED
  BY <1>2, <1>3

LEMMA StartOverSound ==
  ASSUME NEW r, Sound(r), NEW lcl \in Ledger
  PROVE  LET q == startOver(r, lcl) IN
         /\ q \in Round /\ Advances(r, q) /\ q.state = r.state
         /\ q.mPrevLedgerHash = lcl /\ q.mPreviousLedger = r.mPreviousLedger
         /\ ~q.mProposing /\ q.disputed = {} /\ q.mDisputes = NoDisputes
         /\ q.gotSet = r.gotSet /\ q.built = r.built /\ q.builtTime = r.builtTime
         /\ StageSound(r) => StageSound(q)
<1> DEFINE p == bowOut(r)
           q == startOver(r, lcl)
<1>1. /\ p \in Round /\ Advances(r, p) /\ p.state = r.state
      /\ p.mPreviousLedger = r.mPreviousLedger /\ p.gotSet = r.gotSet
      /\ p.built = r.built /\ p.builtTime = r.builtTime
      /\ \/ p.mOurPosition = r.mOurPosition /\ p.proposed = r.proposed
         \/ /\ p.mOurPosition \in Position /\ isBowOut(p.mOurPosition)
            /\ r.state # "open"
  BY BowOutSound
<1>2. q = [p EXCEPT !.mPrevLedgerHash = lcl, !.mProposing = FALSE,
                    !.mPeerPositions = NoPositions, !.mDeadNodes = {},
                    !.disputed = {}, !.mDisputes = NoDisputes]
  BY DEF startOver
<1>3. /\ NoPositions \in [Peer -> Position \cup {NoPosition}]
      /\ NoDisputes \in [Tx -> Dispute]
  BY NewDisputeSound DEF NoPositions, NoDisputes
<1> HIDE DEF p, q
<1>4. q \in Round
  BY <1>1, <1>2, <1>3 DEF Round
<1>5. /\ q.state = p.state /\ q.mPrevLedgerHash = lcl /\ q.mPreviousLedger = p.mPreviousLedger
      /\ ~q.mProposing /\ q.disputed = {} /\ q.mDisputes = NoDisputes /\ q.gotSet = p.gotSet
      /\ q.built = p.built /\ q.builtTime = p.builtTime
      /\ q.mOurPosition = p.mOurPosition /\ q.proposed = p.proposed
  BY <1>1, <1>2 DEF Round
<1>6. Advances(r, q)
  BY <1>1, <1>5 DEF Advances
<1>7. StageSound(r) => StageSound(q)
  BY <1>1, <1>5 DEF StageSound
<1> QED
  BY <1>1, <1>4, <1>5, <1>6, <1>7 DEF q

\* What SameCourse keeps.
LEMMA SameCourseSound ==
  ASSUME NEW r, NEW q, SameCourse(r, q)
  PROVE  /\ ProposingSound(r) => ProposingSound(q)
         /\ StageSound(r) => StageSound(q)
         /\ Advances(r, q)
<1>1. ProposingSound(r) => ProposingSound(q)
  BY DEF SameCourse, ProposingSound
<1>2. StageSound(r) => StageSound(q)
  BY DEF SameCourse, StageSound
<1> QED
  BY <1>1, <1>2 DEF SameCourse, Advances

LEMMA SoundParts ==
  ASSUME NEW r, Sound(r)
  PROVE  /\ r \in Round /\ PeerVotesSound(r) /\ OurVotesSound(r)
         /\ ProposingSound(r) /\ StageSound(r) /\ Advances(r, r)
  BY DEF Sound, VotesSound, PeerVotesSound, Advances

(***************************************************************************)
(* handleLCL: whatever the network's ledger is, the object stays sound.    *)
(***************************************************************************)
LEMMA HandleLCLSound ==
  ASSUME NEW r, Sound(r), r.state \in {"open", "establish"},
         NEW lcl \in Ledger, NEW got \in BOOLEAN, NEW sto, StoredSound(sto)
  PROVE  LET q == handleLCL(r, lcl, got, sto) IN
         Sound(q) /\ Advances(r, q) /\ q.state = r.state
<1> DEFINE over == startOver(r, lcl)
           play == playbackProposals(over, sto)
           on == IF lcl = r.mPrevLedgerHash THEN r ELSE play
           here == [on EXCEPT !.mPreviousLedger = lcl, !.mHaveCorrectLCL = TRUE]
           away == [on EXCEPT !.mAcquiringLedger = lcl, !.mHaveCorrectLCL = FALSE]
           q == handleLCL(r, lcl, got, sto)
<1>0. r \in Round
  BY SoundParts
<1>1. /\ Sound(on) /\ Advances(r, on) /\ on.state = r.state /\ on.mPrevLedgerHash = lcl
  <2>1. CASE lcl = r.mPrevLedgerHash
    BY <2>1, SoundParts
  <2>2. CASE lcl # r.mPrevLedgerHash
    <3>1. /\ over \in Round /\ Advances(r, over) /\ over.state = r.state
          /\ over.mPrevLedgerHash = lcl /\ ~over.mProposing
          /\ over.disputed = {} /\ over.mDisputes = NoDisputes /\ StageSound(over)
      BY StartOverSound, SoundParts
    <3> HIDE DEF over
    <3>2. VotesSound(play) /\ SameCourse(over, play)
      BY <3>1, PlaybackSound
    <3>3. play \in Round
      BY <3>2 DEF VotesSound, PeerVotesSound
    <3> HIDE DEF play
    <3>4. ProposingSound(over)
      BY <3>1 DEF ProposingSound
    <3>5. ProposingSound(play) /\ StageSound(play) /\ Advances(over, play)
      BY <3>1, <3>2, <3>4, SameCourseSound
    <3>6. play.state = r.state /\ play.mPrevLedgerHash = lcl
      BY <3>1, <3>2 DEF SameCourse
    <3>7. Advances(r, play)
      BY <1>0, <3>1, <3>3, <3>5, AdvancesTransitive
    <3>8. Sound(play)
      BY <3>2, <3>5 DEF Sound
    <3> QED
      BY <2>2, <3>6, <3>7, <3>8
  <2> QED
    BY <2>1, <2>2
<1>2. q = on \/ (on.mPreviousLedger # lcl /\ (q = here \/ q = away))
  BY DEF handleLCL
<1> HIDE DEF on, q
<1>3. on \in Round /\ PeerVotesSound(on) /\ OurVotesSound(on) /\ ProposingSound(on) /\ StageSound(on)
  BY <1>1, SoundParts
<1>4. CASE q = on
  BY <1>1, <1>4 DEF q
<1>5. CASE on.mPreviousLedger # lcl /\ (q = here \/ q = away)
  <2>1. ~on.mProposing
    BY <1>1, <1>3, <1>5 DEF ProposingSound
  <2>2. here \in Round /\ away \in Round
    <3>1. here \in Round
      BY <1>3 DEF Round
    <3>2. lcl \in Ledger \cup {NoLedger} /\ FALSE \in BOOLEAN
      OBVIOUS
    <3>3. away \in Round
      BY <1>3, <3>2 DEF Round
    <3> QED
      BY <3>1, <3>3
  <2>3. q \in Round
    BY <1>5, <2>2
  <2>4. /\ q.state = on.state /\ q.mProposing = on.mProposing /\ q.built = on.built
        /\ q.builtTime = on.builtTime
        /\ q.mOurPosition = on.mOurPosition /\ q.proposed = on.proposed
        /\ SamePeers(on, q) /\ SameDisputes(on, q)
    <3>1. CASE q = here
      BY <1>3, <3>1 DEF Round, SamePeers, SameDisputes
    <3>2. CASE q = away
      BY <1>3, <3>2 DEF Round, SamePeers, SameDisputes
    <3> QED
      BY <1>5, <3>1, <3>2
  <2>5. PeerVotesSound(q) /\ OurVotesSound(q)
    BY <1>3, <2>3, <2>4, VotesDepend
  <2>6. ProposingSound(q)
    BY <2>1, <2>4 DEF ProposingSound
  <2>7. StageSound(q)
    BY <1>1, <1>3, <2>4 DEF StageSound
  <2>8. Advances(r, q)
    BY <1>1, <2>4 DEF Advances
  <2> QED
    BY <1>1, <2>4, <2>5, <2>6, <2>7, <2>8 DEF Sound, VotesSound, q
<1> QED
  BY <1>2, <1>4, <1>5

LEMMA TickedSound ==
  ASSUME IInv, lc.state \in {"open", "establish"}, NEW now \in Nat,
         NEW netLgr \in Ledger, NEW got \in BOOLEAN
  PROVE  LET q == Ticked(now, netLgr, got) IN
         Sound(q) /\ Advances(lc, q) /\ q.state = lc.state
<1> DEFINE p == checkLCL(lc, netLgr, got, stored)
           q == Ticked(now, netLgr, got)
<1>1. Sound(p) /\ Advances(lc, p) /\ p.state = lc.state
  <2>1. Sound(lc) /\ StoredSound(stored)
    BY DEF IInv
  <2>2. p = lc \/ p = handleLCL(lc, netLgr, got, stored)
    BY DEF checkLCL
  <2> QED
    BY <2>1, <2>2, HandleLCLSound, SoundParts
<1>2. p \in Round /\ PeerVotesSound(p) /\ OurVotesSound(p) /\ ProposingSound(p) /\ StageSound(p)
  BY <1>1, SoundParts
<1>3. q = [p EXCEPT !.mCurrentMSeconds = now, !.sinceStart = now]
  BY DEF Ticked
<1> HIDE DEF p, q
<1>4. q \in Round
  BY <1>2, <1>3 DEF Round
<1>5. SameCourse(p, q) /\ SamePeers(p, q) /\ SameDisputes(p, q)
  BY <1>2, <1>3 DEF Round, SameCourse, SamePeers, SameDisputes
<1>6. PeerVotesSound(q) /\ OurVotesSound(q)
  BY <1>2, <1>4, <1>5, VotesDepend DEF SameCourse
<1>7. ProposingSound(q) /\ StageSound(q) /\ Advances(p, q)
  BY <1>2, <1>5, SameCourseSound
<1>8. Advances(lc, q) /\ q.state = lc.state
  BY <1>1, <1>5 DEF Advances, SameCourse
<1> QED
  BY <1>6, <1>7, <1>8 DEF Sound, VotesSound, q

-----------------------------------------------------------------------------
(***************************************************************************)
(* closeLedger: the first position, with the disputes it finds.            *)
(***************************************************************************)
LEMMA TakeInitialPositionSound ==
  ASSUME NEW r, VotesSound(r), r.state = "establish", r.mOurPosition = NoPosition,
         r.proposed = NoPosition, r.built = "no",
         r.mProposing => r.mHaveCorrectLCL /\ r.mPreviousLedger = r.mPrevLedgerHash,
         NEW initialSet \in TxSet, NEW closeTime \in Nat
  PROVE  LET q == takeInitialPosition(r, initialSet, closeTime) IN
         Sound(q) /\ Advances(r, q)
<1> DEFINE have == mapCompleteInternal(r, initialSet, FALSE)
           pos == [proposeSeq |-> seqJoin, set |-> initialSet, closeTime |-> closeTime]
           D == [t \in Tx |-> IF t \notin have.disputed THEN have.mDisputes[t]
                              ELSE [have.mDisputes[t] EXCEPT !.mOurVote = t \in initialSet]]
           taken == [have EXCEPT !.mOurPosition = pos, !.mDisputes = D]
           contrary == {taken.mPeerPositions[p].set : p \in proposersOf(taken)} \cap taken.mAcquired
           disp == createDisputes(taken, contrary)
           q == takeInitialPosition(r, initialSet, closeTime)
<1>1. VotesSound(have) /\ SameCourse(r, have)
  BY MapCompleteInternalSound
<1>2. have \in Round /\ PeerVotesSound(have)
  BY <1>1 DEF VotesSound, PeerVotesSound
<1>3. q = IF r.mProposing THEN propose(disp) ELSE disp
  BY <1>2 DEF takeInitialPosition, Round
<1> HIDE DEF have
<1>4. pos \in Position /\ pos.proposeSeq = 0 /\ pos.set = initialSet
  BY LedgerConsensusAssumption DEF Position, seqJoin, seqLeave
<1>5. ASSUME NEW t \in Tx
      PROVE  /\ D[t] \in Dispute /\ DisputeSound(D[t], proposersOf(have))
             /\ t \in have.disputed => D[t].mOurVote = (t \in initialSet)
  <2> DEFINE d == have.mDisputes[t]
             b == t \in initialSet
             e == [d EXCEPT !.mOurVote = b]
  <2>1. d \in Dispute /\ DisputeSound(d, proposersOf(have))
    BY <1>2 DEF PeerVotesSound, Round
  <2>2. D[t] = IF t \notin have.disputed THEN d ELSE e
    OBVIOUS
  <2>b. b \in BOOLEAN
    OBVIOUS
  <2> HIDE DEF D, d, b
  <2>3. /\ e \in Dispute /\ e.mOurVote = b /\ e.mVotes = d.mVotes
        /\ e.mYays = d.mYays /\ e.mNays = d.mNays
    BY <2>1, <2>b DEF Dispute
  <2> HIDE DEF e
  <2>4. DisputeSound(e, proposersOf(have))
    BY <2>1, <2>3 DEF DisputeSound, CountsMatchVotes
  <2> QED
    BY <2>1, <2>2, <2>3, <2>4 DEF b
<1>6. D \in [Tx -> Dispute]
  BY <1>5
<1> HIDE DEF D, pos
<1>7. taken \in Round
  BY <1>2, <1>4, <1>6 DEF Round
<1>8. /\ taken.state = have.state /\ taken.mPrevLedgerHash = have.mPrevLedgerHash
      /\ taken.mPreviousLedger = have.mPreviousLedger
      /\ taken.mHaveCorrectLCL = have.mHaveCorrectLCL /\ taken.mProposing = have.mProposing
      /\ taken.mOurPosition = pos /\ taken.proposed = have.proposed
      /\ taken.built = have.built /\ SamePeers(have, taken)
      /\ taken.disputed = have.disputed /\ taken.mDisputes = D
  BY <1>2 DEF Round, SamePeers
<1> HIDE DEF taken
<1>9. VotesSound(taken)
  <2>1. proposersOf(taken) = proposersOf(have)
    BY <1>8 DEF SamePeers, proposersOf
  <2>2. PeerVotesSound(taken)
    BY <1>2, <1>5, <1>7, <1>8, <2>1 DEF PeerVotesSound, SamePeers
  <2>3. have.disputed \subseteq Tx
    BY <1>2 DEF Round
  <2>4. OurVotesSound(taken)
    BY <1>4, <1>5, <1>8, <2>3 DEF OurVotesSound
  <2> QED
    BY <2>2, <2>4 DEF VotesSound
<1>10. contrary \in SUBSET TxSet
  BY <1>7 DEF Round
<1> HIDE DEF contrary
<1>11. VotesSound(disp) /\ SameCourse(taken, disp) /\ disp \in Round
  BY <1>9, <1>10, CreateDisputesSound DEF VotesSound, PeerVotesSound
<1> HIDE DEF disp, q
<1>12. /\ disp.state = "establish" /\ disp.mPrevLedgerHash = r.mPrevLedgerHash
       /\ disp.mPreviousLedger = r.mPreviousLedger
       /\ disp.mHaveCorrectLCL = r.mHaveCorrectLCL /\ disp.mProposing = r.mProposing
       /\ disp.mOurPosition = pos /\ disp.proposed = NoPosition /\ disp.built = "no"
  BY <1>1, <1>8, <1>11 DEF SameCourse
<1>13. 0 # seqLeave /\ 0 <= MaxProposeSeq /\ pos \in Position /\ pos.proposeSeq = 0
       /\ NoPosition.proposeSeq = -1
  BY <1>4, LedgerConsensusAssumption DEF seqLeave, NoPosition
<1>14. CASE r.mProposing
  <2>1. q = [disp EXCEPT !.proposed = pos]
    BY <1>3, <1>12, <1>14 DEF propose
  <2>2. q \in Round
    BY <1>11, <1>13, <2>1 DEF Round
  <2>3. /\ q.state = disp.state /\ q.mPrevLedgerHash = disp.mPrevLedgerHash
        /\ q.mPreviousLedger = disp.mPreviousLedger
        /\ q.mHaveCorrectLCL = disp.mHaveCorrectLCL /\ q.mProposing = disp.mProposing
        /\ q.mOurPosition = disp.mOurPosition /\ q.proposed = pos /\ q.built = disp.built
        /\ SamePeers(disp, q) /\ SameDisputes(disp, q)
    BY <1>11, <2>1 DEF Round, SamePeers, SameDisputes
  <2>4. VotesSound(q)
    BY <1>11, <2>2, <2>3, VotesDepend DEF VotesSound
  <2>5. ProposingSound(q)
    BY <1>12, <1>13, <1>14, <2>3 DEF ProposingSound, isBowOut
  <2>6. StageSound(q)
    BY <1>12, <1>13, <2>3 DEF StageSound, isBowOut
  <2>7. Advances(r, q)
    BY <1>13, <2>3 DEF Advances
  <2> QED
    BY <2>4, <2>5, <2>6, <2>7 DEF Sound, q
<1>15. CASE ~r.mProposing
  <2>1. q = disp
    BY <1>3, <1>15
  <2>2. ProposingSound(disp)
    BY <1>12, <1>15 DEF ProposingSound
  <2>3. StageSound(disp)
    BY <1>12, <1>13 DEF StageSound, isBowOut
  <2>4. Advances(r, disp)
    BY <1>12 DEF Advances
  <2> QED
    BY <1>11, <2>1, <2>2, <2>3, <2>4 DEF Sound, q
<1> QED
  BY <1>14, <1>15

LEMMA CloseLedgerSound ==
  ASSUME NEW r, Sound(r), r.state = "open", NEW openTxs \in TxSet, NEW closeTime \in Nat
  PROVE  LET q == closeLedger(r, openTxs, closeTime) IN Sound(q) /\ Advances(r, q)
<1> DEFINE p == checkOurValidation(r)
           c == [p EXCEPT !.state = "establish", !.sinceStart = 0]
           q == closeLedger(r, openTxs, closeTime)
<1>1. r \in Round /\ PeerVotesSound(r) /\ ProposingSound(r) /\ StageSound(r)
  BY SoundParts
<1>2. p \in Round /\ SameCourse(r, p) /\ SamePeers(r, p) /\ SameDisputes(r, p)
  <2>1. p = r \/ p = [r EXCEPT !.lastValidation = r.mPreviousLedger]
    BY DEF checkOurValidation
  <2>2. r.mPreviousLedger \in Ledger \cup {NoLedger, NewLedger}
    BY <1>1 DEF Round
  <2> HIDE DEF p
  <2>3. p \in Round
    BY <1>1, <2>1, <2>2 DEF Round
  <2>4. SameCourse(r, p) /\ SamePeers(r, p) /\ SameDisputes(r, p)
    BY <1>1, <2>1 DEF Round, SameCourse, SamePeers, SameDisputes
  <2> QED
    BY <2>3, <2>4
<1>3. q = takeInitialPosition(c, openTxs, closeTime)
  BY DEF closeLedger
<1> HIDE DEF p
<1>4. c \in Round
  BY <1>2 DEF Round
<1>5. /\ c.state = "establish" /\ c.mOurPosition = p.mOurPosition /\ c.proposed = p.proposed
      /\ c.built = p.built /\ c.mProposing = p.mProposing /\ c.mHaveCorrectLCL = p.mHaveCorrectLCL
      /\ c.mPreviousLedger = p.mPreviousLedger /\ c.mPrevLedgerHash = p.mPrevLedgerHash
      /\ SamePeers(p, c) /\ SameDisputes(p, c)
  BY <1>2 DEF Round, SamePeers, SameDisputes
<1> HIDE DEF c, q
<1>6. /\ c.mOurPosition = NoPosition /\ c.proposed = NoPosition /\ c.built = "no"
      /\ c.mProposing => c.mHaveCorrectLCL /\ c.mPreviousLedger = c.mPrevLedgerHash
      /\ r.proposed = NoPosition
  BY <1>1, <1>2, <1>5 DEF StageSound, ProposingSound, SameCourse
<1>7. VotesSound(c)
  <2>1. PeerVotesSound(c)
    BY <1>1, <1>2, <1>4, <1>5, SameIsTransitive, VotesDepend
  <2>2. OurVotesSound(c)
    BY <1>6 DEF OurVotesSound, hasPosition
  <2> QED
    BY <2>1, <2>2 DEF VotesSound
<1>8. Sound(q) /\ Advances(c, q)
  BY <1>3, <1>5, <1>6, <1>7, TakeInitialPositionSound
<1> QED
  BY <1>6, <1>8 DEF Advances, q

-----------------------------------------------------------------------------
(***************************************************************************)
(* Close times.  The resolution is one of the possible ones, whatever the  *)
(* last ledger's was, so a rounded time is a time.                         *)
(***************************************************************************)
Resolutions == {10, 20, 30, 60, 90, 120}

LEMMA NextResolutionType ==
  ASSUME NEW previous \in Resolutions, NEW agree \in BOOLEAN, NEW seq \in Nat
  PROVE  getNextLedgerTimeResolution(previous, agree, seq) \in Resolutions
<1> DEFINE R == ledgerPossibleTimeResolutions
           i == CHOOSE k \in DOMAIN R : R[k] = previous
           next == getNextLedgerTimeResolution(previous, agree, seq)
<1>1. DOMAIN R = 1 .. 6 /\ Len(R) = 6 /\ \A k \in 1 .. 6 : R[k] \in Resolutions
  BY DEF ledgerPossibleTimeResolutions, Resolutions
<1>2. next = previous
        \/ /\ \E k \in DOMAIN R : R[k] = previous
           /\ (next = R[i + 1] /\ i < Len(R)) \/ (next = R[i - 1] /\ i > 1)
  BY DEF getNextLedgerTimeResolution
<1>3. (\E k \in DOMAIN R : R[k] = previous) => i \in DOMAIN R
  OBVIOUS
<1> HIDE DEF R, i, next
<1>4. CASE next = previous
  BY <1>4 DEF next
<1>5. CASE /\ \E k \in DOMAIN R : R[k] = previous
           /\ (next = R[i + 1] /\ i < Len(R)) \/ (next = R[i - 1] /\ i > 1)
  <2>1. i \in 1 .. 6
    BY <1>1, <1>3, <1>5
  <2>2. (i < 6 => i + 1 \in 1 .. 6) /\ (i > 1 => i - 1 \in 1 .. 6)
    BY <2>1
  <2> QED
    BY <1>1, <1>5, <2>1, <2>2 DEF next
<1> QED
  BY <1>2, <1>4, <1>5

LEMMA InfoType ==
  ASSUME NEW l \in Ledger
  PROVE  /\ LedgerInfo[l].closeTime \in Nat /\ LedgerInfo[l].seq \in Nat
         /\ LedgerInfo[l].closeAgree \in BOOLEAN
         /\ LedgerInfo[l].closeTimeResolution \in Resolutions
  BY LedgerConsensusAssumption DEF Resolutions

\* A close time that is not zero becomes one after the previous ledger's.
LEMMA EffectiveFollows ==
  ASSUME NEW c \in Nat \ {0}, NEW res, NEW prev \in Nat
  PROVE  effectiveCloseTime(c, res, prev) > prev
  BY DEF effectiveCloseTime

LEMMA EffectiveType ==
  ASSUME NEW r \in Round, NEW c \in Nat
  PROVE  effective(r, c) \in Nat
<1> DEFINE l == r.mPreviousLedger
           res == mCloseResolution(r)
           prev == LedgerInfo[l].closeTime
<1>1. l \in Ledger
  BY DEF Round
<1>2. prev \in Nat /\ res \in Resolutions
  BY <1>1, InfoType, NextResolutionType DEF mCloseResolution
<1>3. effective(r, c) = effectiveCloseTime(c, res, prev)
  BY DEF effective
<1> HIDE DEF l, res, prev
<1>4. ASSUME NEW t \in Nat PROVE t - (t % res) \in Nat
  BY <1>2 DEF Resolutions
<1>5. c + res \div 2 \in Nat
  BY <1>2 DEF Resolutions
<1>6. roundCloseTime(c, res) \in Nat
  BY <1>4, <1>5 DEF roundCloseTime
<1> QED
  BY <1>2, <1>3, <1>6 DEF effectiveCloseTime

(***************************************************************************)
(* Finite sets of naturals have a greatest element; of the elements with   *)
(* the most votes there is a greatest one.                                 *)
(***************************************************************************)
NoGreatest(S) == ~(\E x \in S : \A y \in S : y <= x)

LEMMA FiniteHasGreatest ==
  ASSUME NEW S \in SUBSET Nat, IsFiniteSet(S), S # {}
  PROVE  \E x \in S : \A y \in S : y <= x
<1> DEFINE Bad(n) == \E U \in SUBSET Nat :
             IsFiniteSet(U) /\ U # {} /\ Cardinality(U) = n /\ NoGreatest(U)
           bad == {n \in Nat : Bad(n)}
<1> SUFFICES ASSUME NoGreatest(S) PROVE FALSE
  BY DEF NoGreatest
<1>1. Cardinality(S) \in bad
  BY FS_CardinalityType
<1>2. PICK n \in bad : \A m \in bad : n <= m
  <2>1. bad \in SUBSET Nat /\ bad # {}
    BY <1>1
  <2> HIDE DEF bad
  <2> QED
    BY <2>1, LeastNatural
<1>3. PICK U \in SUBSET Nat : IsFiniteSet(U) /\ U # {} /\ Cardinality(U) = n /\ NoGreatest(U)
  BY <1>2
<1>4. PICK x \in U : TRUE
  BY <1>3
<1> DEFINE V == U \ {x}
<1>5. V \in SUBSET Nat /\ IsFiniteSet(V) /\ Cardinality(V) = n - 1 /\ n - 1 \in Nat
  <2>1. IsFiniteSet(V) /\ Cardinality(V) = Cardinality(U) - 1
    BY <1>3, <1>4, FS_RemoveElement
  <2>2. Cardinality(V) \in Nat
    BY <2>1, FS_CardinalityType
  <2> QED
    BY <1>2, <1>3, <2>1, <2>2
<1>6. CASE V = {}
  <2>1. \A y \in U : y <= x
    BY <1>3, <1>4, <1>6
  <2> QED
    BY <1>3, <1>4, <2>1 DEF NoGreatest
<1>7. CASE V # {}
  <2>1. n - 1 \notin bad
    BY <1>2
  <2>2. ~NoGreatest(V)
    BY <1>5, <1>7, <2>1
  <2>3. PICK m \in V : \A y \in V : y <= m
    BY <2>2 DEF NoGreatest
  <2>4. \A y \in U : y <= (IF m <= x THEN x ELSE m)
    BY <1>3, <1>4, <2>3
  <2>5. (IF m <= x THEN x ELSE m) \in U
    BY <1>4, <2>3
  <2> QED
    BY <1>3, <2>4, <2>5 DEF NoGreatest
<1> QED
  BY <1>6, <1>7

LEMMA ImageFinite ==
  ASSUME NEW S, IsFiniteSet(S), NEW f \in [S -> Nat]
  PROVE  {f[x] : x \in S} \in SUBSET Nat /\ IsFiniteSet({f[x] : x \in S})
<1> DEFINE T == {f[x] : x \in S}
<1>1. T \in SUBSET Nat
  OBVIOUS
<1>2. f \in [S -> T] /\ \A t \in T : \E s \in S : f[s] = t
  OBVIOUS
<1> HIDE DEF T
<1>3. f \in Surjection(S, T)
  BY <1>2 DEF Surjection
<1>4. IsFiniteSet(T)
  BY <1>3, FS_Surjection
<1> QED
  BY <1>1, <1>4 DEF T

LEMMA MostVotes ==
  ASSUME NEW C \in SUBSET Nat, IsFiniteSet(C), C # {}, NEW v \in [C -> Nat]
  PROVE  \E c \in C : \A d \in C : v[d] < v[c] \/ (v[d] = v[c] /\ d <= c)
<1> DEFINE V == {v[c] : c \in C}
<1>1. V \in SUBSET Nat /\ IsFiniteSet(V) /\ V # {}
  BY ImageFinite
<1>2. PICK m \in V : \A n \in V : n <= m
  <2> HIDE DEF V
  <2> QED
    BY <1>1, FiniteHasGreatest
<1> DEFINE B == {c \in C : v[c] = m}
<1>3. B \in SUBSET Nat /\ B # {} /\ IsFiniteSet(B)
  <2>1. B \subseteq C /\ B # {}
    BY <1>2
  <2> HIDE DEF B
  <2> QED
    BY <2>1, FS_Subset
<1>4. PICK c \in B : \A d \in B : d <= c
  <2> HIDE DEF B
  <2> QED
    BY <1>3, FiniteHasGreatest
<1>5. \A d \in C : v[d] <= m /\ v[d] \in Nat
  BY <1>2
<1>6. \A d \in C : v[d] < v[c] \/ (v[d] = v[c] /\ d <= c)
  BY <1>4, <1>5
<1> QED
  BY <1>4, <1>6

-----------------------------------------------------------------------------
(***************************************************************************)
(* closeTimeVote: the time that wins is a time, and when it is agreed upon *)
(* enough of the peers hold it.                                            *)
(***************************************************************************)
Holders(r, c) == {p \in proposersOf(r) : effective(r, r.mPeerPositions[p].closeTime) = c}

TimeIsHeld(r, c) ==
  proposersOf(r) # {} =>
    Cardinality(Holders(r, c)) >= threshConsensus(r) - (IF r.mProposing THEN 1 ELSE 0)

LEMMA ParticipantsNeededType ==
  ASSUME NEW n \in Nat, NEW w \in {50, 65, 70, 75, 95}
  PROVE  participantsNeeded(n, w) \in Nat
<1>1. n * w + w \div 2 \in Nat
  OBVIOUS
<1>2. ASSUME NEW x \in Nat PROVE x \div 100 \in Nat
  OBVIOUS
<1> QED
  BY <1>1, <1>2 DEF participantsNeeded

LEMMA ParticipantsType ==
  ASSUME NEW r
  PROVE  /\ proposersOf(r) \in SUBSET Peer /\ IsFiniteSet(proposersOf(r))
         /\ Cardinality(proposersOf(r)) \in Nat
         /\ participants(r) \in Nat /\ threshConsensus(r) \in Nat /\ threshVote(r) \in Nat
<1>1. /\ proposersOf(r) \in SUBSET Peer /\ IsFiniteSet(proposersOf(r))
      /\ Cardinality(proposersOf(r)) \in Nat
  BY SubsetsFinite DEF proposersOf
<1>2. participants(r) \in Nat
  BY <1>1 DEF participants
<1>3. AV_CT_CONSENSUS_PCT = 75 /\ neededWeight(mClosePercent(r)) \in {50, 65, 70, 75, 95}
  BY DEF neededWeight, AV_INIT_CONSENSUS_PCT, AV_MID_CONSENSUS_PCT, AV_LATE_CONSENSUS_PCT,
         AV_STUCK_CONSENSUS_PCT, AV_CT_CONSENSUS_PCT
<1> QED
  BY <1>1, <1>2, <1>3, ParticipantsNeededType DEF threshConsensus, threshVote

LEMMA CloseTimeVoteSound ==
  ASSUME NEW r \in Round, r.mOurPosition \in Position
  PROVE  LET ct == closeTimeVote(r) IN
         /\ ct.closeTime \in Nat /\ ct.agreed \in BOOLEAN
         /\ ct.agreed => TimeIsHeld(r, ct.closeTime)
<1> DEFINE C == closeTimes(r)
           best == CHOOSE c \in C : \A d \in C :
                     votesFor(r, d) < votesFor(r, c) \/ (votesFor(r, d) = votesFor(r, c) /\ d <= c)
           enough == votesFor(r, best) >= threshVote(r)
           ct == closeTimeVote(r)
           P == proposersOf(r)
           time(p) == effective(r, r.mPeerPositions[p].closeTime)
<1>1. r.mOurPosition.closeTime \in Nat /\ effective(r, r.mOurPosition.closeTime) \in Nat
  BY EffectiveType DEF Position
<1>2. CASE P = {}
  <2>1. ct = [closeTime |-> effective(r, r.mOurPosition.closeTime), agreed |-> TRUE]
    BY <1>2 DEF closeTimeVote
  <2> QED
    BY <1>1, <1>2, <2>1 DEF TimeIsHeld
<1>3. CASE P # {}
  <2>1. \A p \in P : time(p) \in Nat
    <3> SUFFICES ASSUME NEW p \in P PROVE time(p) \in Nat
      OBVIOUS
    <3>1. r.mPeerPositions[p] \in Position
      BY DEF proposersOf, Round
    <3>2. r.mPeerPositions[p].closeTime \in Nat
      BY <3>1 DEF Position
    <3> QED
      BY <3>2, EffectiveType
  <2>2. C \in SUBSET Nat /\ C # {} /\ IsFiniteSet(C)
    <3> DEFINE f == [p \in P |-> time(p)]
               A == {f[p] : p \in P}
               B == IF r.mProposing THEN {effective(r, r.mOurPosition.closeTime)} ELSE {}
    <3>1. C = A \cup B
      BY DEF closeTimes
    <3>2. f \in [P -> Nat]
      BY <2>1
    <3>3. A # {}
      BY <1>3
    <3>4. A \in SUBSET Nat /\ IsFiniteSet(A)
      <4> HIDE DEF f
      <4> QED
        BY <3>2, ImageFinite, ParticipantsType
    <3>5. B \in SUBSET Nat
      BY <1>1
    <3>6. IsFiniteSet(B)
      BY FS_Singleton, FS_EmptySet
    <3> HIDE DEF A, B, C
    <3> QED
      BY <3>1, <3>3, <3>4, <3>5, <3>6, FS_Union
  <2>3. \A c : votesFor(r, c) \in Nat /\ Cardinality(Holders(r, c)) \in Nat
           /\ votesFor(r, c) <= Cardinality(Holders(r, c)) + (IF r.mProposing THEN 1 ELSE 0)
    <3> SUFFICES ASSUME NEW c
                 PROVE  votesFor(r, c) \in Nat /\ Cardinality(Holders(r, c)) \in Nat
                        /\ votesFor(r, c) <= Cardinality(Holders(r, c)) + (IF r.mProposing THEN 1 ELSE 0)
      OBVIOUS
    <3>1. Holders(r, c) \in SUBSET Peer
      BY DEF Holders, proposersOf
    <3>2. Cardinality(Holders(r, c)) \in Nat
      BY <3>1, SubsetsFinite
    <3>3. votesFor(r, c) = Cardinality(Holders(r, c))
            + (IF r.mProposing /\ effective(r, r.mOurPosition.closeTime) = c THEN 1 ELSE 0)
      BY DEF votesFor, Holders
    <3> QED
      BY <3>2, <3>3
  <2> HIDE DEF C
  <2>4. best \in C
    <3> DEFINE v == [c \in C |-> votesFor(r, c)]
    <3>1. v \in [C -> Nat]
      BY <2>3
    <3> HIDE DEF v
    <3>2. \E c \in C : \A d \in C : v[d] < v[c] \/ (v[d] = v[c] /\ d <= c)
      BY <2>2, <3>1, MostVotes
    <3>3. \E c \in C : \A d \in C :
            votesFor(r, d) < votesFor(r, c) \/ (votesFor(r, d) = votesFor(r, c) /\ d <= c)
      BY <3>2 DEF v
    <3> QED
      BY <3>3
  <2>5. ct = [closeTime |-> IF enough THEN best ELSE 0,
              agreed |-> enough /\ votesFor(r, best) >= threshConsensus(r)]
    BY <1>3 DEF closeTimeVote, C
  <2> HIDE DEF best, ct
  <2>6. best \in Nat /\ threshVote(r) \in Nat /\ threshConsensus(r) \in Nat
    BY <2>2, <2>4, ParticipantsType
  <2>7. ct.closeTime \in Nat
    BY <2>5, <2>6
  <2>8. ct.agreed \in BOOLEAN
    BY <2>3, <2>5, <2>6
  <2>9. ct.agreed => ct.closeTime = best /\ votesFor(r, best) >= threshConsensus(r)
    BY <2>5
  <2>10. ASSUME ct.agreed PROVE TimeIsHeld(r, ct.closeTime)
    <3>1. votesFor(r, best) >= threshConsensus(r) /\ ct.closeTime = best
      BY <2>9, <2>10
    <3>2. Cardinality(Holders(r, best)) >= threshConsensus(r) - (IF r.mProposing THEN 1 ELSE 0)
      BY <2>3, <2>6, <3>1
    <3> QED
      BY <3>1, <3>2 DEF TimeIsHeld
  <2> QED
    BY <2>7, <2>8, <2>10 DEF ct
<1> QED
  BY <1>2, <1>3

LEMMA TimeIsHeldDepends ==
  ASSUME NEW r, NEW q, SamePeers(r, q), q.mPreviousLedger = r.mPreviousLedger,
         q.mProposing = r.mProposing, NEW c
  PROVE  TimeIsHeld(r, c) => TimeIsHeld(q, c)
<1>1. proposersOf(q) = proposersOf(r)
  BY DEF SamePeers, proposersOf
<1>2. \A t : effective(q, t) = effective(r, t)
  BY DEF effective, mCloseResolution
<1>3. Holders(q, c) = Holders(r, c)
  BY <1>1, <1>2 DEF Holders, SamePeers
<1>4. threshConsensus(q) = threshConsensus(r)
  BY <1>1 DEF threshConsensus, participants
<1> QED
  BY <1>1, <1>3, <1>4 DEF TimeIsHeld

\* More than 80% by the truncating division is more than 80%.
LEMMA ReachedIsMajority ==
  ASSUME NEW a \in Nat, NEW n \in Nat, checkConsensusReached(a, n)
  PROVE  a * 100 > minimumConsensusPercentage * (n + 1)
<1> DEFINE y == n + 1
           x == a * 100
           k == x \div y
<1>1. y \in Nat \ {0} /\ x \in Nat
  OBVIOUS
<1>2. k > 80
  BY DEF checkConsensusReached, minimumConsensusPercentage
<1> HIDE DEF x, y
<1>3. k \in Nat /\ y * k <= x
  BY <1>1
<1> HIDE DEF k
<1>4. PICK j \in Nat : k = 81 + j
  BY <1>2, <1>3
<1>5. y * k = y * 81 + y * j /\ y * j \in Nat
  BY <1>1, <1>4
<1>6. x > 80 * y
  BY <1>1, <1>3, <1>5
<1> QED
  BY <1>6 DEF x, y, minimumConsensusPercentage

-----------------------------------------------------------------------------
(***************************************************************************)
(* updateOurPositions: our votes, our set and our close time move          *)
(* together, and the position is broadcast with the next number.           *)
(***************************************************************************)
UpdatedSound(r, q) ==
  /\ VotesSound(q) /\ ProposingSound(q) /\ Advances(r, q)
  /\ q.state = "establish" /\ q.built = "no" /\ q.mOurPosition \in Position
  /\ isBowOut(q.mOurPosition) \/ q.mOurPosition.proposeSeq <= MaxProposeSeq + 1
  /\ q.mHaveCloseTimeConsensus /\ ~isBowOut(q.mOurPosition) =>
       TimeIsHeld(q, q.mOurPosition.closeTime)

LEMMA ChangePositionSound ==
  ASSUME NEW r, PeerVotesSound(r), ProposingSound(r),
         r.state = "establish", r.built = "no", r.mOurPosition \in Position,
         isBowOut(r.mOurPosition) \/ r.mOurPosition.proposeSeq <= MaxProposeSeq,
         NEW set \in TxSet, NEW closeTime \in Nat,
         r.mHaveCloseTimeConsensus => TimeIsHeld(r, closeTime),
         ~isBowOut(r.mOurPosition) =>
           \A t \in r.disputed : r.mDisputes[t].mOurVote <=> t \in set
  PROVE  UpdatedSound(r, changePosition(r, set, closeTime))
<1> DEFINE pos == [proposeSeq |-> r.mOurPosition.proposeSeq + 1, set |-> set, closeTime |-> closeTime]
           moved == [r EXCEPT !.mOurPosition = pos]
           told == IF r.mProposing THEN propose(moved) ELSE moved
           q == changePosition(r, set, closeTime)
<1>1. r \in Round
  BY DEF PeerVotesSound
<1>2. CASE isBowOut(r.mOurPosition)
  <2>1. q = r
    BY <1>2 DEF changePosition
  <2>2. OurVotesSound(r)
    BY <1>2 DEF OurVotesSound
  <2> QED
    BY <1>2, <2>1, <2>2 DEF UpdatedSound, VotesSound, Advances
<1>3. CASE ~isBowOut(r.mOurPosition)
  <2>1. q = mapCompleteInternal(told, set, FALSE)
    BY <1>1, <1>3 DEF changePosition, Round
  <2>2. /\ r.mOurPosition.proposeSeq \in Nat /\ r.mOurPosition.proposeSeq <= MaxProposeSeq
        /\ MaxProposeSeq \in Nat /\ seqLeave = MaxProposeSeq + 2
    BY <1>3, LedgerConsensusAssumption DEF Position, seqLeave
  <2>3. /\ pos \in Position /\ pos.proposeSeq = r.mOurPosition.proposeSeq + 1
        /\ pos.set = set /\ pos.closeTime = closeTime
    <3>1. r.mOurPosition.proposeSeq + 1 \in 0 .. seqLeave
      BY <2>2
    <3> QED
      BY <3>1 DEF Position
  <2>4. pos.proposeSeq # seqLeave /\ pos.proposeSeq <= MaxProposeSeq + 1
        /\ pos.proposeSeq > r.mOurPosition.proposeSeq
    BY <2>2, <2>3
  <2> HIDE DEF pos, q
  <2>5. moved \in Round
    BY <1>1, <2>3 DEF Round
  <2>6. /\ moved.state = r.state /\ moved.mPrevLedgerHash = r.mPrevLedgerHash
        /\ moved.mPreviousLedger = r.mPreviousLedger
        /\ moved.mHaveCorrectLCL = r.mHaveCorrectLCL /\ moved.mProposing = r.mProposing
        /\ moved.mHaveCloseTimeConsensus = r.mHaveCloseTimeConsensus
        /\ moved.mOurPosition = pos /\ moved.proposed = r.proposed /\ moved.built = r.built
        /\ SamePeers(r, moved) /\ SameDisputes(r, moved)
    BY <1>1 DEF Round, SamePeers, SameDisputes
  <2> HIDE DEF moved
  <2>7. /\ told \in Round
        /\ told.state = r.state /\ told.mPrevLedgerHash = r.mPrevLedgerHash
        /\ told.mPreviousLedger = r.mPreviousLedger
        /\ told.mHaveCorrectLCL = r.mHaveCorrectLCL /\ told.mProposing = r.mProposing
        /\ told.mHaveCloseTimeConsensus = r.mHaveCloseTimeConsensus
        /\ told.mOurPosition = pos /\ told.built = r.built
        /\ told.proposed = IF r.mProposing THEN pos ELSE r.proposed
        /\ SamePeers(r, told) /\ SameDisputes(r, told)
    <3>1. CASE r.mProposing
      <4>1. told = [moved EXCEPT !.proposed = pos]
        BY <2>6, <3>1 DEF propose
      <4> HIDE DEF told
      <4>2. told \in Round
        BY <2>3, <2>5, <4>1 DEF Round
      <4>3. /\ told.state = moved.state /\ told.mPrevLedgerHash = moved.mPrevLedgerHash
            /\ told.mPreviousLedger = moved.mPreviousLedger
            /\ told.mHaveCorrectLCL = moved.mHaveCorrectLCL /\ told.mProposing = moved.mProposing
            /\ told.mHaveCloseTimeConsensus = moved.mHaveCloseTimeConsensus
            /\ told.mOurPosition = moved.mOurPosition /\ told.built = moved.built
            /\ told.proposed = pos
            /\ SamePeers(moved, told) /\ SameDisputes(moved, told)
        BY <2>5, <4>1 DEF Round, SamePeers, SameDisputes
      <4> QED
        BY <2>6, <3>1, <4>2, <4>3, SameIsTransitive
    <3>2. CASE ~r.mProposing
      BY <2>5, <2>6, <3>2
    <3> QED
      BY <3>1, <3>2
  <2> HIDE DEF told
  <2>8. VotesSound(told)
    <3>1. PeerVotesSound(told)
      BY <2>7, VotesDepend
    <3>2. OurVotesSound(told)
      BY <1>3, <2>3, <2>7 DEF OurVotesSound, SameDisputes
    <3> QED
      BY <3>1, <3>2 DEF VotesSound
  <2>9. VotesSound(q) /\ SameCourse(told, q) /\ SamePeers(told, q)
    BY <2>1, <2>8, MapCompleteInternalSound
  <2>10. ProposingSound(told)
    BY <2>4, <2>7 DEF ProposingSound, isBowOut
  <2>11. ProposingSound(q)
    BY <2>9, <2>10, SameCourseSound
  <2>12. /\ q.state = "establish" /\ q.built = "no" /\ q.mOurPosition = pos
         /\ q.proposed = IF r.mProposing THEN pos ELSE r.proposed
         /\ q.mHaveCloseTimeConsensus = r.mHaveCloseTimeConsensus
         /\ q.mPreviousLedger = r.mPreviousLedger /\ q.mProposing = r.mProposing
    BY <2>7, <2>9 DEF SameCourse
  <2>13. Advances(r, q)
    <3>1. r.mProposing => r.proposed = r.mOurPosition
      BY DEF ProposingSound
    <3> QED
      BY <2>4, <2>12, <3>1 DEF Advances
  <2>14. SamePeers(r, q)
    BY <2>7, <2>9, SameIsTransitive
  <2>15. q.mHaveCloseTimeConsensus => TimeIsHeld(q, q.mOurPosition.closeTime)
    BY <2>3, <2>12, <2>14, TimeIsHeldDepends
  <2> QED
    BY <2>3, <2>4, <2>9, <2>11, <2>12, <2>13, <2>15 DEF UpdatedSound, q
<1> QED
  BY <1>2, <1>3

LEMMA UpdateOurPositionsSound ==
  ASSUME NEW r, Sound(r), r.state = "establish", NEW stale \in SUBSET Peer,
         NEW oursStale \in BOOLEAN
  PROVE  UpdatedSound(r, updateOurPositions(r, stale, oursStale))
<1> DEFINE fresh == removePeers(r, stale)
           D == [t \in Tx |-> updateVote(fresh.mDisputes[t], mClosePercent(r), r.mProposing)]
           voted == WithDisputes(fresh, D)
           flipped == {t \in fresh.disputed : voted.mDisputes[t].mOurVote # fresh.mDisputes[t].mOurVote}
           nowYes == {t \in flipped : voted.mDisputes[t].mOurVote}
           ct == closeTimeVote(voted)
           timed == [voted EXCEPT !.mHaveCloseTimeConsensus = ct.agreed]
           changes == flipped # {} \/ ct.closeTime # r.mOurPosition.closeTime \/ oursStale
           set == (r.mOurPosition.set \cup nowYes) \ (flipped \ nowYes)
           q == updateOurPositions(r, stale, oursStale)
<1>1. /\ r \in Round /\ PeerVotesSound(r) /\ OurVotesSound(r) /\ ProposingSound(r)
      /\ StageSound(r)
  BY SoundParts
<1>2. /\ r.mOurPosition \in Position /\ r.built = "no"
      /\ isBowOut(r.mOurPosition) \/ r.mOurPosition.proposeSeq <= MaxProposeSeq
  BY <1>1 DEF StageSound
<1>3. PeerVotesSound(fresh) /\ OurVotesSound(fresh) /\ SameCourse(r, fresh)
  BY <1>1, RemovePeersSound
<1>4. fresh \in Round
  BY <1>3 DEF PeerVotesSound
<1>5. q = IF changes THEN changePosition(timed, set, ct.closeTime) ELSE timed
  <2>1. [fresh EXCEPT !.mDisputes =
            [t \in Tx |-> updateVote(@[t], mClosePercent(r), r.mProposing)]] = voted
    BY <1>4 DEF WithDisputes, Round
  <2> HIDE DEF voted
  <2> QED
    BY <2>1 DEF updateOurPositions
<1> HIDE DEF fresh
<1>6. ASSUME NEW t \in Tx
      PROVE  D[t] \in Dispute /\ DisputeSound(D[t], proposersOf(fresh))
  <2> DEFINE d == fresh.mDisputes[t]
             e == updateVote(d, mClosePercent(r), r.mProposing)
  <2>1. d \in Dispute /\ DisputeSound(d, proposersOf(fresh)) /\ CountsMatchVotes(d)
    BY <1>3, <1>4 DEF PeerVotesSound, DisputeSound, Round
  <2>2. D[t] = e
    OBVIOUS
  <2> HIDE DEF D, d
  <2>3. e \in Dispute /\ e.mVotes = d.mVotes /\ CountsMatchVotes(e)
    BY <2>1, UpdateVoteSound
  <2> HIDE DEF e
  <2> QED
    BY <2>1, <2>2, <2>3 DEF DisputeSound
<1>7. D \in [Tx -> Dispute]
  BY <1>6
<1> HIDE DEF D
<1>8. /\ PeerVotesSound(voted) /\ SameCourse(fresh, voted) /\ SamePeers(fresh, voted)
      /\ voted.disputed = fresh.disputed /\ voted.mDisputes = D
  BY <1>3, <1>6, <1>7, WithDisputesSound
<1>9. voted \in Round /\ SameCourse(r, voted)
  BY <1>3, <1>8, SameIsTransitive DEF PeerVotesSound
<1> HIDE DEF voted
<1>10. /\ ct.closeTime \in Nat /\ ct.agreed \in BOOLEAN
       /\ ct.agreed => TimeIsHeld(voted, ct.closeTime)
  <2>1. voted.mOurPosition \in Position
    BY <1>2, <1>9 DEF SameCourse
  <2> QED
    BY <1>9, <2>1, CloseTimeVoteSound
<1> HIDE DEF ct
<1>11. timed \in Round
  BY <1>9, <1>10 DEF Round
<1>12. /\ timed.state = voted.state /\ timed.mPrevLedgerHash = voted.mPrevLedgerHash
       /\ timed.mPreviousLedger = voted.mPreviousLedger
       /\ timed.mHaveCorrectLCL = voted.mHaveCorrectLCL /\ timed.mProposing = voted.mProposing
       /\ timed.mHaveCloseTimeConsensus = ct.agreed
       /\ timed.mOurPosition = voted.mOurPosition /\ timed.proposed = voted.proposed
       /\ timed.built = voted.built /\ SamePeers(voted, timed) /\ SameDisputes(voted, timed)
  BY <1>9 DEF Round, SamePeers, SameDisputes
<1> HIDE DEF timed, q
<1>13. /\ timed.state = "establish" /\ timed.built = "no" /\ timed.mOurPosition = r.mOurPosition
       /\ timed.proposed = r.proposed /\ timed.mProposing = r.mProposing
       /\ timed.mHaveCorrectLCL = r.mHaveCorrectLCL
       /\ timed.mPreviousLedger = r.mPreviousLedger /\ timed.mPrevLedgerHash = r.mPrevLedgerHash
       /\ timed.disputed = fresh.disputed /\ timed.mDisputes = D
  BY <1>2, <1>8, <1>9, <1>12 DEF SameCourse, SameDisputes
<1>14. PeerVotesSound(timed)
  BY <1>8, <1>11, <1>12, VotesDepend
<1>15. ProposingSound(timed)
  BY <1>1, <1>13 DEF ProposingSound
<1>16. timed.mHaveCloseTimeConsensus => TimeIsHeld(timed, ct.closeTime)
  BY <1>10, <1>12, TimeIsHeldDepends
<1>17. fresh.disputed \in SUBSET Tx /\ r.mOurPosition.set \in TxSet
  BY <1>2, <1>4 DEF Round, Position
<1>18. set \in TxSet
  BY <1>17 DEF TxSet
<1>19. ASSUME ~isBowOut(r.mOurPosition), NEW t \in fresh.disputed
       PROVE  D[t].mOurVote <=> t \in set
  <2>1. fresh.mDisputes[t].mOurVote <=> t \in r.mOurPosition.set
    <3>1. fresh.mOurPosition = r.mOurPosition /\ hasPosition(fresh)
      BY <1>2, <1>3, NoPositionIsNone DEF SameCourse, hasPosition
    <3> QED
      BY <1>3, <1>19, <3>1 DEF OurVotesSound
  <2>2. t \in Tx /\ D[t] \in Dispute /\ fresh.mDisputes[t] \in Dispute
    BY <1>4, <1>7, <1>17 DEF Round
  <2>3. D[t].mOurVote \in BOOLEAN /\ fresh.mDisputes[t].mOurVote \in BOOLEAN
    BY <2>2 DEF Dispute
  <2>4. /\ t \in flipped <=> (D[t].mOurVote # fresh.mDisputes[t].mOurVote)
        /\ t \in nowYes <=> (t \in flipped /\ D[t].mOurVote)
    BY <1>8
  <2> HIDE DEF flipped, nowYes
  <2> QED
    BY <2>1, <2>3, <2>4
<1>20. CASE changes
  <2>1. q = changePosition(timed, set, ct.closeTime)
    BY <1>5, <1>20
  <2>2. ~isBowOut(timed.mOurPosition) =>
          \A t \in timed.disputed : timed.mDisputes[t].mOurVote <=> t \in set
    BY <1>13, <1>19
  <2>3. /\ timed.mOurPosition \in Position
        /\ isBowOut(timed.mOurPosition) \/ timed.mOurPosition.proposeSeq <= MaxProposeSeq
    BY <1>2, <1>13
  <2> HIDE DEF set
  <2>4. UpdatedSound(timed, changePosition(timed, set, ct.closeTime))
    BY <1>10, <1>13, <1>14, <1>15, <1>16, <1>18, <2>2, <2>3, ChangePositionSound
  <2>5. UpdatedSound(timed, q)
    BY <2>1, <2>4
  <2> QED
    BY <1>13, <2>5 DEF UpdatedSound, Advances, q
<1>21. CASE ~changes
  <2>1. q = timed /\ flipped = {} /\ ct.closeTime = r.mOurPosition.closeTime
    BY <1>5, <1>21
  <2>2. OurVotesSound(timed)
    <3>1. nowYes = {} /\ set = r.mOurPosition.set
      BY <2>1
    <3> QED
      BY <1>13, <1>19, <3>1 DEF OurVotesSound
  <2>3. isBowOut(timed.mOurPosition) \/ timed.mOurPosition.proposeSeq <= MaxProposeSeq + 1
    <3>1. r.mOurPosition.proposeSeq \in Nat /\ MaxProposeSeq \in Nat
      BY <1>2, LedgerConsensusAssumption DEF Position
    <3> QED
      BY <1>2, <1>13, <3>1
  <2>4. Advances(r, timed)
    BY <1>13 DEF Advances
  <2> QED
    BY <1>2, <1>13, <1>14, <1>15, <1>16, <2>1, <2>2, <2>3, <2>4 DEF UpdatedSound, VotesSound, q
<1> QED
  BY <1>20, <1>21

-----------------------------------------------------------------------------
(***************************************************************************)
(* stateEstablish: a round that ends without mConsensusFail has its        *)
(* majorities.                                                             *)
(***************************************************************************)
Agreement(q) ==
  LET n == Cardinality(proposersOf(q)) IN
  /\ (Cardinality(agreeing(q)) + 1) * 100 > minimumConsensusPercentage * (n + 1)
  /\ ~isBowOut(q.mOurPosition) /\ n > 0 =>
       Cardinality({p \in proposersOf(q) :
           effective(q, q.mPeerPositions[p].closeTime) = q.mOurPosition.closeTime})
         >= participantsNeeded(participants(q), AV_CT_CONSENSUS_PCT)
              - (IF q.mProposing THEN 1 ELSE 0)

LEMMA CompareAllSound ==
  ASSUME NEW r, VotesSound(r)
  PROVE  VotesSound(compareAll(r)) /\ SameCourse(r, compareAll(r)) /\ SamePeers(r, compareAll(r))
<1> DEFINE Others == {r.mPeerPositions[p].set : p \in proposersOf(r) \ agreeing(r)}
                       \cap (r.mAcquired \ r.mCompares)
<1>1. r \in Round
  BY DEF VotesSound, PeerVotesSound
<1>2. Others \in SUBSET TxSet
  BY <1>1 DEF Round
<1>3. compareAll(r) = createDisputes(r, Others)
  BY DEF compareAll
<1> HIDE DEF Others
<1> QED
  BY <1>2, <1>3, CreateDisputesSound

LEMMA StateEstablishSound ==
  ASSUME NEW r, Sound(r), r.state = "establish", NEW stale \in SUBSET Peer,
         NEW oursStale \in BOOLEAN, NEW finished,
         LET q == stateEstablish(r, stale, oursStale, finished) IN
           q.mOurPosition.proposeSeq = MaxProposeSeq + 1 => q.state = "finished"
  PROVE  LET q == stateEstablish(r, stale, oursStale, finished) IN
         /\ Sound(q) /\ Advances(r, q)
         /\ q.state = "finished" /\ ~q.mConsensusFail => Agreement(q)
<1> DEFINE updated == updateOurPositions(r, stale, oursStale)
           compared == compareAll(updated)
           ret == consensusState(compared, finished)
           fail == ret = "MovedOn"
           decided == [compared EXCEPT !.mConsensusFail = fail]
           q == stateEstablish(r, stale, oursStale, finished)
<1>1. UpdatedSound(r, updated)
  BY UpdateOurPositionsSound
<1>2. q = IF r.mCurrentMSeconds < LEDGER_MIN_CONSENSUS THEN r
          ELSE IF ret = "No" THEN compared
          ELSE IF ~decided.mHaveCloseTimeConsensus THEN decided
          ELSE beginAccept(decided)
  BY DEF stateEstablish
<1> HIDE DEF updated
<1>3. VotesSound(compared) /\ SameCourse(updated, compared) /\ SamePeers(updated, compared)
  BY <1>1, CompareAllSound DEF UpdatedSound
<1>4. UpdatedSound(r, compared)
  <2>1. ProposingSound(compared)
    BY <1>1, <1>3, SameCourseSound DEF UpdatedSound
  <2>2. Advances(r, compared)
    BY <1>1, <1>3 DEF UpdatedSound, SameCourse, Advances
  <2>3. /\ compared.state = updated.state /\ compared.built = updated.built
        /\ compared.mOurPosition = updated.mOurPosition
        /\ compared.mHaveCloseTimeConsensus = updated.mHaveCloseTimeConsensus
        /\ compared.mPreviousLedger = updated.mPreviousLedger
        /\ compared.mProposing = updated.mProposing
    BY <1>3 DEF SameCourse
  <2>4. TimeIsHeld(updated, updated.mOurPosition.closeTime) =>
          TimeIsHeld(compared, compared.mOurPosition.closeTime)
    BY <1>3, <2>3, TimeIsHeldDepends
  <2> QED
    BY <1>1, <1>3, <2>1, <2>2, <2>3, <2>4 DEF UpdatedSound
<1> HIDE DEF compared
<1>5. compared \in Round
  BY <1>3 DEF VotesSound, PeerVotesSound
<1>6. fail \in BOOLEAN
  OBVIOUS
<1> HIDE DEF fail, ret
<1>7. /\ decided \in Round /\ SameCourse(compared, decided) /\ SamePeers(compared, decided)
      /\ SameDisputes(compared, decided) /\ decided.mConsensusFail = fail
  <2>1. decided \in Round
    BY <1>5, <1>6 DEF Round
  <2>2. /\ SameCourse(compared, decided) /\ SamePeers(compared, decided)
        /\ SameDisputes(compared, decided) /\ decided.mConsensusFail = fail
    BY <1>5 DEF Round, SameCourse, SamePeers, SameDisputes
  <2> QED
    BY <2>1, <2>2
<1> HIDE DEF decided, q
<1>8. decided.mOurPosition \in Position /\ decided.mOurPosition.set \in SUBSET Tx
  BY <1>4, <1>7 DEF UpdatedSound, SameCourse, Position, TxSet
\* Until the round is finished it is in establish, and sound if the number has room.
<1>9. ASSUME NEW x, x = compared \/ x = decided,
             x.mOurPosition.proposeSeq # MaxProposeSeq + 1
      PROVE  Sound(x) /\ Advances(r, x) /\ x.state = "establish"
  <2>1. /\ x \in Round /\ SameCourse(compared, x) /\ SamePeers(compared, x)
        /\ SameDisputes(compared, x)
    BY <1>5, <1>7, <1>9, SameIsTransitive
  <2>2. VotesSound(x)
    BY <1>3, <2>1, VotesDepend DEF VotesSound, SameCourse
  <2>3. ProposingSound(x) /\ Advances(compared, x)
    BY <1>4, <2>1, SameCourseSound DEF UpdatedSound
  <2>4. /\ x.state = "establish" /\ x.built = "no" /\ x.mOurPosition \in Position
        /\ isBowOut(x.mOurPosition) \/ x.mOurPosition.proposeSeq <= MaxProposeSeq + 1
    BY <1>4, <2>1 DEF UpdatedSound, SameCourse
  <2>5. isBowOut(x.mOurPosition) \/ x.mOurPosition.proposeSeq <= MaxProposeSeq
    BY <1>9, <2>4, LedgerConsensusAssumption DEF Position
  <2>6. StageSound(x)
    BY <2>4, <2>5 DEF StageSound
  <2>7. Advances(r, x)
    BY <1>4, <2>1 DEF UpdatedSound, Advances, SameCourse
  <2> QED
    BY <2>2, <2>3, <2>4, <2>6, <2>7 DEF Sound
<1>10. CASE q = r
  BY <1>10, SoundParts DEF q
<1>11. CASE q = compared \/ q = decided
  <2>1. q.state = "establish"
    BY <1>4, <1>7, <1>11 DEF UpdatedSound, SameCourse
  <2>2. q.mOurPosition.proposeSeq # MaxProposeSeq + 1
    BY <2>1 DEF q
  <2> QED
    BY <1>9, <1>11, <2>1, <2>2 DEF q
<1>12. CASE /\ q = beginAccept(decided) /\ ret # "No"
            /\ decided.mHaveCloseTimeConsensus
  <2>1. q = [decided EXCEPT !.state = "finished", !.consensusSet = decided.mOurPosition.set]
    BY <1>12 DEF beginAccept
  <2>2. q \in Round
    BY <1>7, <1>8, <2>1 DEF Round
  <2>3. /\ q.state = "finished" /\ q.mPrevLedgerHash = decided.mPrevLedgerHash
        /\ q.mPreviousLedger = decided.mPreviousLedger
        /\ q.mHaveCorrectLCL = decided.mHaveCorrectLCL /\ q.mProposing = decided.mProposing
        /\ q.mOurPosition = decided.mOurPosition /\ q.proposed = decided.proposed
        /\ q.built = decided.built /\ q.mConsensusFail = decided.mConsensusFail
        /\ SamePeers(decided, q) /\ SameDisputes(decided, q)
    BY <1>7, <2>1 DEF Round, SamePeers, SameDisputes
  <2>4. /\ q.mPrevLedgerHash = compared.mPrevLedgerHash
        /\ q.mPreviousLedger = compared.mPreviousLedger
        /\ q.mHaveCorrectLCL = compared.mHaveCorrectLCL /\ q.mProposing = compared.mProposing
        /\ q.mOurPosition = compared.mOurPosition /\ q.proposed = compared.proposed
        /\ q.built = compared.built /\ q.mConsensusFail = fail
        /\ compared.mHaveCloseTimeConsensus
        /\ SamePeers(compared, q) /\ SameDisputes(compared, q)
    BY <1>7, <1>12, <2>3, SameIsTransitive DEF SameCourse
  <2>5. VotesSound(q)
    BY <1>3, <2>2, <2>4, VotesDepend DEF VotesSound
  <2>6. ProposingSound(q)
    BY <1>4, <2>4 DEF UpdatedSound, ProposingSound
  <2>7. StageSound(q)
    BY <1>4, <2>3, <2>4 DEF UpdatedSound, StageSound
  <2>8. Advances(r, q)
    BY <1>4, <2>4 DEF UpdatedSound, Advances
  <2>9. ASSUME ~q.mConsensusFail PROVE Agreement(q)
    <3>1. proposersOf(q) = proposersOf(compared) /\ agreeing(q) = agreeing(compared)
      BY <2>4 DEF SamePeers, proposersOf, agreeing
    <3>2. ret = "Yes"
      <4>1. ret # "MovedOn"
        BY <2>4, <2>9 DEF fail
      <4> QED
        BY <1>12, <4>1 DEF ret, consensusState, checkConsensus
    <3>3. checkConsensusReached(Cardinality(agreeing(compared)) + 1, Cardinality(proposersOf(compared)))
      BY <3>2 DEF ret, consensusState, checkConsensus
    <3>4. Cardinality(agreeing(compared)) + 1 \in Nat /\ Cardinality(proposersOf(compared)) \in Nat
      <4>1. agreeing(compared) \in SUBSET Peer /\ proposersOf(compared) \in SUBSET Peer
        BY DEF agreeing, proposersOf
      <4> QED
        BY <4>1, SubsetsFinite
    <3>5. (Cardinality(agreeing(q)) + 1) * 100
            > minimumConsensusPercentage * (Cardinality(proposersOf(q)) + 1)
      BY <3>1, <3>3, <3>4, ReachedIsMajority
    <3>6. ASSUME ~isBowOut(q.mOurPosition), Cardinality(proposersOf(q)) > 0
          PROVE  Cardinality(Holders(q, q.mOurPosition.closeTime))
                   >= threshConsensus(q) - (IF q.mProposing THEN 1 ELSE 0)
      <4>1. proposersOf(q) # {}
        BY <3>6, FS_EmptySet
      <4>2. TimeIsHeld(compared, compared.mOurPosition.closeTime)
        BY <1>4, <2>4, <3>6 DEF UpdatedSound
      <4>3. TimeIsHeld(q, q.mOurPosition.closeTime)
        BY <2>4, <4>2, TimeIsHeldDepends
      <4> QED
        BY <4>1, <4>3 DEF TimeIsHeld
    <3> QED
      BY <3>5, <3>6 DEF Agreement, Holders, threshConsensus
  <2> QED
    BY <2>3, <2>5, <2>6, <2>7, <2>8, <2>9 DEF Sound, q
<1> QED
  BY <1>2, <1>10, <1>11, <1>12

-----------------------------------------------------------------------------
(***************************************************************************)
(* The actions: what each handler does to the object is sound, what it     *)
(* broadcasts has a higher number, and establish ends with an agreement.   *)
(***************************************************************************)
StepSound ==
  /\ IInv' /\ Advances(lc, lc')
  /\ lc.state = "establish" /\ lc'.state = "finished" /\ ~lc'.mConsensusFail => Agreement(lc')

LEMMA InvParts ==
  ASSUME IInv
  PROVE  /\ lc \in Round /\ PeerVotesSound(lc) /\ OurVotesSound(lc) /\ VotesSound(lc)
         /\ ProposingSound(lc) /\ StageSound(lc) /\ Sound(lc)
         /\ StoredSound(stored) /\ received \in 0..MaxProposals
  BY DEF IInv, Sound, VotesSound, PeerVotesSound

LEMMA ConsensusInit == Init => IInv
<1> SUFFICES ASSUME Init PROVE IInv
  OBVIOUS
<1>1. PICK hash \in Ledger, ledger \in Ledger, full \in BOOLEAN :
        (full => hash = ledger) /\ lc = Start(hash, ledger, full)
  BY DEF Init
<1>2. /\ NoPositions \in [Peer -> Position \cup {NoPosition}] /\ NoDisputes \in [Tx -> Dispute]
      /\ \A t \in Tx : NoDisputes[t] = NewDispute(FALSE)
  BY NewDisputeSound DEF NoPositions, NoDisputes
<1>3. lc \in Round
  BY <1>1, <1>2, LedgerConsensusAssumption DEF Start, Round, TxSet
<1>4. /\ lc.state = "open" /\ lc.mPrevLedgerHash = hash /\ lc.mPreviousLedger = ledger
      /\ lc.mHaveCorrectLCL = (hash = ledger) /\ lc.mProposing = (IsValidator /\ full)
      /\ lc.mOurPosition = NoPosition /\ lc.proposed = NoPosition
      /\ lc.mPeerPositions = NoPositions /\ lc.mDeadNodes = {} /\ lc.disputed = {}
      /\ lc.mDisputes = NoDisputes /\ lc.built = "no"
  BY <1>1 DEF Start
<1>5. PeerVotesSound(lc)
  <2>1. \A t \in Tx : DisputeSound(lc.mDisputes[t], proposersOf(lc))
    BY <1>2, <1>4, NewDisputeSound DEF DisputeSound
  <2> QED
    BY <1>3, <1>4, <2>1 DEF PeerVotesSound
<1>6. OurVotesSound(lc)
  BY <1>4 DEF OurVotesSound
<1>7. NoPosition.proposeSeq = -1 /\ seqLeave \in Nat
  BY LedgerConsensusAssumption DEF NoPosition, seqLeave
<1>8. ProposingSound(lc)
  BY <1>1, <1>4, <1>7 DEF ProposingSound, isBowOut
<1>9. StageSound(lc)
  BY <1>4 DEF StageSound
<1>10. stored \in [Peer -> Seq(Proposal)] /\ \A p \in Peer : Len(stored[p]) = 0
  BY DEF Init
<1>11. StoredSound(stored) /\ received \in 0..MaxProposals
  BY <1>10, LedgerConsensusAssumption DEF StoredSound, Init
<1> QED
  BY <1>5, <1>6, <1>8, <1>9, <1>11 DEF IInv, Sound, VotesSound

LEMMA TimerOpenSound ==
  ASSUME IInv, NEW now \in Instant, NEW sinceClose \in Instant, NEW netLgr \in Ledger,
         NEW got \in BOOLEAN, NEW openTxs \in TxSet, NEW closeTime \in CloseTime, NEW validated,
         TimerOpen(now, netLgr, got, openTxs, closeTime, validated, sinceClose)
  PROVE  StepSound
<1> DEFINE r == Ticked(now, netLgr, got)
<1>1. now \in Nat /\ closeTime \in Nat
  BY LedgerConsensusAssumption
<1>2. lc.state = "open" /\ lc' = statePreClose(r, openTxs, closeTime, validated, sinceClose)
  BY DEF TimerOpen
<1>3. Sound(r) /\ Advances(lc, r) /\ r.state = lc.state
  BY <1>1, <1>2, TickedSound
<1> HIDE DEF r
<1>4. lc' = r \/ lc' = closeLedger(r, openTxs, closeTime)
  BY <1>2 DEF statePreClose
<1>5. Sound(closeLedger(r, openTxs, closeTime)) /\ Advances(r, closeLedger(r, openTxs, closeTime))
  BY <1>1, <1>2, <1>3, CloseLedgerSound
<1>6. Sound(lc') /\ Advances(r, lc')
  BY <1>3, <1>4, <1>5, SoundParts
<1>7. lc \in Round /\ r \in Round /\ lc' \in Round
  BY <1>3, <1>6, SoundParts, InvParts
<1>8. Advances(lc, lc')
  BY <1>3, <1>6, <1>7, AdvancesTransitive
<1> QED
  BY <1>2, <1>6, <1>8, InvParts DEF StepSound, IInv, TimerOpen

LEMMA TimerEstablishSound ==
  ASSUME IInv, NEW now \in Instant, NEW netLgr \in Ledger, NEW got \in BOOLEAN,
         NEW oursStale \in BOOLEAN, NEW stale \in SUBSET Peer, NEW finished,
         TimerEstablish(now, netLgr, got, stale, oursStale, finished)
  PROVE  StepSound
<1> DEFINE r == Ticked(now, netLgr, got)
<1>1. now \in Nat
  BY LedgerConsensusAssumption
<1>2. /\ lc.state = "establish" /\ lc' = stateEstablish(r, stale, oursStale, finished)
      /\ lc'.mOurPosition.proposeSeq = MaxProposeSeq + 1 => lc'.state = "finished"
  BY DEF TimerEstablish
<1>3. Sound(r) /\ Advances(lc, r) /\ r.state = lc.state
  BY <1>1, <1>2, TickedSound
<1> HIDE DEF r
<1>4. /\ Sound(lc') /\ Advances(r, lc')
      /\ lc'.state = "finished" /\ ~lc'.mConsensusFail => Agreement(lc')
  BY <1>2, <1>3, StateEstablishSound
<1>5. lc \in Round /\ r \in Round /\ lc' \in Round
  BY <1>3, <1>4, SoundParts, InvParts
<1>6. Advances(lc, lc')
  BY <1>3, <1>4, <1>5, AdvancesTransitive
<1> QED
  BY <1>4, <1>6, InvParts DEF StepSound, IInv, TimerEstablish

\* Steps that leave establish alone and keep what the invariant is about.
LEMMA KeepsCourse ==
  ASSUME IInv, NEW q, VotesSound(q), SameCourse(lc, q)
  PROVE  Sound(q) /\ Advances(lc, q) /\ q.state = lc.state
<1>1. ProposingSound(q) /\ StageSound(q) /\ Advances(lc, q)
  BY InvParts, SameCourseSound
<1> QED
  BY <1>1 DEF Sound, SameCourse

LEMMA StoreProposalSound ==
  ASSUME NEW s \in Seq(Proposal), Len(s) <= ProposalsKept, NEW q \in Proposal
  PROVE  storeProposal(s, q) \in Seq(Proposal) /\ Len(storeProposal(s, q)) <= ProposalsKept
<1>1. ProposalsKept \in Nat /\ ProposalsKept > 0
  BY LedgerConsensusAssumption
<1>2. CASE Len(s) >= ProposalsKept
  <2>1. Tail(s) \in Seq(Proposal) /\ Len(Tail(s)) = Len(s) - 1
    BY <1>1, <1>2
  <2>2. storeProposal(s, q) = Append(Tail(s), q)
    BY <1>2 DEF storeProposal
  <2> QED
    BY <1>1, <2>1, <2>2
<1>3. CASE ~(Len(s) >= ProposalsKept)
  BY <1>1, <1>3 DEF storeProposal
<1> QED
  BY <1>2, <1>3

LEMMA PeerPositionType == PeerPosition \subseteq Position
<1>1. seqLeave \in Nat /\ seqLeave = MaxProposeSeq + 2 /\ MaxProposeSeq \in Nat
  BY LedgerConsensusAssumption DEF seqLeave
<1>2. CloseTime \subseteq Nat /\ LaterTime \subseteq Nat /\ {} \in TxSet
  BY LedgerConsensusAssumption DEF TxSet
<1>3. [proposeSeq : {seqJoin}, set : TxSet, closeTime : CloseTime] \subseteq Position
  <2>1. {seqJoin} \subseteq 0..seqLeave
    BY <1>1 DEF seqJoin
  <2> QED
    BY <1>2, <2>1 DEF Position
<1>4. [proposeSeq : 1..MaxProposeSeq, set : TxSet, closeTime : LaterTime] \subseteq Position
  <2>1. 1..MaxProposeSeq \subseteq 0..seqLeave
    BY <1>1
  <2> QED
    BY <1>2, <2>1 DEF Position
<1>5. [proposeSeq : {seqLeave}, set : {{}}, closeTime : {0}] \subseteq Position
  BY <1>1, <1>2 DEF Position
<1> QED
  BY <1>3, <1>4, <1>5 DEF PeerPosition

LEMMA ReceiveProposalSound ==
  ASSUME IInv, NEW p \in Peer, NEW q \in Proposal, ReceiveProposal(p, q)
  PROVE  StepSound
<1>1. q.pos \in Position
  BY DEF Proposal
<1>2. lc' = lc \/ lc' = peerPosition(lc, p, q.pos)
  BY DEF ReceiveProposal
<1>3. VotesSound(lc') /\ SameCourse(lc, lc')
  BY <1>1, <1>2, InvParts, PeerPositionSound, SameIsTransitive
<1>4. Sound(lc') /\ Advances(lc, lc') /\ lc'.state = lc.state
  BY <1>3, KeepsCourse
<1>5. StoredSound(stored')
  <2>1. stored' = [stored EXCEPT ![p] = storeProposal(stored[p], q)]
    BY DEF ReceiveProposal
  <2>2. stored \in [Peer -> Seq(Proposal)] /\ \A x \in Peer : Len(stored[x]) <= ProposalsKept
    BY InvParts DEF StoredSound
  <2>3. /\ storeProposal(stored[p], q) \in Seq(Proposal)
        /\ Len(storeProposal(stored[p], q)) <= ProposalsKept
    BY <2>2, StoreProposalSound
  <2> QED
    BY <2>1, <2>2, <2>3 DEF StoredSound
<1>6. received' \in 0..MaxProposals
  BY InvParts, LedgerConsensusAssumption DEF ReceiveProposal
<1> QED
  BY <1>4, <1>5, <1>6 DEF StepSound, IInv

LEMMA GotSetSound ==
  ASSUME NEW r, VotesSound(r), NEW G \in SUBSET TxSet
  PROVE  LET q == [r EXCEPT !.gotSet = G] IN VotesSound(q) /\ SameCourse(r, q)
<1> DEFINE q == [r EXCEPT !.gotSet = G]
<1>1. r \in Round
  BY DEF VotesSound, PeerVotesSound
<1>2. q \in Round
  BY <1>1 DEF Round
<1>3. SameCourse(r, q) /\ SamePeers(r, q) /\ SameDisputes(r, q)
  BY <1>1 DEF Round, SameCourse, SamePeers, SameDisputes
<1> HIDE DEF q
<1> QED
  BY <1>2, <1>3, VotesDepend DEF VotesSound, SameCourse, q

LEMMA SetStepsSound ==
  ASSUME IInv, NEW s \in TxSet, GiveSet(s) \/ MapComplete(s)
  PROVE  StepSound
<1>1. \E r : /\ VotesSound(r) /\ SameCourse(lc, r)
             /\ \E G \in SUBSET TxSet : lc' = [r EXCEPT !.gotSet = G]
  <2>1. CASE GiveSet(s)
    <3> DEFINE r == giveSet(lc, s)
    <3>1. r \in Round /\ SameCourse(lc, r) /\ SamePeers(lc, r) /\ SameDisputes(lc, r)
      BY InvParts, GiveSetSound
    <3>2. lc' = [r EXCEPT !.gotSet = r.gotSet \cup {s}]
      BY <2>1, <3>1 DEF GiveSet, Round
    <3> HIDE DEF r
    <3>3. r.gotSet \cup {s} \in SUBSET TxSet
      BY <3>1 DEF Round
    <3>4. VotesSound(r)
      BY <3>1, InvParts, VotesDepend DEF VotesSound, SameCourse
    <3> QED
      BY <3>1, <3>2, <3>3, <3>4
  <2>2. CASE MapComplete(s)
    <3> DEFINE r == IF lc.state = "ended" THEN lc ELSE mapCompleteInternal(lc, s, TRUE)
    <3>1. VotesSound(r) /\ SameCourse(lc, r)
      BY InvParts, MapCompleteInternalSound, SameIsTransitive
    <3>2. r \in Round
      BY <3>1 DEF VotesSound, PeerVotesSound
    <3>3. lc' = [r EXCEPT !.gotSet = r.gotSet \ {s}]
      BY <2>2, <3>2 DEF MapComplete, Round
    <3> HIDE DEF r
    <3>4. r.gotSet \ {s} \in SUBSET TxSet
      BY <3>2 DEF Round
    <3> QED
      BY <3>1, <3>3, <3>4
  <2> QED
    BY <2>1, <2>2
<1>2. PICK r : /\ VotesSound(r) /\ SameCourse(lc, r)
               /\ \E G \in SUBSET TxSet : lc' = [r EXCEPT !.gotSet = G]
  BY <1>1
<1>3. PICK G \in SUBSET TxSet : lc' = [r EXCEPT !.gotSet = G]
  BY <1>2
<1>4. VotesSound([r EXCEPT !.gotSet = G]) /\ SameCourse(r, [r EXCEPT !.gotSet = G])
  BY <1>2, GotSetSound
<1>5. VotesSound(lc') /\ SameCourse(r, lc')
  BY <1>3, <1>4
<1>6. SameCourse(lc, lc')
  BY <1>2, <1>5, SameIsTransitive
<1>7. Sound(lc') /\ Advances(lc, lc') /\ lc'.state = lc.state
  BY <1>5, <1>6, KeepsCourse
<1>8. UNCHANGED <<stored, received>>
  BY DEF GiveSet, MapComplete
<1> QED
  BY <1>7, <1>8, InvParts DEF StepSound, IInv

LEMMA AcceptBuildSound ==
  ASSUME IInv, NEW compatible \in BOOLEAN, AcceptBuild(compatible)
  PROVE  StepSound
<1> DEFINE closeTime == lc.mOurPosition.closeTime
           validating == lc.mValidating /\ compatible
           validates == validating /\ ~lc.mConsensusFail
           flag == IF closeTime = 0 THEN "disagreed" ELSE "agreed"
           prev == LedgerInfo[lc.mPreviousLedger].closeTime
           time == IF closeTime = 0 THEN prev + 1 ELSE effective(lc, closeTime)
           last == IF validates THEN NewLedger ELSE lc.lastValidation
           sent == IF validates THEN lc.broadcast \cup {NewLedger} ELSE lc.broadcast
<1>1. lc \in Round /\ VotesSound(lc) /\ ProposingSound(lc) /\ StageSound(lc)
  BY InvParts
<1>2. lc.state = "finished" /\ UNCHANGED <<stored, received>>
  BY DEF AcceptBuild
<1>3. lc' = [lc EXCEPT !.built = flag, !.builtTime = time, !.mValidating = validating,
                       !.lastValidation = last, !.broadcast = sent]
  BY <1>1 DEF AcceptBuild, Round
<1>4. closeTime \in Nat
  BY <1>1, <1>2 DEF StageSound, Position
<1>5. lc.mPreviousLedger \in Ledger /\ prev \in Nat
  BY <1>1, InfoType DEF Round
<1>6. time \in Nat /\ time > prev
  <2>1. CASE closeTime = 0
    BY <1>5, <2>1
  <2>2. CASE closeTime # 0
    <3>1. effective(lc, closeTime) \in Nat
      BY <1>1, <1>4, EffectiveType
    <3>2. effective(lc, closeTime) > prev
      BY <1>4, <1>5, <2>2, EffectiveFollows DEF effective
    <3> QED
      BY <2>2, <3>1, <3>2
  <2> QED
    BY <2>1, <2>2
<1>7. /\ flag \in {"no", "agreed", "disagreed"} /\ validating \in BOOLEAN
      /\ last \in Ledger \cup {NoLedger, NewLedger} /\ sent \in SUBSET (Ledger \cup {NewLedger})
  BY <1>1 DEF Round
<1> HIDE DEF closeTime, validating, validates, flag, prev, time, last, sent
<1>8. lc' \in Round
  <2> DEFINE b == [lc EXCEPT !.built = flag, !.builtTime = time]
             v == [b EXCEPT !.mValidating = validating, !.lastValidation = last]
  <2>1. b \in Round
    BY <1>1, <1>6, <1>7 DEF Round
  <2>2. lc' = [v EXCEPT !.broadcast = sent]
    BY <1>3
  <2> HIDE DEF b
  <2>3. v \in Round
    BY <1>7, <2>1 DEF Round
  <2> HIDE DEF v
  <2> QED
    BY <1>7, <2>2, <2>3 DEF Round
<1>9. /\ lc'.state = lc.state /\ lc'.mPrevLedgerHash = lc.mPrevLedgerHash
      /\ lc'.mPreviousLedger = lc.mPreviousLedger
      /\ lc'.mHaveCorrectLCL = lc.mHaveCorrectLCL /\ lc'.mProposing = lc.mProposing
      /\ lc'.mOurPosition = lc.mOurPosition /\ lc'.proposed = lc.proposed
      /\ lc'.builtTime = time /\ SamePeers(lc, lc') /\ SameDisputes(lc, lc')
  BY <1>1, <1>3 DEF Round, SamePeers, SameDisputes
<1>10. VotesSound(lc')
  BY <1>1, <1>8, <1>9, VotesDepend DEF VotesSound
<1>11. ProposingSound(lc')
  BY <1>1, <1>9 DEF ProposingSound
<1>12. StageSound(lc')
  BY <1>1, <1>2, <1>6, <1>9 DEF StageSound, prev
<1>13. Advances(lc, lc')
  BY <1>9 DEF Advances
<1> QED
  BY <1>2, <1>10, <1>11, <1>12, <1>13, InvParts DEF StepSound, IInv, Sound

LEMMA EndType ==
  ASSUME NEW r \in Round, NEW st \in {"finished", "accepted", "ended"}, NEW b \in BOOLEAN,
         NEW T \in SUBSET Tx
  PROVE  [r EXCEPT !.state = st, !.tried = b, !.retried = T] \in Round
  BY DEF Round

LEMMA EndStepsSound ==
  ASSUME IInv, TimerAccepted \/ AcceptRetry \/ AcceptFinish
  PROVE  StepSound
<1>1. lc \in Round /\ VotesSound(lc) /\ ProposingSound(lc) /\ StageSound(lc)
  BY InvParts
<1>2. lc.state \in {"finished", "accepted"} /\ UNCHANGED <<stored, received>>
  BY DEF TimerAccepted, AcceptRetry, AcceptFinish
<1>3. PICK st \in {"finished", "accepted", "ended"}, b \in BOOLEAN, T \in SUBSET Tx :
        lc' = [lc EXCEPT !.state = st, !.tried = b, !.retried = T]
  <2>1. lc.tried \in BOOLEAN /\ lc.retried \in SUBSET Tx
    BY <1>1 DEF Round
  <2>2. CASE TimerAccepted
    <3>1. lc' = [lc EXCEPT !.state = "ended", !.tried = lc.tried, !.retried = lc.retried]
      BY <1>1, <2>2 DEF TimerAccepted, Round
    <3> QED
      BY <2>1, <3>1
  <2>3. CASE AcceptRetry
    <3>1. notIncluded(lc) \in SUBSET Tx
      BY <1>1 DEF notIncluded, Round
    <3>2. lc' = [lc EXCEPT !.state = "finished", !.tried = TRUE, !.retried = notIncluded(lc)]
      BY <1>1, <2>3 DEF AcceptRetry, Round
    <3> QED
      BY <3>1, <3>2
  <2>4. CASE AcceptFinish
    <3>1. lc' = [lc EXCEPT !.state = "accepted", !.tried = lc.tried, !.retried = lc.retried]
      BY <1>1, <2>4 DEF AcceptFinish, Round
    <3> QED
      BY <2>1, <3>1
  <2> QED
    BY <2>2, <2>3, <2>4
<1>4. lc' \in Round
  BY <1>1, <1>3, EndType
<1>5. /\ lc'.state = st /\ lc'.mPrevLedgerHash = lc.mPrevLedgerHash
      /\ lc'.mPreviousLedger = lc.mPreviousLedger
      /\ lc'.mHaveCorrectLCL = lc.mHaveCorrectLCL /\ lc'.mProposing = lc.mProposing
      /\ lc'.mOurPosition = lc.mOurPosition /\ lc'.proposed = lc.proposed
      /\ lc'.built = lc.built /\ lc'.builtTime = lc.builtTime
      /\ SamePeers(lc, lc') /\ SameDisputes(lc, lc')
  BY <1>1, <1>3 DEF Round, SamePeers, SameDisputes
<1>6. VotesSound(lc')
  BY <1>1, <1>4, <1>5, VotesDepend DEF VotesSound
<1>7. ProposingSound(lc')
  BY <1>1, <1>5 DEF ProposingSound
<1>8. StageSound(lc')
  BY <1>1, <1>2, <1>3, <1>5 DEF StageSound
<1>9. Advances(lc, lc')
  BY <1>5 DEF Advances
<1> QED
  BY <1>2, <1>6, <1>7, <1>8, <1>9, InvParts DEF StepSound, IInv, Sound

LEMMA ConsensusNext ==
  ASSUME IInv, [Next]_vars
  PROVE  StepSound
<1>1. CASE UNCHANGED vars
  <2>1. IInv' /\ Advances(lc, lc') /\ lc'.state = lc.state
    BY <1>1 DEF vars, IInv, Sound, VotesSound, PeerVotesSound, OurVotesSound, ProposingSound,
                StageSound, StoredSound, Advances
  <2> QED
    BY <2>1 DEF StepSound
<1>2. ASSUME NEW p \in Peer, NEW l \in Ledger, NEW pos \in PeerPosition,
             ReceiveProposal(p, [prevLedger |-> l, pos |-> pos])
      PROVE  StepSound
  <2>1. [prevLedger |-> l, pos |-> pos] \in Proposal
    BY PeerPositionType DEF Proposal
  <2> QED
    BY <1>2, <2>1, ReceiveProposalSound
<1>3. CASE Next
  BY <1>2, <1>3, TimerOpenSound, TimerEstablishSound, SetStepsSound, AcceptBuildSound,
     EndStepsSound DEF Next
<1> QED
  BY <1>1, <1>3

-----------------------------------------------------------------------------
(***************************************************************************)
(* The object LedgerConsensusImp stays sound through every handler, and so *)
(* does the store of proposals.                                            *)
(***************************************************************************)
THEOREM ConsensusInvariance == Spec => []IInv
<1>1. IInv /\ [Next]_vars => IInv'
  BY ConsensusNext DEF StepSound
<1> QED
  BY <1>1, ConsensusInit, PTL DEF Spec

(***************************************************************************)
(* Types; storeProposal never keeps more than its limit per peer.          *)
(***************************************************************************)
THEOREM ConsensusTypes == Spec => []TypeOK
<1>1. IInv => TypeOK
  BY InvParts DEF TypeOK, StoredSound
<1> QED
  BY <1>1, ConsensusInvariance, PTL

(***************************************************************************)
(* Votes on disputes are consistent with the positions of those who cast   *)
(* them (addDisputedTransaction, adjustCount, setVote, unVote,             *)
(* updateVote), for any number of peers and transactions.                  *)
(***************************************************************************)
THEOREM VotesStayConsistent == Spec => []VotesAreConsistent
<1>1. IInv => VotesAreConsistent
  <2> SUFFICES ASSUME IInv PROVE VotesAreConsistent
    OBVIOUS
  <2>1. lc.disputed \subseteq Tx
    BY InvParts DEF Round
  <2>2. VotesHavePositions
    BY <2>1, InvParts DEF PeerVotesSound, DisputeSound, VotesHavePositions
  <2>3. OurVotesMatchPosition
    BY InvParts DEF OurVotesSound, OurVotesMatchPosition
  <2> QED
    BY <2>2, <2>3 DEF VotesAreConsistent
<1> QED
  BY <1>1, ConsensusInvariance, PTL

(***************************************************************************)
(* A node proposes only on the network's ledger, and its position is what  *)
(* it broadcast last (handleLCL, propose).                                 *)
(***************************************************************************)
THEOREM ProposesInSync == Spec => []ProposingInSync
<1>1. IInv => ProposingInSync
  BY InvParts DEF ProposingSound, ProposingInSync
<1> QED
  BY <1>1, ConsensusInvariance, PTL

(***************************************************************************)
(* A ledger closes after the one it is built on, for every close time the  *)
(* peers may propose and every resolution (effectiveCloseTime, accept).    *)
(***************************************************************************)
THEOREM ClosesAfterParent == Spec => []CloseTimesIncrease
<1>1. IInv => CloseTimesIncrease
  BY InvParts DEF StageSound, CloseTimesIncrease
<1> QED
  BY <1>1, ConsensusInvariance, PTL

(***************************************************************************)
(* What a node broadcasts has a higher number than what it broadcast       *)
(* before, and a bow-out is the last (changePosition, bowOut).             *)
(***************************************************************************)
THEOREM BroadcastsAdvance == Spec => ProposalsAdvance
<1>1. IInv /\ [Next]_vars =>
        [lc'.proposed # lc.proposed => lc'.proposed.proposeSeq > lc.proposed.proposeSeq]_vars
  BY ConsensusNext DEF StepSound, Advances
<1> QED
  BY <1>1, ConsensusInvariance, PTL DEF Spec, ProposalsAdvance

(***************************************************************************)
(* establish ends by agreement only with more than 80% on our set and the  *)
(* required share on the close time (haveConsensus, updateOurPositions).   *)
(***************************************************************************)
THEOREM AgreementIsRequired == Spec => FinishesByAgreement
<1>1. IInv /\ [Next]_vars =>
        [lc.state = "establish" /\ lc'.state = "finished" /\ ~lc'.mConsensusFail =>
           LET n == Cardinality(proposersOf(lc')) IN
           /\ (Cardinality(agreeing(lc')) + 1) * 100 > minimumConsensusPercentage * (n + 1)
           /\ ~isBowOut(lc'.mOurPosition) /\ n > 0 =>
                Cardinality({p \in proposersOf(lc') :
                    effective(lc', lc'.mPeerPositions[p].closeTime) = lc'.mOurPosition.closeTime})
                  >= participantsNeeded(participants(lc'), AV_CT_CONSENSUS_PCT)
                       - (IF lc'.mProposing THEN 1 ELSE 0)]_vars
  BY ConsensusNext DEF StepSound, Agreement
<1> QED
  BY <1>1, ConsensusInvariance, PTL DEF Spec, FinishesByAgreement

-----------------------------------------------------------------------------
(***************************************************************************)
(* Comparisons and disputes.  The bookkeeping adds comparisons and         *)
(* disputes, those of a set with our position together, and our position   *)
(* moves by disputed transactions only; so a set that is covered stays so  *)
(* while the network's ledger does not change.                             *)
(***************************************************************************)
KeepsCover(r, q) ==
  /\ q.mPrevLedgerHash = r.mPrevLedgerHash
  /\ \A s \in q.mCompares : Covers(q, s) \/ (s \in r.mCompares /\ ~Covers(r, s))

CompareInv ==
  /\ lc.state = "open" => lc.mCompares = {}
  /\ lc.state = "finished" => lc.consensusSet = lc.mOurPosition.set

SameCompares(r, q) ==
  /\ q.mCompares = r.mCompares /\ q.disputed = r.disputed /\ q.consensusSet = r.consensusSet
  /\ q.mPrevLedgerHash = r.mPrevLedgerHash

AddsCompares(r, q) ==
  /\ q.consensusSet = r.consensusSet /\ q.mPrevLedgerHash = r.mPrevLedgerHash
  /\ r.disputed \subseteq q.disputed
  /\ \A s \in q.mCompares : s \in r.mCompares \/ Difference(s, r.mOurPosition.set) \subseteq q.disputed

LEMMA ComparesTransitive ==
  ASSUME NEW r, NEW s, NEW q
  PROVE  /\ SameCompares(r, r) /\ AddsCompares(r, r)
         /\ SameCompares(r, q) => AddsCompares(r, q)
         /\ SameCompares(r, s) /\ SameCompares(s, q) => SameCompares(r, q)
         /\ AddsCompares(r, s) /\ AddsCompares(s, q) /\ s.mOurPosition = r.mOurPosition
              => AddsCompares(r, q)
  BY DEF SameCompares, AddsCompares

LEMMA BookkeepingCompares ==
  ASSUME NEW r \in Round, NEW H \in SUBSET TxSet, NEW s \in TxSet, NEW P \in SUBSET Peer
  PROVE  /\ SameCompares(r, getTransactionTree(r, H))
         /\ SameCompares(r, giveSet(r, s))
         /\ SameCompares(r, adjustCount(r, s, P))
         /\ SameCompares(r, removePeers(r, P))
<1>1. SameCompares(r, getTransactionTree(r, H))
  <2> DEFINE p == getSet(r, H \ r.mAcquired)
  <2>1. p = [r EXCEPT !.acquiring = r.acquiring \cup ((H \ r.mAcquired) \ r.complete)]
    BY DEF getSet, Round
  <2>2. getTransactionTree(r, H) = [p EXCEPT !.mAcquired = @ \cup (H \cap r.complete)]
    BY DEF getTransactionTree
  <2> HIDE DEF p
  <2>3. p \in Round /\ SameCompares(r, p)
    <3>1. r.acquiring \cup ((H \ r.mAcquired) \ r.complete) \in SUBSET TxSet
      BY DEF Round
    <3>2. p \in Round
      BY <2>1, <3>1 DEF Round
    <3> QED
      BY <2>1, <3>2 DEF Round, SameCompares
  <2> QED
    BY <2>2, <2>3 DEF Round, SameCompares
<1>2. SameCompares(r, giveSet(r, s))
  BY DEF giveSet, Round, SameCompares
<1>3. SameCompares(r, adjustCount(r, s, P))
  BY DEF adjustCount, Round, SameCompares
<1>4. SameCompares(r, removePeers(r, P))
  BY DEF removePeers, Round, SameCompares
<1> QED
  BY <1>1, <1>2, <1>3, <1>4

LEMMA CreateDisputesCompares ==
  ASSUME NEW r \in Round, NEW Others \in SUBSET TxSet
  PROVE  AddsCompares(r, createDisputes(r, Others))
<1> DEFINE ours == r.mOurPosition.set
           differences == UNION {(ours \ s) \cup (s \ ours) : s \in Others}
           D == [t \in Tx |-> IF t \in differences \ r.disputed
                                THEN newDispute(r, t) ELSE r.mDisputes[t]]
           q == createDisputes(r, Others)
<1>1. q = [r EXCEPT !.mCompares = r.mCompares \cup Others,
                    !.disputed = r.disputed \cup differences, !.mDisputes = D]
  BY DEF createDisputes, Round
<1>2. \A s \in Others : Difference(s, ours) \subseteq differences
  BY DEF Difference
<1> HIDE DEF differences, D, q
<1>3. /\ q.mCompares = r.mCompares \cup Others /\ q.disputed = r.disputed \cup differences
      /\ q.consensusSet = r.consensusSet /\ q.mPrevLedgerHash = r.mPrevLedgerHash
  BY <1>1 DEF Round
<1> QED
  BY <1>2, <1>3 DEF AddsCompares, q

LEMMA MapCompleteCompares ==
  ASSUME NEW r, VotesSound(r), NEW s \in TxSet, NEW acquired \in BOOLEAN
  PROVE  LET q == mapCompleteInternal(r, s, acquired) IN
         /\ AddsCompares(r, q)
         /\ ~hasPosition(r) => q.mCompares = r.mCompares
<1> DEFINE given == IF acquired THEN r ELSE giveSet(r, s)
           compared ==
             IF hasPosition(r) /\ ~isBowOut(r.mOurPosition) /\ s # r.mOurPosition.set
               THEN createDisputes(given, {s}) ELSE given
           known == [compared EXCEPT !.mAcquired = @ \cup {s}]
           P == {p \in proposersOf(r) : r.mPeerPositions[p].set = s}
           q == mapCompleteInternal(r, s, acquired)
<1>1. r \in Round
  BY DEF VotesSound, PeerVotesSound
<1>2. q = IF s \in r.mAcquired THEN r ELSE adjustCount(known, s, P)
  BY DEF mapCompleteInternal
<1>3. given \in Round /\ SameCompares(r, given) /\ given.mOurPosition = r.mOurPosition
      /\ VotesSound(given)
  <2>1. CASE acquired
    BY <1>1, <2>1, ComparesTransitive
  <2>2. CASE ~acquired
    <3>1. /\ giveSet(r, s) \in Round /\ SameCourse(r, giveSet(r, s)) /\ SamePeers(r, giveSet(r, s))
          /\ SameDisputes(r, giveSet(r, s))
      BY <1>1, GiveSetSound
    <3>2. SameCompares(r, giveSet(r, s))
      BY <1>1, BookkeepingCompares
    <3>3. VotesSound(giveSet(r, s))
      BY <3>1, VotesDepend DEF VotesSound, SameCourse
    <3> QED
      BY <2>2, <3>1, <3>2, <3>3 DEF SameCourse
  <2> QED
    BY <2>1, <2>2
<1> HIDE DEF given
<1>4. /\ compared \in Round /\ AddsCompares(r, compared)
      /\ ~hasPosition(r) => compared.mCompares = r.mCompares
  <2>1. {s} \in SUBSET TxSet
    OBVIOUS
  <2>2. AddsCompares(given, createDisputes(given, {s}))
    BY <1>3, <2>1, CreateDisputesCompares
  <2>3. VotesSound(createDisputes(given, {s}))
    BY <1>3, <2>1, CreateDisputesSound
  <2>4. createDisputes(given, {s}) \in Round
    BY <2>3 DEF VotesSound, PeerVotesSound
  <2>5. AddsCompares(r, given)
    BY <1>3, ComparesTransitive
  <2>6. AddsCompares(r, createDisputes(given, {s}))
    BY <1>3, <2>2, <2>5, ComparesTransitive
  <2> QED
    BY <1>3, <2>4, <2>5, <2>6 DEF SameCompares
<1> HIDE DEF compared
<1>5. known \in Round
  <2>1. known = [compared EXCEPT !.mAcquired = compared.mAcquired \cup {s}]
    BY <1>4 DEF Round
  <2>2. compared.mAcquired \cup {s} \in SUBSET TxSet
    BY <1>4 DEF Round
  <2> HIDE DEF known
  <2> QED
    BY <1>4, <2>1, <2>2 DEF Round
<1>6. SameCompares(compared, known)
  BY <1>4 DEF Round, SameCompares
<1> HIDE DEF known
<1>7. P \in SUBSET Peer
  BY DEF proposersOf
<1> HIDE DEF P, q
<1>8. SameCompares(known, adjustCount(known, s, P))
  BY <1>5, <1>7, BookkeepingCompares
<1>9. SameCompares(compared, adjustCount(known, s, P))
  BY <1>6, <1>8, ComparesTransitive
<1>10. /\ AddsCompares(r, adjustCount(known, s, P))
       /\ ~hasPosition(r) => adjustCount(known, s, P).mCompares = r.mCompares
  BY <1>4, <1>9 DEF AddsCompares, SameCompares
<1> QED
  BY <1>2, <1>10, ComparesTransitive DEF q

LEMMA KeepsCoverTransitive ==
  ASSUME NEW r, NEW s, NEW q
  PROVE  /\ KeepsCover(r, r)
         /\ KeepsCover(r, s) /\ KeepsCover(s, q) => KeepsCover(r, q)
         /\ AddsCompares(r, q) /\ q.mOurPosition = r.mOurPosition => KeepsCover(r, q)
  BY DEF KeepsCover, AddsCompares, Covers

(***************************************************************************)
(* checkLCL keeps mCompares; unless it switches to another ledger, it      *)
(* keeps the disputes and our position too.                                *)
(***************************************************************************)
LEMMA PlaybackCompares ==
  ASSUME NEW r \in Round, NEW sto, VotesSound(playbackProposals(r, sto))
  PROVE  playbackProposals(r, sto).mCompares = r.mCompares
<1>1. PICK pp, dead, sets :
        playbackProposals(r, sto) =
          getTransactionTree([r EXCEPT !.mPeerPositions = pp, !.mDeadNodes = dead], sets)
  BY DEF playbackProposals
<1> DEFINE told == [r EXCEPT !.mPeerPositions = pp, !.mDeadNodes = dead]
           asked == getSet(told, sets \ told.mAcquired)
<1>2. told.mCompares = r.mCompares /\ "mCompares" \in DOMAIN told
  BY DEF Round
<1> HIDE DEF told
<1>3. asked.mCompares = told.mCompares /\ "mCompares" \in DOMAIN asked
  BY <1>2 DEF getSet
<1>4. getTransactionTree(told, sets) = [asked EXCEPT !.mAcquired = @ \cup (sets \cap told.complete)]
  BY DEF getTransactionTree
<1> HIDE DEF asked
<1> QED
  BY <1>1, <1>2, <1>3, <1>4 DEF told

LEMMA HandleLCLCompares ==
  ASSUME NEW r, Sound(r), NEW lcl \in Ledger, NEW got \in BOOLEAN, NEW sto, StoredSound(sto)
  PROVE  LET q == handleLCL(r, lcl, got, sto) IN
         /\ q.mCompares = r.mCompares
         /\ q.mPrevLedgerHash = lcl
         /\ lcl = r.mPrevLedgerHash => q.disputed = r.disputed /\ q.mOurPosition = r.mOurPosition
<1> DEFINE over == startOver(r, lcl)
           play == playbackProposals(over, sto)
           on == IF lcl = r.mPrevLedgerHash THEN r ELSE play
           here == [on EXCEPT !.mPreviousLedger = lcl, !.mHaveCorrectLCL = TRUE]
           away == [on EXCEPT !.mAcquiringLedger = lcl, !.mHaveCorrectLCL = FALSE]
           q == handleLCL(r, lcl, got, sto)
<1>1. r \in Round
  BY SoundParts
<1>2. play.mCompares = r.mCompares /\ play \in Round /\ play.mPrevLedgerHash = lcl
  <2>1. bowOut(r) \in Round /\ over \in Round /\ over.disputed = {} /\ over.mDisputes = NoDisputes
        /\ over.mPrevLedgerHash = lcl
    BY BowOutSound, StartOverSound
  <2>2. bowOut(r).mCompares = r.mCompares
    BY <1>1 DEF bowOut, propose, Round
  <2>3. over.mCompares = bowOut(r).mCompares
    BY <2>1 DEF startOver, Round
  <2> HIDE DEF over
  <2>4. VotesSound(play) /\ SameCourse(over, play)
    BY <2>1, PlaybackSound
  <2>5. play.mCompares = over.mCompares
    BY <2>1, <2>4, PlaybackCompares
  <2> QED
    BY <2>1, <2>2, <2>3, <2>4, <2>5 DEF VotesSound, PeerVotesSound, SameCourse
<1>3. /\ on \in Round /\ on.mCompares = r.mCompares /\ on.mPrevLedgerHash = lcl
      /\ lcl = r.mPrevLedgerHash => on.disputed = r.disputed /\ on.mOurPosition = r.mOurPosition
  BY <1>1, <1>2
<1>4. q = on \/ q = here \/ q = away
  BY DEF handleLCL
<1> HIDE DEF on
<1>5. /\ SameCompares(on, here) /\ here.mOurPosition = on.mOurPosition
      /\ SameCompares(on, away) /\ away.mOurPosition = on.mOurPosition
  BY <1>3 DEF Round, SameCompares
<1> HIDE DEF here, away, q
<1> QED
  BY <1>3, <1>4, <1>5 DEF SameCompares, q

LEMMA TickedCompares ==
  ASSUME IInv, NEW now \in Nat, NEW netLgr \in Ledger, NEW got \in BOOLEAN,
         lc.state \in {"open", "establish"}
  PROVE  LET q == Ticked(now, netLgr, got) IN
         /\ q.mCompares = lc.mCompares
         /\ q.mPrevLedgerHash # lc.mPrevLedgerHash \/ KeepsCover(lc, q)
<1> DEFINE p == checkLCL(lc, netLgr, got, stored)
           q == Ticked(now, netLgr, got)
<1>1. p = lc \/ p = handleLCL(lc, netLgr, got, stored)
  BY DEF checkLCL
<1>2. p \in Round
  BY <1>1, InvParts, HandleLCLSound, SoundParts
<1>3. /\ p.mCompares = lc.mCompares
      /\ p.mPrevLedgerHash = lc.mPrevLedgerHash =>
           p.disputed = lc.disputed /\ p.mOurPosition = lc.mOurPosition
  BY <1>1, InvParts, HandleLCLCompares
<1>4. q = [p EXCEPT !.mCurrentMSeconds = now, !.sinceStart = now]
  BY DEF Ticked
<1> HIDE DEF p, q
<1>5. SameCompares(p, q) /\ q.mOurPosition = p.mOurPosition
  BY <1>2, <1>4 DEF Round, SameCompares
<1> QED
  BY <1>3, <1>5 DEF SameCompares, KeepsCover, Covers, q

LEMMA PositionType ==
  ASSUME NEW r \in Round, NEW pos \in Position
  PROVE  [r EXCEPT !.mOurPosition = pos] \in Round /\ [r EXCEPT !.proposed = pos] \in Round
  BY DEF Round

LEMMA WithPositionType ==
  ASSUME NEW r \in Round, NEW pos \in Position, NEW D \in [Tx -> Dispute]
  PROVE  [r EXCEPT !.mOurPosition = pos, !.mDisputes = D] \in Round
  BY DEF Round

LEMMA WithComparesType ==
  ASSUME NEW r \in Round, NEW C \in SUBSET TxSet, NEW T \in SUBSET Tx, NEW D \in [Tx -> Dispute]
  PROVE  [r EXCEPT !.mCompares = C, !.disputed = T, !.mDisputes = D] \in Round
  BY DEF Round

LEMMA EstablishType ==
  ASSUME NEW r \in Round
  PROVE  [r EXCEPT !.state = "establish", !.sinceStart = 0] \in Round
  BY DEF Round

NoCompares(r) == r.mCompares = {}

LEMMA TakeInitialPositionCovers ==
  ASSUME NEW r, VotesSound(r), r.state = "establish", r.mOurPosition = NoPosition,
         NoCompares(r), NEW initialSet \in TxSet, NEW closeTime \in Nat
  PROVE  LET q == takeInitialPosition(r, initialSet, closeTime) IN
         KeepsCover(r, q) /\ q.state = "establish"
<1> DEFINE have == mapCompleteInternal(r, initialSet, FALSE)
           pos == [proposeSeq |-> seqJoin, set |-> initialSet, closeTime |-> closeTime]
           D == [t \in Tx |-> IF t \notin have.disputed THEN have.mDisputes[t]
                              ELSE [have.mDisputes[t] EXCEPT !.mOurVote = t \in initialSet]]
           taken == [have EXCEPT !.mOurPosition = pos, !.mDisputes = D]
           contrary == {taken.mPeerPositions[p].set : p \in proposersOf(taken)} \cap taken.mAcquired
           disp == createDisputes(taken, contrary)
           q == takeInitialPosition(r, initialSet, closeTime)
<1>1. VotesSound(have) /\ SameCourse(r, have)
  BY MapCompleteInternalSound
<1>2. have \in Round
  BY <1>1 DEF VotesSound, PeerVotesSound
<1>3. q = IF r.mProposing THEN propose(disp) ELSE disp
  BY <1>2 DEF takeInitialPosition, Round
<1>4. NoCompares(have) /\ have.state = "establish" /\ have.mPrevLedgerHash = r.mPrevLedgerHash
  <2>1. ~hasPosition(r)
    BY DEF hasPosition
  <2>2. have.mCompares = r.mCompares
    BY <2>1, MapCompleteCompares
  <2> QED
    BY <1>1, <2>2 DEF SameCourse, NoCompares
<1> HIDE DEF have
<1>5. pos \in Position /\ ~isBowOut(pos) /\ pos.set = initialSet
  BY LedgerConsensusAssumption DEF Position, seqJoin, seqLeave, isBowOut
<1>6. D \in [Tx -> Dispute]
  <2> SUFFICES ASSUME NEW t \in Tx PROVE D[t] \in Dispute
    OBVIOUS
  <2> DEFINE d == have.mDisputes[t]
             b == t \in initialSet
  <2>1. d \in Dispute /\ b \in BOOLEAN
    BY <1>2 DEF Round
  <2>2. D[t] = d \/ D[t] = [d EXCEPT !.mOurVote = b]
    OBVIOUS
  <2> HIDE DEF D, d, b
  <2> QED
    BY <2>1, <2>2 DEF Dispute
<1> HIDE DEF D, pos
<1>7. taken \in Round
  BY <1>2, <1>5, <1>6, WithPositionType
<1>8. /\ NoCompares(taken) /\ taken.state = "establish" /\ taken.mOurPosition = pos
      /\ taken.mPrevLedgerHash = r.mPrevLedgerHash
  BY <1>2, <1>4 DEF Round, NoCompares
<1>9. contrary \in SUBSET TxSet
  BY <1>7 DEF Round
<1> HIDE DEF taken, contrary
<1>11. AddsCompares(taken, disp)
  BY <1>7, <1>9, CreateDisputesCompares
<1>12. disp.mOurPosition = taken.mOurPosition /\ disp.state = taken.state /\ disp \in Round
  <2> DEFINE ours == taken.mOurPosition.set
             diffs == UNION {(ours \ s) \cup (s \ ours) : s \in contrary}
             E == [t \in Tx |-> IF t \in diffs \ taken.disputed
                                  THEN newDispute(taken, t) ELSE taken.mDisputes[t]]
  <2>1. disp = [taken EXCEPT !.mCompares = taken.mCompares \cup contrary,
                             !.disputed = taken.disputed \cup diffs, !.mDisputes = E]
    BY <1>7 DEF createDisputes, Round
  <2>2. diffs \in SUBSET Tx
    BY <1>7, <1>9 DEF Round, Position, NoPosition, TxSet
  <2>3. E \in [Tx -> Dispute]
    BY <1>7, NewDisputeOfRoundSound DEF Round
  <2>4. taken.mCompares \cup contrary \in SUBSET TxSet /\ taken.disputed \cup diffs \in SUBSET Tx
    BY <1>7, <1>9, <2>2 DEF Round
  <2> HIDE DEF diffs, E, disp
  <2>5. disp \in Round
    BY <1>7, <2>1, <2>3, <2>4, WithComparesType
  <2> QED
    BY <1>7, <2>1, <2>5 DEF Round
<1> HIDE DEF disp, q
<1>13. /\ \A s \in disp.mCompares : Covers(disp, s)
       /\ disp.state = "establish" /\ disp.mPrevLedgerHash = r.mPrevLedgerHash
  BY <1>8, <1>11, <1>12 DEF AddsCompares, NoCompares, Covers
<1>14. /\ q.mOurPosition = disp.mOurPosition /\ q.state = disp.state
       /\ q.mCompares = disp.mCompares /\ q.disputed = disp.disputed
       /\ q.mPrevLedgerHash = disp.mPrevLedgerHash
  BY <1>3, <1>12 DEF propose, Round
<1> QED
  BY <1>13, <1>14 DEF KeepsCover, Covers, q

LEMMA CloseLedgerCovers ==
  ASSUME NEW r, Sound(r), NoCompares(r), r.state = "open",
         NEW openTxs \in TxSet, NEW closeTime \in Nat
  PROVE  LET q == closeLedger(r, openTxs, closeTime) IN
         KeepsCover(r, q) /\ q.state = "establish"
<1> DEFINE p == checkOurValidation(r)
           c == [p EXCEPT !.state = "establish", !.sinceStart = 0]
<1>1. r \in Round /\ PeerVotesSound(r) /\ StageSound(r)
  BY SoundParts
<1>2. r.mOurPosition = NoPosition
  BY <1>1 DEF StageSound
<1>3. /\ p \in Round /\ SamePeers(r, p) /\ SameDisputes(r, p)
      /\ p.mOurPosition = NoPosition /\ NoCompares(p) /\ p.mPrevLedgerHash = r.mPrevLedgerHash
  <2>1. p = r \/ p = [r EXCEPT !.lastValidation = r.mPreviousLedger]
    BY DEF checkOurValidation
  <2>2. r.mPreviousLedger \in Ledger \cup {NoLedger, NewLedger}
    BY <1>1 DEF Round
  <2> HIDE DEF p
  <2>3. p \in Round
    BY <1>1, <2>1, <2>2 DEF Round
  <2>4. /\ SamePeers(r, p) /\ SameDisputes(r, p)
        /\ p.mOurPosition = r.mOurPosition /\ p.mCompares = r.mCompares
        /\ p.mPrevLedgerHash = r.mPrevLedgerHash
    BY <1>1, <2>1 DEF Round, SamePeers, SameDisputes
  <2> QED
    BY <1>2, <2>3, <2>4 DEF NoCompares
<1>4. closeLedger(r, openTxs, closeTime) = takeInitialPosition(c, openTxs, closeTime)
  BY DEF closeLedger
<1> HIDE DEF p
<1>5. c \in Round
  BY <1>3, EstablishType
<1>6. /\ c.state = "establish" /\ c.mOurPosition = p.mOurPosition /\ c.mCompares = p.mCompares
      /\ c.mPrevLedgerHash = p.mPrevLedgerHash
      /\ SamePeers(p, c) /\ SameDisputes(p, c)
  BY <1>3 DEF Round, SamePeers, SameDisputes
<1> HIDE DEF c
<1>7. VotesSound(c)
  <2>1. PeerVotesSound(c)
    BY <1>1, <1>3, <1>5, <1>6, SameIsTransitive, VotesDepend
  <2>2. OurVotesSound(c)
    BY <1>3, <1>6 DEF OurVotesSound, hasPosition
  <2> QED
    BY <2>1, <2>2 DEF VotesSound
<1>8. c.mOurPosition = NoPosition /\ NoCompares(c)
  BY <1>3, <1>6 DEF NoCompares
<1>9. KeepsCover(c, closeLedger(r, openTxs, closeTime))
      /\ closeLedger(r, openTxs, closeTime).state = "establish"
  BY <1>4, <1>6, <1>7, <1>8, TakeInitialPositionCovers
<1> QED
  BY <1>3, <1>6, <1>8, <1>9 DEF KeepsCover, NoCompares

(***************************************************************************)
(* updateOurPositions moves our set by disputed transactions only, so what *)
(* was compared stays covered.                                             *)
(***************************************************************************)
LEMMA DifferencesAdd ==
  ASSUME NEW s, NEW t, NEW u, NEW T, Difference(s, t) \subseteq T, Difference(t, u) \subseteq T
  PROVE  Difference(s, u) \subseteq T
  BY DEF Difference

LEMMA ChangePositionCovers ==
  ASSUME NEW r, PeerVotesSound(r), r.mOurPosition \in Position,
         ~isBowOut(r.mOurPosition), r.mOurPosition.proposeSeq <= MaxProposeSeq,
         NEW set \in TxSet, NEW closeTime \in Nat,
         \A t \in r.disputed : r.mDisputes[t].mOurVote <=> t \in set,
         Difference(r.mOurPosition.set, set) \subseteq r.disputed
  PROVE  KeepsCover(r, changePosition(r, set, closeTime))
<1> DEFINE pos == [proposeSeq |-> r.mOurPosition.proposeSeq + 1, set |-> set, closeTime |-> closeTime]
           moved == [r EXCEPT !.mOurPosition = pos]
           told == IF r.mProposing THEN propose(moved) ELSE moved
           q == changePosition(r, set, closeTime)
<1>1. r \in Round
  BY DEF PeerVotesSound
<1>3. q = mapCompleteInternal(told, set, FALSE)
  BY <1>1 DEF changePosition, Round
<1>4. pos \in Position /\ ~isBowOut(pos) /\ pos.set = set
  <2>1. /\ r.mOurPosition.proposeSeq \in Nat /\ r.mOurPosition.proposeSeq <= MaxProposeSeq
        /\ MaxProposeSeq \in Nat /\ seqLeave = MaxProposeSeq + 2
    BY LedgerConsensusAssumption DEF Position, seqLeave
  <2>2. r.mOurPosition.proposeSeq + 1 \in 0 .. seqLeave
    BY <2>1
  <2> QED
    BY <2>1, <2>2 DEF Position, isBowOut
<1> HIDE DEF pos, q
<1>5. moved \in Round
  BY <1>1, <1>4, PositionType
<1>6. moved.mOurPosition = pos /\ SamePeers(r, moved) /\ SameDisputes(r, moved) /\ SameCompares(r, moved)
  BY <1>1 DEF Round, SamePeers, SameDisputes, SameCompares
<1> HIDE DEF moved
<1>7. /\ told \in Round /\ told.mOurPosition = pos
      /\ SamePeers(r, told) /\ SameDisputes(r, told) /\ SameCompares(r, told)
  <2>1. told = moved \/ told = [moved EXCEPT !.proposed = pos]
    BY <1>6 DEF propose
  <2> HIDE DEF told
  <2>2. told \in Round
    BY <1>4, <1>5, <2>1, PositionType
  <2>3. told.mOurPosition = moved.mOurPosition /\ SamePeers(moved, told)
        /\ SameDisputes(moved, told) /\ SameCompares(moved, told)
    BY <1>5, <2>1 DEF Round, SamePeers, SameDisputes, SameCompares
  <2> QED
    BY <1>6, <2>2, <2>3, SameIsTransitive, ComparesTransitive
<1> HIDE DEF told
<1>8. VotesSound(told)
  <2>1. PeerVotesSound(told)
    BY <1>7, VotesDepend
  <2>2. OurVotesSound(told)
    BY <1>4, <1>7 DEF OurVotesSound, SameDisputes
  <2> QED
    BY <2>1, <2>2 DEF VotesSound
<1>9. KeepsCover(r, told)
  <2>1. ASSUME NEW s \in r.mCompares, Covers(r, s) PROVE Difference(s, set) \subseteq r.disputed
    BY <2>1, DifferencesAdd DEF Covers
  <2> QED
    BY <1>4, <1>7, <2>1 DEF KeepsCover, Covers, SameCompares
<1>10. SameCourse(told, q) /\ AddsCompares(told, q)
  BY <1>3, <1>8, MapCompleteInternalSound, MapCompleteCompares
<1>11. KeepsCover(told, q)
  BY <1>10, KeepsCoverTransitive DEF SameCourse
<1> QED
  BY <1>9, <1>11, KeepsCoverTransitive DEF q

LEMMA UpdateOurPositionsCovers ==
  ASSUME NEW r, Sound(r), r.state = "establish", NEW stale \in SUBSET Peer,
         NEW oursStale \in BOOLEAN
  PROVE  KeepsCover(r, updateOurPositions(r, stale, oursStale))
<1> DEFINE fresh == removePeers(r, stale)
           D == [t \in Tx |-> updateVote(fresh.mDisputes[t], mClosePercent(r), r.mProposing)]
           voted == WithDisputes(fresh, D)
           flipped == {t \in fresh.disputed : voted.mDisputes[t].mOurVote # fresh.mDisputes[t].mOurVote}
           nowYes == {t \in flipped : voted.mDisputes[t].mOurVote}
           ct == closeTimeVote(voted)
           timed == [voted EXCEPT !.mHaveCloseTimeConsensus = ct.agreed]
           changes == flipped # {} \/ ct.closeTime # r.mOurPosition.closeTime \/ oursStale
           set == (r.mOurPosition.set \cup nowYes) \ (flipped \ nowYes)
           q == updateOurPositions(r, stale, oursStale)
<1>1. /\ r \in Round /\ PeerVotesSound(r) /\ OurVotesSound(r) /\ StageSound(r)
  BY SoundParts
<1>2. /\ r.mOurPosition \in Position
      /\ isBowOut(r.mOurPosition) \/ r.mOurPosition.proposeSeq <= MaxProposeSeq
  BY <1>1 DEF StageSound
<1>3. /\ PeerVotesSound(fresh) /\ OurVotesSound(fresh) /\ SameCourse(r, fresh)
      /\ SameCompares(r, fresh)
  <2>1. {} \in TxSet /\ {} \in SUBSET TxSet
    BY DEF TxSet
  <2>2. SameCompares(r, fresh)
    BY <1>1, <2>1, BookkeepingCompares
  <2> QED
    BY <1>1, <2>2, RemovePeersSound
<1>4. fresh \in Round
  BY <1>3 DEF PeerVotesSound
<1>5. q = IF changes THEN changePosition(timed, set, ct.closeTime) ELSE timed
  <2>1. [fresh EXCEPT !.mDisputes =
            [t \in Tx |-> updateVote(@[t], mClosePercent(r), r.mProposing)]] = voted
    BY <1>4 DEF WithDisputes, Round
  <2> HIDE DEF voted
  <2> QED
    BY <2>1 DEF updateOurPositions
<1> HIDE DEF fresh
<1>6. ASSUME NEW t \in Tx
      PROVE  D[t] \in Dispute /\ DisputeSound(D[t], proposersOf(fresh))
  <2> DEFINE d == fresh.mDisputes[t]
             e == updateVote(d, mClosePercent(r), r.mProposing)
  <2>1. d \in Dispute /\ DisputeSound(d, proposersOf(fresh)) /\ CountsMatchVotes(d)
    BY <1>3, <1>4 DEF PeerVotesSound, DisputeSound, Round
  <2>2. D[t] = e
    OBVIOUS
  <2> HIDE DEF D, d
  <2>3. e \in Dispute /\ e.mVotes = d.mVotes /\ CountsMatchVotes(e)
    BY <2>1, UpdateVoteSound
  <2> HIDE DEF e
  <2> QED
    BY <2>1, <2>2, <2>3 DEF DisputeSound
<1>7. D \in [Tx -> Dispute]
  BY <1>6
<1> HIDE DEF D
<1>8. /\ PeerVotesSound(voted) /\ SameCourse(fresh, voted) /\ SamePeers(fresh, voted)
      /\ voted.disputed = fresh.disputed /\ voted.mDisputes = D
  BY <1>3, <1>6, <1>7, WithDisputesSound
<1>9. voted \in Round /\ SameCompares(fresh, voted)
  BY <1>4, <1>8 DEF PeerVotesSound, WithDisputes, Round, SameCompares
<1> HIDE DEF voted
<1>10. ct.closeTime \in Nat /\ ct.agreed \in BOOLEAN
  <2>1. voted.mOurPosition \in Position
    BY <1>2, <1>3, <1>8 DEF SameCourse
  <2> QED
    BY <1>9, <2>1, CloseTimeVoteSound
<1> HIDE DEF ct
<1>11. timed \in Round
  BY <1>9, <1>10 DEF Round
<1>12. /\ timed.mOurPosition = voted.mOurPosition /\ SamePeers(voted, timed)
       /\ SameDisputes(voted, timed) /\ SameCompares(voted, timed)
  BY <1>9 DEF Round, SamePeers, SameDisputes, SameCompares
<1> HIDE DEF timed, q
<1>13. /\ timed.mOurPosition = r.mOurPosition /\ timed.disputed = fresh.disputed
       /\ timed.mDisputes = D /\ SameCompares(r, timed)
  BY <1>3, <1>8, <1>9, <1>12, ComparesTransitive DEF SameCourse, SameDisputes
<1>14. PeerVotesSound(timed) /\ KeepsCover(r, timed)
  <2>1. PeerVotesSound(timed)
    BY <1>8, <1>11, <1>12, VotesDepend
  <2>2. KeepsCover(r, timed)
    BY <1>13, KeepsCoverTransitive, ComparesTransitive
  <2> QED
    BY <2>1, <2>2
<1>15. fresh.disputed \in SUBSET Tx /\ r.mOurPosition.set \in TxSet
  BY <1>2, <1>4 DEF Round, Position
<1>16. set \in TxSet /\ Difference(r.mOurPosition.set, set) \subseteq fresh.disputed
  BY <1>15 DEF TxSet, Difference
<1>17. ASSUME NEW t \in fresh.disputed, ~isBowOut(r.mOurPosition)
       PROVE  D[t].mOurVote <=> t \in set
  <2>1. fresh.mDisputes[t].mOurVote <=> t \in r.mOurPosition.set
    <3>1. fresh.mOurPosition = r.mOurPosition /\ hasPosition(fresh)
      BY <1>2, <1>3, NoPositionIsNone DEF SameCourse, hasPosition
    <3> QED
      BY <1>1, <1>3, <1>17, <3>1 DEF OurVotesSound
  <2>2. t \in Tx /\ D[t] \in Dispute /\ fresh.mDisputes[t] \in Dispute
    BY <1>4, <1>7, <1>15 DEF Round
  <2>3. D[t].mOurVote \in BOOLEAN /\ fresh.mDisputes[t].mOurVote \in BOOLEAN
    BY <2>2 DEF Dispute
  <2>4. /\ t \in flipped <=> (D[t].mOurVote # fresh.mDisputes[t].mOurVote)
        /\ t \in nowYes <=> (t \in flipped /\ D[t].mOurVote)
    BY <1>8
  <2> HIDE DEF flipped, nowYes
  <2> QED
    BY <2>1, <2>3, <2>4
<1> HIDE DEF set
<1>18. CASE isBowOut(r.mOurPosition)
  <2>1. changePosition(timed, set, ct.closeTime) = timed
    BY <1>13, <1>18 DEF changePosition
  <2> QED
    BY <1>5, <1>14, <2>1 DEF q
<1>19. CASE ~isBowOut(r.mOurPosition)
  <2>1. /\ timed.mOurPosition \in Position /\ timed.mOurPosition.proposeSeq <= MaxProposeSeq
        /\ ~isBowOut(timed.mOurPosition)
        /\ \A t \in timed.disputed : timed.mDisputes[t].mOurVote <=> t \in set
        /\ Difference(timed.mOurPosition.set, set) \subseteq timed.disputed
    BY <1>2, <1>13, <1>16, <1>17, <1>19
  <2>2. KeepsCover(timed, changePosition(timed, set, ct.closeTime))
    BY <1>10, <1>14, <1>16, <2>1, ChangePositionCovers
  <2>3. KeepsCover(r, changePosition(timed, set, ct.closeTime))
    BY <1>14, <2>2, KeepsCoverTransitive
  <2> QED
    BY <1>5, <1>14, <2>3 DEF q
<1> QED
  BY <1>18, <1>19

LEMMA StateEstablishCovers ==
  ASSUME NEW r, Sound(r), r.state = "establish", NEW stale \in SUBSET Peer,
         NEW oursStale \in BOOLEAN, NEW finished
  PROVE  LET q == stateEstablish(r, stale, oursStale, finished) IN
         /\ KeepsCover(r, q)
         /\ q.state = "establish" \/ (q.state = "finished" /\ q.consensusSet = q.mOurPosition.set)
<1> DEFINE updated == updateOurPositions(r, stale, oursStale)
           Others == {updated.mPeerPositions[p].set : p \in proposersOf(updated) \ agreeing(updated)}
                       \cap (updated.mAcquired \ updated.mCompares)
           compared == compareAll(updated)
           ret == consensusState(compared, finished)
           fail == ret = "MovedOn"
           decided == [compared EXCEPT !.mConsensusFail = fail]
           q == stateEstablish(r, stale, oursStale, finished)
<1>1. UpdatedSound(r, updated) /\ KeepsCover(r, updated)
  BY UpdateOurPositionsSound, UpdateOurPositionsCovers
<1>2. q = IF r.mCurrentMSeconds < LEDGER_MIN_CONSENSUS THEN r
          ELSE IF ret = "No" THEN compared
          ELSE IF ~decided.mHaveCloseTimeConsensus THEN decided
          ELSE beginAccept(decided)
  BY DEF stateEstablish
<1> HIDE DEF updated
<1>3. /\ compared \in Round /\ compared.mOurPosition = updated.mOurPosition
      /\ compared.state = "establish"
  BY <1>1, CompareAllSound DEF UpdatedSound, SameCourse, VotesSound, PeerVotesSound
<1>4. AddsCompares(updated, compared)
  <2>1. updated \in Round
    BY <1>1 DEF UpdatedSound, VotesSound, PeerVotesSound
  <2>2. Others \in SUBSET TxSet
    BY <2>1 DEF Round
  <2>3. compared = createDisputes(updated, Others)
    BY DEF compareAll
  <2> HIDE DEF Others, compared
  <2> QED
    BY <2>1, <2>2, <2>3, CreateDisputesCompares
<1>5. KeepsCover(r, compared)
  BY <1>1, <1>3, <1>4, KeepsCoverTransitive
<1> HIDE DEF compared
<1>6. fail \in BOOLEAN
  OBVIOUS
<1> HIDE DEF fail, ret
<1>7. /\ decided \in Round /\ decided.mOurPosition = compared.mOurPosition
      /\ decided.state = "establish"
      /\ decided.mCompares = compared.mCompares /\ decided.disputed = compared.disputed
      /\ decided.mPrevLedgerHash = compared.mPrevLedgerHash
  <2>1. decided \in Round
    BY <1>3, <1>6 DEF Round
  <2> QED
    BY <1>3, <2>1 DEF Round
<1> HIDE DEF decided, q
<1>8. KeepsCover(r, decided) /\ KeepsCover(r, r)
  BY <1>5, <1>7, KeepsCoverTransitive DEF KeepsCover, Covers
<1>9. CASE q = beginAccept(decided)
  <2>1. q = [decided EXCEPT !.state = "finished", !.consensusSet = decided.mOurPosition.set]
    BY <1>9 DEF beginAccept
  <2>2. /\ q.state = "finished" /\ q.mOurPosition = decided.mOurPosition
        /\ q.mCompares = decided.mCompares /\ q.disputed = decided.disputed
        /\ q.consensusSet = q.mOurPosition.set /\ q.mPrevLedgerHash = decided.mPrevLedgerHash
    BY <1>7, <2>1 DEF Round
  <2> QED
    BY <1>8, <2>2 DEF KeepsCover, Covers, q
<1> QED
  BY <1>2, <1>3, <1>5, <1>7, <1>8, <1>9 DEF q

-----------------------------------------------------------------------------
(***************************************************************************)
(* The actions.  CoverStep is what a step does to the sets compared.       *)
(***************************************************************************)
CoverStep ==
  \A s \in lc'.mCompares :
    \/ Covers(lc', s)
    \/ /\ s \in lc.mCompares
       /\ Covers(lc, s) => lc'.mPrevLedgerHash # lc.mPrevLedgerHash

LEMMA CompareInit ==
  ASSUME Init
  PROVE  CompareInv
<1>1. lc.state = "open" /\ lc.mCompares = {}
  BY DEF Init, Start
<1> QED
  BY <1>1 DEF CompareInv

LEMMA TimerCovers ==
  ASSUME IInv, CompareInv, NEW now \in Instant, NEW netLgr \in Ledger, NEW got \in BOOLEAN,
         \/ \E sinceClose \in Instant, openTxs \in TxSet, closeTime \in CloseTime,
               validated \in {0, PreviousProposers} :
              TimerOpen(now, netLgr, got, openTxs, closeTime, validated, sinceClose)
         \/ \E oursStale \in BOOLEAN, stale \in SUBSET Peer, finished \in {0, Cardinality(Peer) + 1} :
              TimerEstablish(now, netLgr, got, stale, oursStale, finished)
  PROVE  CompareInv' /\ CoverStep
<1> DEFINE r == Ticked(now, netLgr, got)
<1>1. now \in Nat
  BY LedgerConsensusAssumption
<1>2. lc.state \in {"open", "establish"}
  BY DEF TimerOpen, TimerEstablish
<1>3. /\ Sound(r) /\ r.state = lc.state /\ r.mCompares = lc.mCompares
      /\ r.mPrevLedgerHash # lc.mPrevLedgerHash \/ KeepsCover(lc, r)
  BY <1>1, <1>2, TickedSound, TickedCompares
<1>4. ASSUME NEW sinceClose \in Instant, NEW openTxs \in TxSet, NEW closeTime \in CloseTime,
             NEW validated, TimerOpen(now, netLgr, got, openTxs, closeTime, validated, sinceClose)
      PROVE  /\ KeepsCover(r, lc')
             /\ (lc' = r /\ r.state = "open") \/ lc'.state = "establish"
  <2>1. lc.state = "open" /\ lc' = statePreClose(r, openTxs, closeTime, validated, sinceClose)
    BY <1>4 DEF TimerOpen
  <2> HIDE DEF r
  <2>2. lc' = r \/ lc' = closeLedger(r, openTxs, closeTime)
    BY <2>1 DEF statePreClose
  <2>3. closeTime \in Nat /\ NoCompares(r)
    BY <1>3, <2>1, LedgerConsensusAssumption DEF CompareInv, NoCompares
  <2> QED
    BY <1>3, <2>1, <2>2, <2>3, CloseLedgerCovers, KeepsCoverTransitive
<1>5. ASSUME NEW oursStale \in BOOLEAN, NEW stale \in SUBSET Peer, NEW finished,
             TimerEstablish(now, netLgr, got, stale, oursStale, finished)
      PROVE  /\ KeepsCover(r, lc')
             /\ \/ lc'.state = "establish"
                \/ lc'.state = "finished" /\ lc'.consensusSet = lc'.mOurPosition.set
  <2>1. lc.state = "establish" /\ lc' = stateEstablish(r, stale, oursStale, finished)
    BY <1>5 DEF TimerEstablish
  <2> HIDE DEF r
  <2> QED
    BY <1>3, <2>1, StateEstablishCovers
<1> HIDE DEF r
<1>6. KeepsCover(r, lc')
  BY <1>4, <1>5
<1>7. CompareInv'
  BY <1>3, <1>4, <1>5 DEF CompareInv
<1>8. CASE KeepsCover(lc, r)
  <2>1. KeepsCover(lc, lc')
    BY <1>6, <1>8, KeepsCoverTransitive
  <2> QED
    BY <1>7, <2>1 DEF KeepsCover, CoverStep
<1>9. CASE r.mPrevLedgerHash # lc.mPrevLedgerHash
  BY <1>3, <1>6, <1>7, <1>9 DEF KeepsCover, CoverStep
<1> QED
  BY <1>3, <1>8, <1>9

LEMMA PeerPositionCompares ==
  ASSUME NEW r, VotesSound(r), NEW p \in Peer, NEW pos \in Position
  PROVE  SameCompares(r, peerPosition(r, p, pos))
<1> DEFINE removed == removePeers(r, {p})
           left == [removed EXCEPT !.mDeadNodes = removed.mDeadNodes \cup {p}]
           pp == [r.mPeerPositions EXCEPT ![p] = pos]
           told == [r EXCEPT !.mPeerPositions = pp]
           moved == getTransactionTree(told, {pos.set})
           q == peerPosition(r, p, pos)
<1>1. r \in Round /\ PeerVotesSound(r)
  BY DEF VotesSound, PeerVotesSound
<1>2. {p} \in SUBSET Peer /\ pos.set \in TxSet /\ {pos.set} \in SUBSET TxSet
  BY DEF Position
<1>3. removed \in Round /\ SameCompares(r, removed)
  BY <1>1, <1>2, RemovePeersSound, BookkeepingCompares DEF PeerVotesSound
<1>4. told \in Round /\ SameCompares(r, told)
  <2>1. pp \in [Peer -> Position \cup {NoPosition}]
    BY <1>1 DEF Round
  <2> HIDE DEF pp
  <2>2. told \in Round
    BY <1>1, <2>1 DEF Round
  <2> QED
    BY <1>1, <2>2 DEF Round, SameCompares
<1>5. q = r \/ q = left \/ q = moved \/ q = adjustCount(moved, pos.set, {p})
  <2>1. left = [removed EXCEPT !.mDeadNodes = @ \cup {p}]
    BY <1>3 DEF Round
  <2>2. told = [r EXCEPT !.mPeerPositions[p] = pos]
    BY <1>1 DEF Round
  <2> HIDE DEF left, told
  <2> QED
    BY <2>1, <2>2 DEF peerPosition
<1> HIDE DEF removed, told
<1>6. SameCompares(removed, left)
  BY <1>3 DEF Round, SameCompares
<1>7. moved \in Round /\ SameCompares(told, moved)
  BY <1>2, <1>4, GetTransactionTreeSound, BookkeepingCompares
<1> HIDE DEF left, moved, q
<1>8. SameCompares(moved, adjustCount(moved, pos.set, {p}))
  BY <1>2, <1>7, BookkeepingCompares
<1> QED
  BY <1>3, <1>4, <1>5, <1>6, <1>7, <1>8 DEF SameCompares, q

\* A step that keeps our position and adds what it compares.
LEMMA BookkeepingCovers ==
  ASSUME CompareInv, AddsCompares(lc, lc'), SameCourse(lc, lc'),
         lc.state = "open" => lc'.mCompares = lc.mCompares
  PROVE  CompareInv' /\ CoverStep
<1>1. /\ lc'.mOurPosition = lc.mOurPosition /\ lc'.state = lc.state
      /\ lc'.consensusSet = lc.consensusSet
  BY DEF SameCourse, AddsCompares
<1>2. KeepsCover(lc, lc')
  BY <1>1, KeepsCoverTransitive
<1> QED
  BY <1>1, <1>2 DEF CompareInv, CoverStep, KeepsCover

LEMMA ReceiveProposalCovers ==
  ASSUME IInv, CompareInv, NEW p \in Peer, NEW q \in Proposal, ReceiveProposal(p, q)
  PROVE  CompareInv' /\ CoverStep
<1>1. q.pos \in Position
  BY DEF Proposal
<1>2. lc' = lc \/ lc' = peerPosition(lc, p, q.pos)
  BY DEF ReceiveProposal
<1>3. SameCompares(lc, lc') /\ SameCourse(lc, lc')
  BY <1>1, <1>2, InvParts, PeerPositionSound, PeerPositionCompares, SameIsTransitive,
     ComparesTransitive
<1> QED
  BY <1>3, ComparesTransitive, BookkeepingCovers DEF SameCompares

LEMMA SetStepsCover ==
  ASSUME IInv, CompareInv, NEW s \in TxSet, GiveSet(s) \/ MapComplete(s)
  PROVE  CompareInv' /\ CoverStep
<1>1. \E r : /\ r \in Round /\ SameCourse(lc, r) /\ AddsCompares(lc, r)
             /\ lc.state = "open" => r.mCompares = lc.mCompares
             /\ \E G \in SUBSET TxSet : lc' = [r EXCEPT !.gotSet = G]
  <2>1. CASE GiveSet(s)
    <3> DEFINE r == giveSet(lc, s)
    <3>1. r \in Round /\ SameCourse(lc, r)
      BY InvParts, GiveSetSound
    <3>2. lc' = [r EXCEPT !.gotSet = r.gotSet \cup {s}]
      BY <2>1, <3>1 DEF GiveSet, Round
    <3>3. SameCompares(lc, r)
      <4>1. {} \in SUBSET Peer /\ {} \in SUBSET TxSet
        OBVIOUS
      <4> QED
        BY <4>1, InvParts, BookkeepingCompares
    <3> HIDE DEF r
    <3>4. r.gotSet \cup {s} \in SUBSET TxSet
      BY <3>1 DEF Round
    <3>5. AddsCompares(lc, r) /\ r.mCompares = lc.mCompares
      BY <3>3, ComparesTransitive DEF SameCompares
    <3> QED
      BY <3>1, <3>2, <3>4, <3>5
  <2>2. CASE MapComplete(s)
    <3> DEFINE r == IF lc.state = "ended" THEN lc ELSE mapCompleteInternal(lc, s, TRUE)
    <3>1. VotesSound(r) /\ SameCourse(lc, r)
      BY InvParts, MapCompleteInternalSound, SameIsTransitive
    <3>2. r \in Round
      BY <3>1 DEF VotesSound, PeerVotesSound
    <3>3. AddsCompares(lc, r) /\ (~hasPosition(lc) => r.mCompares = lc.mCompares)
      BY InvParts, MapCompleteCompares, ComparesTransitive
    <3>4. lc.state = "open" => ~hasPosition(lc)
      BY InvParts DEF StageSound, hasPosition
    <3>5. lc' = [r EXCEPT !.gotSet = r.gotSet \ {s}]
      BY <2>2, <3>2 DEF MapComplete, Round
    <3> HIDE DEF r
    <3>6. r.gotSet \ {s} \in SUBSET TxSet
      BY <3>2 DEF Round
    <3> QED
      BY <3>1, <3>2, <3>3, <3>4, <3>5, <3>6
  <2> QED
    BY <2>1, <2>2
<1>2. PICK r : /\ r \in Round /\ SameCourse(lc, r) /\ AddsCompares(lc, r)
               /\ lc.state = "open" => r.mCompares = lc.mCompares
               /\ \E G \in SUBSET TxSet : lc' = [r EXCEPT !.gotSet = G]
  BY <1>1
<1>3. PICK G \in SUBSET TxSet : lc' = [r EXCEPT !.gotSet = G]
  BY <1>2
<1>4. SameCourse(r, lc') /\ SameCompares(r, lc')
  BY <1>2, <1>3 DEF Round, SameCourse, SameCompares
<1>5. SameCourse(lc, lc') /\ AddsCompares(lc, lc')
  BY <1>2, <1>4, SameIsTransitive DEF AddsCompares, SameCompares
<1>6. lc.state = "open" => lc'.mCompares = lc.mCompares
  BY <1>2, <1>4 DEF SameCompares
<1> QED
  BY <1>5, <1>6, BookkeepingCovers

LEMMA AcceptStepsCover ==
  ASSUME IInv, CompareInv,
         \/ TimerAccepted \/ AcceptRetry \/ AcceptFinish
         \/ \E compatible \in BOOLEAN : AcceptBuild(compatible)
  PROVE  CompareInv' /\ CoverStep
<1>1. lc \in Round
  BY InvParts
<1>2. /\ lc'.mOurPosition = lc.mOurPosition /\ lc'.mCompares = lc.mCompares
      /\ lc'.disputed = lc.disputed /\ lc'.consensusSet = lc.consensusSet
      /\ lc'.state \in {"finished", "accepted", "ended"}
      /\ lc'.state = "finished" => lc.state = "finished"
  <2>1. CASE TimerAccepted
    BY <1>1, <2>1 DEF TimerAccepted, Round
  <2>2. CASE AcceptRetry
    BY <1>1, <2>2 DEF AcceptRetry, Round
  <2>3. CASE AcceptFinish
    BY <1>1, <2>3 DEF AcceptFinish, Round
  <2>4. ASSUME NEW compatible \in BOOLEAN, AcceptBuild(compatible)
        PROVE  /\ lc'.mOurPosition = lc.mOurPosition /\ lc'.mCompares = lc.mCompares
               /\ lc'.disputed = lc.disputed /\ lc'.consensusSet = lc.consensusSet
               /\ lc'.state = "finished" /\ lc.state = "finished"
    BY <1>1, <2>4 DEF AcceptBuild, Round
  <2> QED
    BY <2>1, <2>2, <2>3, <2>4
<1> QED
  BY <1>2 DEF CompareInv, CoverStep, Covers

LEMMA CoverNext ==
  ASSUME IInv, CompareInv, [Next]_vars
  PROVE  CompareInv' /\ CoverStep
<1>1. CASE UNCHANGED vars
  BY <1>1 DEF vars, CompareInv, CoverStep, Covers
<1>2. ASSUME NEW p \in Peer, NEW l \in Ledger, NEW pos \in PeerPosition,
             ReceiveProposal(p, [prevLedger |-> l, pos |-> pos])
      PROVE  CompareInv' /\ CoverStep
  <2>1. [prevLedger |-> l, pos |-> pos] \in Proposal
    BY PeerPositionType DEF Proposal
  <2> QED
    BY <1>2, <2>1, ReceiveProposalCovers
<1>3. CASE Next
  BY <1>2, <1>3, TimerCovers, SetStepsCover, AcceptStepsCover DEF Next
<1> QED
  BY <1>1, <1>3

(***************************************************************************)
(* The disputed transactions that are tried again are those our set leaves *)
(* out, until we bow out.                                                  *)
(***************************************************************************)
LEMMA RetryTries ==
  ASSUME IInv, CompareInv, AcceptRetry
  PROVE  isBowOut(lc.mOurPosition) \/ lc.disputed \ lc.consensusSet \subseteq lc'.retried
<1>1. lc \in Round /\ OurVotesSound(lc) /\ lc.mOurPosition \in Position
  BY InvParts DEF AcceptRetry, StageSound
<1>2. lc'.retried = notIncluded(lc) /\ lc.consensusSet = lc.mOurPosition.set
  BY <1>1 DEF AcceptRetry, Round, CompareInv
<1>3. hasPosition(lc)
  BY <1>1, NoPositionIsNone DEF hasPosition
<1>4. ~isBowOut(lc.mOurPosition) =>
        \A t \in lc.disputed : lc.mDisputes[t].mOurVote <=> t \in lc.mOurPosition.set
  BY <1>1, <1>3 DEF OurVotesSound
<1> QED
  BY <1>2, <1>4 DEF notIncluded

(***************************************************************************)
(* Before the close nothing is compared, and a round finishes with our set.*)
(***************************************************************************)
THEOREM CompareInvariance == Spec => []CompareInv
<1>1. IInv /\ CompareInv /\ [Next]_vars => CompareInv'
  BY CoverNext
<1>2. Init => CompareInv
  BY CompareInit
<1> QED
  BY <1>1, <1>2, ConsensusInvariance, PTL DEF Spec

(***************************************************************************)
(* From the moment a set is compared with ours it differs from ours only   *)
(* in disputed transactions, through every vote, change of our position    *)
(* and late set, until handleLCL switches to another ledger ("Make sure we *)
(* have generated disputes", haveConsensus).                               *)
(***************************************************************************)
THEOREM ComparedIsDisputed == Spec => DisputesCoverDifferences
<1>1. IInv /\ CompareInv /\ [Next]_vars =>
        [\A s \in lc'.mCompares :
           \/ Covers(lc', s)
           \/ /\ s \in lc.mCompares
              /\ Covers(lc, s) => lc'.mPrevLedgerHash # lc.mPrevLedgerHash]_vars
  BY CoverNext DEF CoverStep
<1> QED
  BY <1>1, ConsensusInvariance, CompareInvariance, PTL DEF Spec, DisputesCoverDifferences

(***************************************************************************)
(* Accept tries every disputed transaction again that the consensus set    *)
(* left out, unless we bowed out: our votes, which select them, describe   *)
(* the set we finished with.                                               *)
(***************************************************************************)
THEOREM LeftOutIsTriedAgain == Spec => DisputedTriedAgain
<1>1. IInv /\ CompareInv /\ [Next]_vars =>
        [AcceptRetry =>
           isBowOut(lc.mOurPosition) \/ lc.disputed \ lc.consensusSet \subseteq lc'.retried]_vars
  BY RetryTries
<1> QED
  BY <1>1, ConsensusInvariance, CompareInvariance, PTL DEF Spec, DisputedTriedAgain

-----------------------------------------------------------------------------
(***************************************************************************)
(* The votes of a peer v are what its set says, with any number of peers,  *)
(* unless a proposal overtakes mapComplete: giveSet has published the set, *)
(* the proposal of another peer takes it, and mapCompleteInternal then     *)
(* returns early, so v, which proposed the set before, is not counted.     *)
(***************************************************************************)
SameVotes(r, q) ==
  /\ q.mPeerPositions = r.mPeerPositions /\ q.mAcquired = r.mAcquired /\ q.disputed = r.disputed
  /\ \A t \in Tx : q.mDisputes[t].mVotes = r.mDisputes[t].mVotes

LEMMA SameVotesKept ==
  ASSUME NEW r \in Round, NEW q, SameVotes(r, q), NEW p \in Peer, Shows(r, p)
  PROVE  Shows(q, p)
<1>1. r.disputed \subseteq Tx
  BY DEF Round
<1> QED
  BY <1>1 DEF SameVotes, Shows

LEMMA SetVoteVotes ==
  ASSUME NEW d \in Dispute, NEW Y, NEW N
  PROVE  setVote(d, Y, N).mVotes =
           [p \in Peer |-> IF p \in Y THEN "yes" ELSE IF p \in N THEN "no" ELSE d.mVotes[p]]
  BY DEF setVote, Dispute

LEMMA SetVoteVote ==
  ASSUME NEW d \in Dispute, NEW Y, NEW N, NEW p \in Peer
  PROVE  setVote(d, Y, N).mVotes[p] =
           IF p \in Y THEN "yes" ELSE IF p \in N THEN "no" ELSE d.mVotes[p]
<1> DEFINE V == [u \in Peer |-> IF u \in Y THEN "yes" ELSE IF u \in N THEN "no" ELSE d.mVotes[u]]
<1>1. setVote(d, Y, N).mVotes = V
  BY SetVoteVotes
<1>2. V[p] = IF p \in Y THEN "yes" ELSE IF p \in N THEN "no" ELSE d.mVotes[p]
  OBVIOUS
<1> QED
  BY <1>1, <1>2

LEMMA CreateDisputesShows ==
  ASSUME NEW r \in Round, NEW Others \in SUBSET TxSet, NEW p \in Peer, Shows(r, p)
  PROVE  Shows(createDisputes(r, Others), p)
<1> DEFINE ours == r.mOurPosition.set
           differences == UNION {(ours \ s) \cup (s \ ours) : s \in Others}
           D == [t \in Tx |-> IF t \in differences \ r.disputed
                                THEN newDispute(r, t) ELSE r.mDisputes[t]]
           q == createDisputes(r, Others)
<1>1. q = [r EXCEPT !.mCompares = r.mCompares \cup Others,
                    !.disputed = r.disputed \cup differences, !.mDisputes = D]
  BY DEF createDisputes, Round
<1>2. differences \subseteq Tx /\ r.disputed \subseteq Tx
  BY DEF Round, Position, NoPosition, TxSet
<1>3. \A t \in Tx : D[t] = IF t \in differences \ r.disputed THEN newDispute(r, t) ELSE r.mDisputes[t]
  OBVIOUS
<1> HIDE DEF differences, D, q
<1>4. /\ q.mPeerPositions = r.mPeerPositions /\ q.mAcquired = r.mAcquired
      /\ q.disputed = r.disputed \cup differences /\ q.mDisputes = D
  BY <1>1 DEF Round
<1> DEFINE pos == r.mPeerPositions[p]
<1>5. ASSUME pos # NoPosition, pos.set \in r.mAcquired, NEW t \in Tx
      PROVE  newDispute(r, t).mVotes[p] = IF t \in pos.set THEN "yes" ELSE "no"
  <2> DEFINE known == {u \in proposersOf(r) : r.mPeerPositions[u].set \in r.mAcquired}
             yes == {u \in known : t \in r.mPeerPositions[u].set}
             b == hasPosition(r) /\ t \in r.mOurPosition.set
  <2>1. newDispute(r, t) = setVote(NewDispute(b), yes, known \ yes)
    BY DEF newDispute
  <2>2. p \in known /\ (p \in yes <=> t \in pos.set)
    BY <1>5 DEF proposersOf
  <2>3. NewDispute(b) \in Dispute
    BY DEF NewDispute, Dispute, Vote
  <2> HIDE DEF known, yes, b
  <2>4. newDispute(r, t).mVotes[p] =
          IF p \in yes THEN "yes" ELSE IF p \in known \ yes THEN "no" ELSE NewDispute(b).mVotes[p]
    BY <2>1, <2>3, SetVoteVote
  <2> QED
    BY <2>2, <2>4
<1> QED
  BY <1>2, <1>3, <1>4, <1>5 DEF Shows, q

LEMMA AdjustCountShows ==
  ASSUME NEW r \in Round, NEW s, NEW P \in SUBSET Peer, NEW p \in Peer,
         p \in P => r.mPeerPositions[p].set = s,
         p \notin P => Shows(r, p)
  PROVE  Shows(adjustCount(r, s, P), p)
<1> DEFINE D == [t \in Tx |->
                   IF t \notin r.disputed THEN r.mDisputes[t]
                   ELSE IF t \in s THEN setVote(r.mDisputes[t], P, {})
                   ELSE setVote(r.mDisputes[t], {}, P)]
           q == adjustCount(r, s, P)
<1>1. q = WithDisputes(r, D)
  BY DEF adjustCount, WithDisputes, Round
<1>2. ASSUME NEW t \in r.disputed
      PROVE  D[t].mVotes[p] = IF p \notin P THEN r.mDisputes[t].mVotes[p]
                              ELSE IF t \in s THEN "yes" ELSE "no"
  <2>1. t \in Tx /\ r.mDisputes[t] \in Dispute
    BY DEF Round
  <2>2. D[t] = IF t \in s THEN setVote(r.mDisputes[t], P, {}) ELSE setVote(r.mDisputes[t], {}, P)
    BY <2>1
  <2> DEFINE d == r.mDisputes[t]
  <2>3. p \in P => setVote(d, P, {}).mVotes[p] = "yes" /\ setVote(d, {}, P).mVotes[p] = "no"
    BY <2>1, SetVoteVote
  <2>4. p \notin P => /\ setVote(d, P, {}).mVotes[p] = d.mVotes[p]
                      /\ setVote(d, {}, P).mVotes[p] = d.mVotes[p]
    BY <2>1, SetVoteVote
  <2> HIDE DEF D
  <2> QED
    BY <2>2, <2>3, <2>4
<1> HIDE DEF D, q
<1>3. /\ q.mPeerPositions = r.mPeerPositions /\ q.mAcquired = r.mAcquired
      /\ q.disputed = r.disputed /\ q.mDisputes = D
  BY <1>1 DEF WithDisputes, Round
<1> QED
  BY <1>2, <1>3 DEF Shows, q

LEMMA RemovePeersShows ==
  ASSUME NEW r \in Round, NEW P \in SUBSET Peer, NEW p \in Peer, Shows(r, p)
  PROVE  Shows(removePeers(r, P), p)
<1> DEFINE D == [t \in Tx |-> unVote(r.mDisputes[t], P)]
           pp == [u \in Peer |-> IF u \in P THEN NoPosition ELSE r.mPeerPositions[u]]
           q == removePeers(r, P)
<1>1. q = [r EXCEPT !.mPeerPositions = pp, !.mDisputes = D]
  BY DEF removePeers, Round
<1>2. ASSUME NEW t \in r.disputed, p \notin P
      PROVE  D[t].mVotes[p] = r.mDisputes[t].mVotes[p]
  <2>1. t \in Tx /\ r.mDisputes[t] \in Dispute
    BY DEF Round
  <2> QED
    BY <1>2, <2>1 DEF unVote, Dispute
<1>3. pp[p] = IF p \in P THEN NoPosition ELSE r.mPeerPositions[p]
  OBVIOUS
<1> HIDE DEF D, pp, q
<1>4. /\ q.mPeerPositions = pp /\ q.mAcquired = r.mAcquired
      /\ q.disputed = r.disputed /\ q.mDisputes = D
  BY <1>1 DEF Round
<1> QED
  BY <1>2, <1>3, <1>4 DEF Shows, q

LEMMA GiveSetVotes ==
  ASSUME NEW r \in Round, NEW s
  PROVE  SameVotes(r, giveSet(r, s))
  BY DEF giveSet, Round, SameVotes

LEMMA CreateDisputesType ==
  ASSUME NEW r \in Round, NEW Others \in SUBSET TxSet
  PROVE  LET q == createDisputes(r, Others) IN
         q \in Round /\ q.mPeerPositions = r.mPeerPositions
<1> DEFINE ours == r.mOurPosition.set
           diffs == UNION {(ours \ s) \cup (s \ ours) : s \in Others}
           E == [t \in Tx |-> IF t \in diffs \ r.disputed THEN newDispute(r, t) ELSE r.mDisputes[t]]
           q == createDisputes(r, Others)
<1>1. q = [r EXCEPT !.mCompares = r.mCompares \cup Others,
                    !.disputed = r.disputed \cup diffs, !.mDisputes = E]
  BY DEF createDisputes, Round
<1>2. diffs \in SUBSET Tx
  BY DEF Round, Position, NoPosition, TxSet
<1>3. E \in [Tx -> Dispute]
  BY NewDisputeOfRoundSound DEF Round
<1>4. r.mCompares \cup Others \in SUBSET TxSet /\ r.disputed \cup diffs \in SUBSET Tx
  BY <1>2 DEF Round
<1> HIDE DEF diffs, E, q
<1>5. q \in Round
  BY <1>1, <1>3, <1>4, WithComparesType
<1> QED
  BY <1>1, <1>5 DEF Round, q

(***************************************************************************)
(* mapCompleteInternal counts every peer that holds the set.               *)
(***************************************************************************)
LEMMA MapCompleteReflects ==
  ASSUME NEW r \in Round, NEW v \in Peer, Shows(r, v), NEW s \in TxSet, NEW acquired \in BOOLEAN
  PROVE  Shows(mapCompleteInternal(r, s, acquired), v)
<1> DEFINE given == IF acquired THEN r ELSE giveSet(r, s)
           compared ==
             IF hasPosition(r) /\ ~isBowOut(r.mOurPosition) /\ s # r.mOurPosition.set
               THEN createDisputes(given, {s}) ELSE given
           known == [compared EXCEPT !.mAcquired = compared.mAcquired \cup {s}]
           P == {p \in proposersOf(r) : r.mPeerPositions[p].set = s}
           q == mapCompleteInternal(r, s, acquired)
<1>1. given \in Round /\ Shows(given, v) /\ given.mPeerPositions = r.mPeerPositions
  <2>1. giveSet(r, s) \in Round /\ SamePeers(r, giveSet(r, s))
    BY GiveSetSound
  <2>2. Shows(giveSet(r, s), v)
    BY GiveSetVotes, SameVotesKept
  <2> QED
    BY <2>1, <2>2 DEF SamePeers
<1> HIDE DEF given
<1>2. compared \in Round /\ Shows(compared, v) /\ compared.mPeerPositions = r.mPeerPositions
  <2>1. {s} \in SUBSET TxSet
    OBVIOUS
  <2>2. /\ createDisputes(given, {s}) \in Round
        /\ createDisputes(given, {s}).mPeerPositions = given.mPeerPositions
    BY <1>1, <2>1, CreateDisputesType
  <2>3. Shows(createDisputes(given, {s}), v)
    BY <1>1, <2>1, CreateDisputesShows
  <2> QED
    BY <1>1, <2>2, <2>3
<1>3. q = IF s \in r.mAcquired THEN r ELSE adjustCount(known, s, P)
  BY <1>2 DEF mapCompleteInternal, given, Round
<1> HIDE DEF compared
<1>4. known \in Round
  BY <1>2 DEF Round
<1>5. /\ known.mPeerPositions = r.mPeerPositions /\ known.mAcquired = compared.mAcquired \cup {s}
      /\ known.disputed = compared.disputed /\ known.mDisputes = compared.mDisputes
  BY <1>2 DEF Round
<1>6. P \in SUBSET Peer
  BY DEF proposersOf
<1>7. /\ v \in P => known.mPeerPositions[v].set = s
      /\ v \notin P => Shows(known, v)
  <2>1. v \in P <=> r.mPeerPositions[v] # NoPosition /\ r.mPeerPositions[v].set = s
    BY DEF proposersOf
  <2>2. Shows(compared, v)
    BY <1>2
  <2> HIDE DEF known, P
  <2> QED
    BY <1>2, <1>5, <2>1, <2>2 DEF Shows
<1> HIDE DEF known, P, q
<1>8. Shows(adjustCount(known, s, P), v)
  BY <1>4, <1>6, <1>7, AdjustCountShows
<1> QED
  BY <1>3, <1>8 DEF q

(***************************************************************************)
(* peerPosition: a proposal of p that takes the set of v leaves v          *)
(* uncounted if mapCompleteInternal did not count it.                      *)
(***************************************************************************)
LEMMA PeerPositionReflects ==
  ASSUME NEW r \in Round, NEW v \in Peer, Shows(r, v), NEW p \in Peer, NEW pos \in Position
  PROVE  LET q == peerPosition(r, p, pos) IN
         \/ Shows(q, v)
         \/ /\ p # v /\ v \in proposersOf(r) /\ r.mPeerPositions[v].set = pos.set
            /\ pos.set \in r.complete \ r.mAcquired
            /\ q.mPeerPositions[p] = pos /\ r.mPeerPositions[p] # pos
<1> DEFINE removed == removePeers(r, {p})
           left == [removed EXCEPT !.mDeadNodes = removed.mDeadNodes \cup {p}]
           pp == [r.mPeerPositions EXCEPT ![p] = pos]
           told == [r EXCEPT !.mPeerPositions = pp]
           asked == getSet(told, {pos.set} \ told.mAcquired)
           moved == getTransactionTree(told, {pos.set})
           q == peerPosition(r, p, pos)
<1>1. {p} \in SUBSET Peer /\ pos.set \in TxSet /\ {pos.set} \in SUBSET TxSet
  BY DEF Position
<1>2. Shows(removed, v)
  BY <1>1, RemovePeersShows
<1>3. \/ q = r \/ q = left
      \/ /\ q = IF pos.set \in moved.mAcquired THEN adjustCount(moved, pos.set, {p}) ELSE moved
         /\ ~ignores(r, p, pos)
  <2>1. removed = [r EXCEPT !.mPeerPositions = [u \in Peer |-> IF u \in {p} THEN NoPosition ELSE @[u]],
                            !.mDisputes = [t \in Tx |-> unVote(@[t], {p})]]
    BY DEF removePeers
  <2>2. left = [removed EXCEPT !.mDeadNodes = @ \cup {p}]
    BY <2>1 DEF Round
  <2>3. told = [r EXCEPT !.mPeerPositions[p] = pos]
    BY DEF Round
  <2> HIDE DEF left, told
  <2> QED
    BY <2>2, <2>3 DEF peerPosition
<1>4. Shows(left, v)
  <2>1. /\ left.mPeerPositions = removed.mPeerPositions /\ left.mAcquired = removed.mAcquired
        /\ left.disputed = removed.disputed /\ left.mDisputes = removed.mDisputes
    BY DEF removePeers, Round
  <2> HIDE DEF left, removed
  <2> QED
    BY <1>2, <2>1 DEF Shows
<1>5. pp \in [Peer -> Position \cup {NoPosition}] /\ pp[p] = pos
      /\ \A u \in Peer \ {p} : pp[u] = r.mPeerPositions[u]
  BY DEF Round
<1> HIDE DEF pp
<1>6. told \in Round
  BY <1>5 DEF Round
<1>7. /\ told.mPeerPositions = pp /\ told.mAcquired = r.mAcquired /\ told.complete = r.complete
      /\ told.disputed = r.disputed /\ told.mDisputes = r.mDisputes
  BY DEF Round
<1> HIDE DEF told
<1>8. moved \in Round /\ moved.mPeerPositions = pp /\ SameDisputes(r, moved)
  BY <1>1, <1>6, <1>7, GetTransactionTreeSound DEF SamePeers, SameDisputes
<1>9. moved.mAcquired = r.mAcquired \cup ({pos.set} \cap r.complete)
  <2>1. asked = [told EXCEPT !.acquiring = @ \cup (({pos.set} \ told.mAcquired) \ told.complete)]
    BY DEF getSet
  <2>2. moved = [asked EXCEPT !.mAcquired = @ \cup ({pos.set} \cap told.complete)]
    BY DEF getTransactionTree
  <2> HIDE DEF asked, moved
  <2>3. asked.mAcquired = told.mAcquired /\ "mAcquired" \in DOMAIN asked
    BY <1>6, <2>1 DEF Round
  <2> QED
    BY <1>7, <2>2, <2>3
<1> HIDE DEF moved, left, q
<1> DEFINE overtaken == /\ v \in proposersOf(r) /\ r.mPeerPositions[v].set = pos.set
                        /\ pos.set \in r.complete \ r.mAcquired
<1>10. ASSUME v # p, ~overtaken
       PROVE  Shows(moved, v)
  <2>1. moved.mPeerPositions[v] = r.mPeerPositions[v]
    BY <1>5, <1>8, <1>10
  <2>2. r.mPeerPositions[v] # NoPosition /\ r.mPeerPositions[v].set \in moved.mAcquired
          => r.mPeerPositions[v].set \in r.mAcquired
    BY <1>9, <1>10 DEF proposersOf
  <2> QED
    BY <1>8, <2>1, <2>2 DEF Shows, SameDisputes
<1>11. CASE pos.set \in moved.mAcquired /\ q = adjustCount(moved, pos.set, {p}) /\ ~ignores(r, p, pos)
  <2>1. v \in {p} => moved.mPeerPositions[v].set = pos.set
    BY <1>5, <1>8
  <2>2. v = p \/ ~overtaken => Shows(q, v)
    BY <1>1, <1>8, <1>10, <1>11, <2>1, AdjustCountShows
  <2>3. q.mPeerPositions[p] = pos
    BY <1>5, <1>8, <1>11 DEF adjustCount, Round
  <2>4. r.mPeerPositions[p] # pos
    <3>1. pos # NoPosition /\ pos.proposeSeq <= pos.proposeSeq
      BY NoPositionIsNone DEF Position
    <3> QED
      BY <1>11, <3>1 DEF ignores, proposersOf
  <2> QED
    BY <2>2, <2>3, <2>4 DEF q
<1>12. CASE pos.set \notin moved.mAcquired /\ q = moved
  <2>1. v = p => Shows(moved, v)
    BY <1>5, <1>8, <1>12 DEF Shows
  <2>2. ~overtaken
    BY <1>9, <1>12
  <2> QED
    BY <1>10, <1>12, <2>1, <2>2 DEF q
<1> QED
  BY <1>3, <1>4, <1>11, <1>12 DEF q

(***************************************************************************)
(* A switch of ledgers clears the disputes; the timer reads the clock.     *)
(***************************************************************************)
LEMMA UndisputedReflects ==
  ASSUME NEW r, NEW v \in Peer, r.disputed = {}
  PROVE  Shows(r, v)
  BY DEF Shows

LEMMA ReflectsKept ==
  ASSUME NEW r \in Round, NEW q, NEW v \in Peer, Shows(r, v), SameVotes(r, q)
  PROVE  Shows(q, v)
  BY SameVotesKept

LEMMA HandleLCLReflects ==
  ASSUME NEW r, Sound(r), NEW v \in Peer, Shows(r, v), NEW lcl \in Ledger, NEW got, NEW sto, StoredSound(sto)
  PROVE  Shows(handleLCL(r, lcl, got, sto), v)
<1> DEFINE over == startOver(r, lcl)
           play == playbackProposals(over, sto)
           on == IF lcl = r.mPrevLedgerHash THEN r ELSE play
           here == [on EXCEPT !.mPreviousLedger = lcl, !.mHaveCorrectLCL = TRUE]
           away == [on EXCEPT !.mAcquiringLedger = lcl, !.mHaveCorrectLCL = FALSE]
           q == handleLCL(r, lcl, got, sto)
<1>1. on \in Round /\ Shows(on, v)
  <2>1. over \in Round /\ over.disputed = {} /\ over.mDisputes = NoDisputes
    BY StartOverSound
  <2> HIDE DEF over
  <2>2. VotesSound(play) /\ SameDisputes(over, play)
    BY <2>1, PlaybackSound
  <2>3. play \in Round /\ play.disputed = {}
    BY <2>1, <2>2 DEF VotesSound, PeerVotesSound, SameDisputes
  <2>4. Shows(play, v)
    BY <2>3, UndisputedReflects
  <2>5. r \in Round
    BY SoundParts
  <2> QED
    BY <2>3, <2>4, <2>5
<1>2. q = on \/ q = here \/ q = away
  BY DEF handleLCL
<1> HIDE DEF on
<1>3. SameVotes(on, here) /\ SameVotes(on, away)
  BY <1>1 DEF Round, SameVotes
<1> HIDE DEF here, away, q
<1> QED
  BY <1>1, <1>2, <1>3, ReflectsKept DEF q

LEMMA TickedReflects ==
  ASSUME IInv, NEW v \in Peer, Shows(lc, v), lc.state \in {"open", "establish"}, NEW now \in Nat,
         NEW netLgr \in Ledger, NEW got \in BOOLEAN
  PROVE  Shows(Ticked(now, netLgr, got), v)
<1> DEFINE p == checkLCL(lc, netLgr, got, stored)
           q == Ticked(now, netLgr, got)
<1>1. p = lc \/ p = handleLCL(lc, netLgr, got, stored)
  BY DEF checkLCL
<1>2. p \in Round
  BY <1>1, InvParts, HandleLCLSound, SoundParts
<1>3. Shows(p, v)
  BY <1>1, InvParts, HandleLCLReflects
<1>4. q = [p EXCEPT !.mCurrentMSeconds = now, !.sinceStart = now]
  BY DEF Ticked
<1> HIDE DEF p, q
<1>5. SameVotes(p, q)
  BY <1>2, <1>4 DEF Round, SameVotes
<1> QED
  BY <1>2, <1>3, <1>5, ReflectsKept DEF q

LEMMA TakeInitialPositionReflects ==
  ASSUME NEW r, VotesSound(r), NEW v \in Peer, Shows(r, v), NEW initialSet \in TxSet, NEW closeTime \in Nat
  PROVE  Shows(takeInitialPosition(r, initialSet, closeTime), v)
<1> DEFINE have == mapCompleteInternal(r, initialSet, FALSE)
           pos == [proposeSeq |-> seqJoin, set |-> initialSet, closeTime |-> closeTime]
           D == [t \in Tx |-> IF t \notin have.disputed THEN have.mDisputes[t]
                              ELSE [have.mDisputes[t] EXCEPT !.mOurVote = t \in initialSet]]
           taken == [have EXCEPT !.mOurPosition = pos, !.mDisputes = D]
           contrary == {taken.mPeerPositions[p].set : p \in proposersOf(taken)} \cap taken.mAcquired
           disp == createDisputes(taken, contrary)
           q == takeInitialPosition(r, initialSet, closeTime)
<1>1. have \in Round /\ Shows(have, v)
  BY MapCompleteInternalSound, MapCompleteReflects DEF VotesSound, PeerVotesSound
<1>2. q = IF r.mProposing THEN propose(disp) ELSE disp
  BY <1>1 DEF takeInitialPosition, Round
<1> HIDE DEF have
<1>3. pos \in Position
  BY LedgerConsensusAssumption DEF Position, seqJoin, seqLeave
<1>4. ASSUME NEW t \in Tx
      PROVE  D[t] \in Dispute /\ D[t].mVotes = have.mDisputes[t].mVotes
  <2> DEFINE d == have.mDisputes[t]
             b == t \in initialSet
  <2>1. d \in Dispute /\ b \in BOOLEAN
    BY <1>1 DEF Round
  <2>2. D[t] = d \/ D[t] = [d EXCEPT !.mOurVote = b]
    OBVIOUS
  <2> HIDE DEF D, d, b
  <2>3. D[t] \in Dispute /\ D[t].mVotes = d.mVotes
    BY <2>1, <2>2 DEF Dispute
  <2> QED
    BY <2>3 DEF d
<1>5. D \in [Tx -> Dispute]
  BY <1>4
<1> HIDE DEF D, pos
<1>6. taken \in Round
  BY <1>1, <1>3, <1>5, WithPositionType
<1>7. SameVotes(have, taken)
  BY <1>1, <1>4 DEF Round, SameVotes
<1>8. contrary \in SUBSET TxSet
  BY <1>6 DEF Round
<1> HIDE DEF taken, contrary
<1>9. Shows(taken, v)
  BY <1>1, <1>7, ReflectsKept
<1>10. disp \in Round /\ Shows(disp, v)
  BY <1>6, <1>8, <1>9, CreateDisputesType, CreateDisputesShows
<1> HIDE DEF disp, q
<1>11. SameVotes(disp, q)
  BY <1>2, <1>10 DEF propose, Round, SameVotes
<1> QED
  BY <1>10, <1>11, ReflectsKept DEF q

LEMMA CloseLedgerReflects ==
  ASSUME NEW r, Sound(r), NEW v \in Peer, Shows(r, v), r.state = "open",
         NEW openTxs \in TxSet, NEW closeTime \in Nat
  PROVE  Shows(closeLedger(r, openTxs, closeTime), v)
<1> DEFINE p == checkOurValidation(r)
           c == [p EXCEPT !.state = "establish", !.sinceStart = 0]
<1>1. r \in Round /\ PeerVotesSound(r) /\ StageSound(r)
  BY SoundParts
<1>2. p \in Round /\ SamePeers(r, p) /\ SameDisputes(r, p) /\ p.mOurPosition = NoPosition
      /\ p.mAcquired = r.mAcquired
  <2>1. p = r \/ p = [r EXCEPT !.lastValidation = r.mPreviousLedger]
    BY DEF checkOurValidation
  <2>2. r.mPreviousLedger \in Ledger \cup {NoLedger, NewLedger}
    BY <1>1 DEF Round
  <2> HIDE DEF p
  <2>3. p \in Round
    BY <1>1, <2>1, <2>2 DEF Round
  <2>4. /\ SamePeers(r, p) /\ SameDisputes(r, p) /\ p.mOurPosition = r.mOurPosition
        /\ p.mAcquired = r.mAcquired
    BY <1>1, <2>1 DEF Round, SamePeers, SameDisputes
  <2>5. r.mOurPosition = NoPosition
    BY <1>1 DEF StageSound
  <2> QED
    BY <2>3, <2>4, <2>5
<1>3. closeLedger(r, openTxs, closeTime) = takeInitialPosition(c, openTxs, closeTime)
  BY DEF closeLedger
<1> HIDE DEF p
<1>4. c \in Round
  BY <1>2, EstablishType
<1>5. /\ c.mOurPosition = p.mOurPosition /\ SamePeers(p, c) /\ SameDisputes(p, c)
      /\ c.mAcquired = p.mAcquired
  BY <1>2 DEF Round, SamePeers, SameDisputes
<1> HIDE DEF c
<1>6. VotesSound(c)
  <2>1. PeerVotesSound(c)
    BY <1>1, <1>2, <1>4, <1>5, SameIsTransitive, VotesDepend
  <2>2. OurVotesSound(c)
    BY <1>2, <1>5 DEF OurVotesSound, hasPosition
  <2> QED
    BY <2>1, <2>2 DEF VotesSound
<1>7. Shows(c, v)
  <2>1. SameVotes(r, c)
    BY <1>2, <1>5 DEF SameVotes, SamePeers, SameDisputes
  <2> QED
    BY <1>1, <2>1, ReflectsKept
<1> QED
  BY <1>3, <1>6, <1>7, TakeInitialPositionReflects

(***************************************************************************)
(* updateOurPositions: stale peers leave with their votes, our own vote    *)
(* leaves theirs alone, and our new set is one more that is complete.      *)
(***************************************************************************)
LEMMA ChangePositionReflects ==
  ASSUME NEW r \in Round, NEW v \in Peer, Shows(r, v), r.mOurPosition \in Position,
         isBowOut(r.mOurPosition) \/ r.mOurPosition.proposeSeq <= MaxProposeSeq,
         NEW set \in TxSet, NEW closeTime \in Nat
  PROVE  Shows(changePosition(r, set, closeTime), v)
<1> DEFINE pos == [proposeSeq |-> r.mOurPosition.proposeSeq + 1, set |-> set, closeTime |-> closeTime]
           moved == [r EXCEPT !.mOurPosition = pos]
           told == IF r.mProposing THEN propose(moved) ELSE moved
           q == changePosition(r, set, closeTime)
<1>1. CASE isBowOut(r.mOurPosition)
  BY <1>1 DEF changePosition
<1>2. CASE ~isBowOut(r.mOurPosition)
  <2>1. q = mapCompleteInternal(told, set, FALSE)
    BY <1>2 DEF changePosition, Round
  <2>2. pos \in Position
    <3>1. /\ r.mOurPosition.proposeSeq \in Nat /\ r.mOurPosition.proposeSeq <= MaxProposeSeq
          /\ MaxProposeSeq \in Nat /\ seqLeave = MaxProposeSeq + 2
      BY <1>2, LedgerConsensusAssumption DEF Position, seqLeave
    <3>2. r.mOurPosition.proposeSeq + 1 \in 0 .. seqLeave
      BY <3>1
    <3> QED
      BY <3>1, <3>2 DEF Position
  <2> HIDE DEF pos, q
  <2>3. moved \in Round /\ SameVotes(r, moved) /\ moved.mOurPosition = pos
    <3>1. moved \in Round
      BY <2>2, PositionType
    <3> QED
      BY <3>1 DEF Round, SameVotes
  <2> HIDE DEF moved
  <2>4. told \in Round /\ SameVotes(r, told)
    <3>1. told = moved \/ told = [moved EXCEPT !.proposed = pos]
      BY <2>3 DEF propose
    <3> HIDE DEF told
    <3>2. told \in Round
      BY <2>2, <2>3, <3>1, PositionType
    <3>3. SameVotes(moved, told)
      BY <2>3, <3>1 DEF Round, SameVotes
    <3> QED
      BY <2>3, <3>2, <3>3 DEF SameVotes
  <2> HIDE DEF told
  <2>5. Shows(told, v)
    BY <2>4, ReflectsKept
  <2> QED
    BY <2>1, <2>4, <2>5, MapCompleteReflects DEF q
<1> QED
  BY <1>1, <1>2

LEMMA UpdateOurPositionsReflects ==
  ASSUME NEW r, Sound(r), NEW v \in Peer, Shows(r, v), r.state = "establish", NEW stale \in SUBSET Peer,
         NEW oursStale \in BOOLEAN
  PROVE  Shows(updateOurPositions(r, stale, oursStale), v)
<1> DEFINE fresh == removePeers(r, stale)
           D == [t \in Tx |-> updateVote(fresh.mDisputes[t], mClosePercent(r), r.mProposing)]
           voted == WithDisputes(fresh, D)
           flipped == {t \in fresh.disputed : voted.mDisputes[t].mOurVote # fresh.mDisputes[t].mOurVote}
           nowYes == {t \in flipped : voted.mDisputes[t].mOurVote}
           ct == closeTimeVote(voted)
           timed == [voted EXCEPT !.mHaveCloseTimeConsensus = ct.agreed]
           changes == flipped # {} \/ ct.closeTime # r.mOurPosition.closeTime \/ oursStale
           set == (r.mOurPosition.set \cup nowYes) \ (flipped \ nowYes)
           q == updateOurPositions(r, stale, oursStale)
<1>1. r \in Round /\ PeerVotesSound(r) /\ StageSound(r)
  BY SoundParts
<1>2. /\ r.mOurPosition \in Position
      /\ isBowOut(r.mOurPosition) \/ r.mOurPosition.proposeSeq <= MaxProposeSeq
  BY <1>1 DEF StageSound
<1>3. /\ PeerVotesSound(fresh) /\ fresh \in Round /\ Shows(fresh, v)
      /\ fresh.mOurPosition = r.mOurPosition
  <2>1. PeerVotesSound(fresh) /\ SameCourse(r, fresh)
    BY <1>1, RemovePeersSound
  <2>2. Shows(fresh, v)
    BY <1>1, RemovePeersShows
  <2> QED
    BY <2>1, <2>2 DEF PeerVotesSound, SameCourse
<1>4. q = IF changes THEN changePosition(timed, set, ct.closeTime) ELSE timed
  <2>1. [fresh EXCEPT !.mDisputes =
            [t \in Tx |-> updateVote(@[t], mClosePercent(r), r.mProposing)]] = voted
    BY <1>3 DEF WithDisputes, Round
  <2> HIDE DEF voted
  <2> QED
    BY <2>1 DEF updateOurPositions
<1> HIDE DEF fresh
<1>5. ASSUME NEW t \in Tx
      PROVE  D[t] \in Dispute /\ D[t].mVotes = fresh.mDisputes[t].mVotes
  <2> DEFINE d == fresh.mDisputes[t]
  <2>1. d \in Dispute /\ CountsMatchVotes(d)
    BY <1>3 DEF PeerVotesSound, DisputeSound, Round
  <2>2. D[t] = updateVote(d, mClosePercent(r), r.mProposing)
    OBVIOUS
  <2> HIDE DEF D, d
  <2>3. D[t] \in Dispute /\ D[t].mVotes = d.mVotes
    BY <2>1, <2>2, UpdateVoteSound
  <2> QED
    BY <2>3 DEF d
<1>6. D \in [Tx -> Dispute]
  BY <1>5
<1> HIDE DEF D
<1>7. voted \in Round /\ SameVotes(fresh, voted) /\ voted.mOurPosition = fresh.mOurPosition
  <2>1. voted \in Round
    BY <1>3, <1>6 DEF WithDisputes, Round
  <2> QED
    BY <1>3, <1>5, <2>1 DEF WithDisputes, Round, SameVotes
<1> HIDE DEF voted
<1>8. ct.closeTime \in Nat /\ ct.agreed \in BOOLEAN
  BY <1>2, <1>3, <1>7, CloseTimeVoteSound
<1>9. set \in TxSet
  <2>1. fresh.disputed \in SUBSET Tx /\ r.mOurPosition.set \in TxSet
    BY <1>2, <1>3 DEF Round, Position
  <2> QED
    BY <2>1 DEF TxSet
<1> HIDE DEF ct, set
<1>10. timed \in Round
  BY <1>7, <1>8 DEF Round
<1>11. SameVotes(voted, timed) /\ timed.mOurPosition = r.mOurPosition
  BY <1>3, <1>7 DEF Round, SameVotes
<1> HIDE DEF timed, q, changes
<1>12. Shows(timed, v)
  BY <1>3, <1>7, <1>11, ReflectsKept
<1>13. Shows(changePosition(timed, set, ct.closeTime), v)
  BY <1>2, <1>8, <1>9, <1>10, <1>11, <1>12, ChangePositionReflects
<1> QED
  BY <1>4, <1>12, <1>13 DEF q

LEMMA StateEstablishReflects ==
  ASSUME NEW r, Sound(r), NEW v \in Peer, Shows(r, v), r.state = "establish", NEW stale \in SUBSET Peer,
         NEW oursStale \in BOOLEAN, NEW finished
  PROVE  Shows(stateEstablish(r, stale, oursStale, finished), v)
<1> DEFINE updated == updateOurPositions(r, stale, oursStale)
           Others == {updated.mPeerPositions[p].set : p \in proposersOf(updated) \ agreeing(updated)}
                       \cap (updated.mAcquired \ updated.mCompares)
           compared == compareAll(updated)
           ret == consensusState(compared, finished)
           fail == ret = "MovedOn"
           decided == [compared EXCEPT !.mConsensusFail = fail]
           q == stateEstablish(r, stale, oursStale, finished)
<1>1. updated \in Round /\ Shows(updated, v)
  BY UpdateOurPositionsSound, UpdateOurPositionsReflects DEF UpdatedSound, VotesSound, PeerVotesSound
<1>2. q = IF r.mCurrentMSeconds < LEDGER_MIN_CONSENSUS THEN r
          ELSE IF ret = "No" THEN compared
          ELSE IF ~decided.mHaveCloseTimeConsensus THEN decided
          ELSE beginAccept(decided)
  BY DEF stateEstablish
<1> HIDE DEF updated
<1>3. compared \in Round /\ Shows(compared, v)
  <2>1. Others \in SUBSET TxSet
    BY <1>1 DEF Round
  <2>2. compared = createDisputes(updated, Others)
    BY DEF compareAll
  <2> HIDE DEF Others, compared
  <2> QED
    BY <1>1, <2>1, <2>2, CreateDisputesType, CreateDisputesShows
<1> HIDE DEF compared, ret
<1>4. decided \in Round /\ SameVotes(compared, decided)
  <2>1. fail \in BOOLEAN
    OBVIOUS
  <2> HIDE DEF fail
  <2>2. decided \in Round
    BY <1>3, <2>1 DEF Round
  <2> QED
    BY <1>3, <2>2 DEF Round, SameVotes
<1> HIDE DEF decided, q
<1>5. SameVotes(decided, beginAccept(decided))
  BY <1>4 DEF beginAccept, Round, SameVotes
<1>6. Shows(decided, v) /\ Shows(beginAccept(decided), v)
  BY <1>3, <1>4, <1>5, ReflectsKept
<1> QED
  BY <1>2, <1>3, <1>6 DEF q

-----------------------------------------------------------------------------
(***************************************************************************)
(* The actions.                                                            *)
(***************************************************************************)
LEMMA TimerReflects ==
  ASSUME IInv, NEW v \in Peer, Shows(lc, v), NEW now \in Instant, NEW netLgr \in Ledger, NEW got \in BOOLEAN,
         \/ \E sinceClose \in Instant, openTxs \in TxSet, closeTime \in CloseTime,
               validated \in {0, PreviousProposers} :
              TimerOpen(now, netLgr, got, openTxs, closeTime, validated, sinceClose)
         \/ \E oursStale \in BOOLEAN, stale \in SUBSET Peer, finished \in {0, Cardinality(Peer) + 1} :
              TimerEstablish(now, netLgr, got, stale, oursStale, finished)
  PROVE  Shows(lc', v)
<1> DEFINE r == Ticked(now, netLgr, got)
<1>1. now \in Nat
  BY LedgerConsensusAssumption
<1>2. lc.state \in {"open", "establish"}
  BY DEF TimerOpen, TimerEstablish
<1>3. Sound(r) /\ Shows(r, v) /\ r.state = lc.state
  BY <1>1, <1>2, TickedSound, TickedReflects
<1>4. ASSUME NEW sinceClose \in Instant, NEW openTxs \in TxSet, NEW closeTime \in CloseTime,
             NEW validated, TimerOpen(now, netLgr, got, openTxs, closeTime, validated, sinceClose)
      PROVE  Shows(lc', v)
  <2>1. lc.state = "open" /\ lc' = statePreClose(r, openTxs, closeTime, validated, sinceClose)
    BY <1>4 DEF TimerOpen
  <2> HIDE DEF r
  <2>2. lc' = r \/ lc' = closeLedger(r, openTxs, closeTime)
    BY <2>1 DEF statePreClose
  <2>3. closeTime \in Nat
    BY LedgerConsensusAssumption
  <2> QED
    BY <1>3, <2>1, <2>2, <2>3, CloseLedgerReflects
<1>5. ASSUME NEW oursStale \in BOOLEAN, NEW stale \in SUBSET Peer, NEW finished,
             TimerEstablish(now, netLgr, got, stale, oursStale, finished)
      PROVE  Shows(lc', v)
  <2>1. lc.state = "establish" /\ lc' = stateEstablish(r, stale, oursStale, finished)
    BY <1>5 DEF TimerEstablish
  <2> HIDE DEF r
  <2> QED
    BY <1>3, <2>1, StateEstablishReflects
<1> QED
  BY <1>4, <1>5

\* Overtaken is the one interleaving that leaves a peer uncounted.
LEMMA ReceiveProposalReflects ==
  ASSUME IInv, NEW v \in Peer, Shows(lc, v), NEW p \in Peer, NEW l \in Ledger,
         NEW pos \in PeerPosition, ReceiveProposal(p, [prevLedger |-> l, pos |-> pos])
  PROVE  Shows(lc', v) \/ Overtaken(v)
<1>1. pos \in Position
  BY PeerPositionType
<1>2. lc' = lc \/ lc' = peerPosition(lc, p, pos)
  BY DEF ReceiveProposal
<1>3. CASE lc' = peerPosition(lc, p, pos)
  <2>1. \/ Shows(lc', v)
        \/ /\ p # v /\ v \in proposersOf(lc) /\ lc.mPeerPositions[v].set = pos.set
           /\ pos.set \in lc.complete \ lc.mAcquired
           /\ lc'.mPeerPositions[p] = pos /\ lc.mPeerPositions[p] # pos
    BY <1>1, <1>3, InvParts, PeerPositionReflects
  <2> QED
    BY <2>1 DEF Overtaken
<1> QED
  BY <1>2, <1>3

LEMMA SetStepsReflect ==
  ASSUME IInv, NEW v \in Peer, Shows(lc, v), NEW s \in TxSet, GiveSet(s) \/ MapComplete(s)
  PROVE  Shows(lc', v)
<1>1. CASE GiveSet(s)
  <2> DEFINE r == giveSet(lc, s)
  <2>1. r \in Round
    BY InvParts, GiveSetSound
  <2>2. lc' = [r EXCEPT !.gotSet = r.gotSet \cup {s}]
    BY <1>1, <2>1 DEF GiveSet, Round
  <2>3. Shows(r, v)
    BY InvParts, GiveSetVotes, ReflectsKept
  <2> HIDE DEF r
  <2>4. SameVotes(r, lc')
    BY <2>1, <2>2 DEF Round, SameVotes
  <2> QED
    BY <2>1, <2>3, <2>4, ReflectsKept
<1>2. CASE MapComplete(s)
  <2> DEFINE r == IF lc.state = "ended" THEN lc ELSE mapCompleteInternal(lc, s, TRUE)
  <2>1. r \in Round
    BY InvParts, MapCompleteInternalSound DEF VotesSound, PeerVotesSound
  <2>2. Shows(r, v)
    BY InvParts, MapCompleteReflects
  <2>3. lc' = [r EXCEPT !.gotSet = r.gotSet \ {s}]
    BY <1>2, <2>1 DEF MapComplete, Round
  <2> HIDE DEF r
  <2>4. SameVotes(r, lc')
    BY <2>1, <2>3 DEF Round, SameVotes
  <2> QED
    BY <2>1, <2>2, <2>4, ReflectsKept
<1> QED
  BY <1>1, <1>2

LEMMA AcceptStepsReflect ==
  ASSUME IInv, NEW v \in Peer, Shows(lc, v),
         \/ TimerAccepted \/ AcceptRetry \/ AcceptFinish
         \/ \E compatible \in BOOLEAN : AcceptBuild(compatible)
  PROVE  Shows(lc', v)
<1>1. lc \in Round
  BY InvParts
<1>2. SameVotes(lc, lc')
  <2>1. CASE TimerAccepted
    BY <1>1, <2>1 DEF TimerAccepted, Round, SameVotes
  <2>2. CASE AcceptRetry
    BY <1>1, <2>2 DEF AcceptRetry, Round, SameVotes
  <2>3. CASE AcceptFinish
    BY <1>1, <2>3 DEF AcceptFinish, Round, SameVotes
  <2>4. ASSUME NEW compatible \in BOOLEAN, AcceptBuild(compatible)
        PROVE  SameVotes(lc, lc')
    BY <1>1, <2>4 DEF AcceptBuild, Round, SameVotes
  <2> QED
    BY <2>1, <2>2, <2>3, <2>4
<1> QED
  BY <1>1, <1>2, ReflectsKept

LEMMA ReflectsNext ==
  ASSUME IInv, NEW v \in Peer, Shows(lc, v), [Next]_vars
  PROVE  Shows(lc', v) \/ Overtaken(v)
<1>1. CASE UNCHANGED vars
  BY <1>1 DEF vars
<1>2. ASSUME NEW p \in Peer, NEW l \in Ledger, NEW pos \in PeerPosition,
             ReceiveProposal(p, [prevLedger |-> l, pos |-> pos])
      PROVE  Shows(lc', v) \/ Overtaken(v)
  BY <1>2, ReceiveProposalReflects
<1>3. CASE Next
  BY <1>2, <1>3, TimerReflects, SetStepsReflect, AcceptStepsReflect DEF Next
<1> QED
  BY <1>1, <1>3

(***************************************************************************)
(* With any number of peers: a peer that is counted on every dispute as    *)
(* its set says stays so, through every change of mind, departure, new     *)
(* dispute, late set and switch of ledgers, unless the proposal of another *)
(* peer takes its set between giveSet and mapComplete (giveSet,            *)
(* peerPosition, mapCompleteInternal).                                     *)
(***************************************************************************)
THEOREM OnlyOvertakingMiscounts == Spec => VotesReflectPositions
<1>1. IInv /\ [Next]_vars =>
        [\A p \in Peer : Shows(lc, p) => Shows(lc', p) \/ Overtaken(p)]_vars
  BY ReflectsNext
<1> QED
  BY <1>1, ConsensusInvariance, PTL DEF Spec, VotesReflectPositions

=============================================================================
