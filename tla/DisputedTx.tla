----------------------------- MODULE DisputedTx -----------------------------
(***************************************************************************)
(* One disputed transaction (DisputedTx.{h,cpp}): our vote, the votes of   *)
(* the peers, and the two counters the code keeps beside them.             *)
(***************************************************************************)
EXTENDS LedgerTiming, FiniteSets

CONSTANT Peer     \* the trusted validators we hear from

Vote == {"none", "yes", "no"}
Dispute == [mOurVote : BOOLEAN, mVotes : [Peer -> Vote], mYays : Int, mNays : Int]

NewDispute(ourVote) ==
  [mOurVote |-> ourVote, mVotes |-> [p \in Peer |-> "none"], mYays |-> 0, mNays |-> 0]

(***************************************************************************)
(* setVote, called for every peer of Y with a yes and every peer of N with *)
(* a no: the counters move by one for each vote that is new or changed.    *)
(***************************************************************************)
setVote(d, Y, N) ==
  LET old(p) == d.mVotes[p] IN
  [d EXCEPT
     !.mVotes = [p \in Peer |-> IF p \in Y THEN "yes"
                                ELSE IF p \in N THEN "no" ELSE old(p)],
     !.mYays = @ + Cardinality({p \in Y : old(p) # "yes"})
                 - Cardinality({p \in N : old(p) = "yes"}),
     !.mNays = @ + Cardinality({p \in N : old(p) # "no"})
                 - Cardinality({p \in Y : old(p) = "no"})]

(***************************************************************************)
(* unVote, called for every peer of P.                                     *)
(***************************************************************************)
unVote(d, P) ==
  LET old(p) == d.mVotes[p] IN
  [d EXCEPT
     !.mVotes = [p \in Peer |-> IF p \in P THEN "none" ELSE old(p)],
     !.mYays = @ - Cardinality({p \in P : old(p) = "yes"}),
     !.mNays = @ - Cardinality({p \in P : old(p) = "no"})]

(***************************************************************************)
(* Our vote as time passes.  A proposing node counts itself and needs the  *)
(* rising majority; an observer only follows the simple majority.          *)
(***************************************************************************)
newPosition(d, percentTime, proposing) ==
  IF proposing
    THEN (d.mYays * 100 + (IF d.mOurVote THEN 100 ELSE 0)) \div (d.mNays + d.mYays + 1)
           > neededWeight(percentTime)
    ELSE d.mYays > d.mNays

updateVote(d, percentTime, proposing) ==
  IF \/ d.mOurVote /\ d.mNays = 0
     \/ ~d.mOurVote /\ d.mYays = 0
    THEN d
    ELSE [d EXCEPT !.mOurVote = newPosition(d, percentTime, proposing)]

(***************************************************************************)
(* The counters are the numbers of yes and no votes on record.             *)
(***************************************************************************)
CountsMatchVotes(d) ==
  /\ d.mYays = Cardinality({p \in Peer : d.mVotes[p] = "yes"})
  /\ d.mNays = Cardinality({p \in Peer : d.mVotes[p] = "no"})
=============================================================================
