------------------------ MODULE LedgerAcquireProofs ------------------------
(***************************************************************************)
(* Proofs about the acquisition of ledgers, for every set of ledgers and   *)
(* of worker threads, every number of acquisitions and of replies, every   *)
(* retry limit, and every part that was stored or that fetch packs bring.  *)
(***************************************************************************)
EXTENDS LedgerAcquire, FiniteSetTheorems, TLAPS

(***************************************************************************)
(* An acquisition is sound with respect to the parts of its ledger that    *)
(* are there: what it calls got is there, the trees come after the header, *)
(* complete means that it has both trees, and at the limit of its retries  *)
(* it has made progress that the next tick of the timer takes back.        *)
(***************************************************************************)
Sound(o, parts) ==
  /\ o \in Inbound
  /\ o.got \cap storable(o.hash) \subseteq parts
  /\ "state" \in o.got \/ "tx" \in o.got => "header" \in o.got
  /\ o.mComplete => "state" \in o.got /\ "tx" \in o.got
  /\ isDone(o) \/ o.mTimeouts <= RetriesMax \/ o.mProgress

(***************************************************************************)
(* What a step under the lock may do to an acquisition: it stays the same  *)
(* ledger with at least the same parts, an outcome is final, a signal      *)
(* stays and is only given for an outcome, and the timer is not lost.      *)
(***************************************************************************)
Advances(o, q) ==
  /\ q.hash = o.hash /\ o.got \subseteq q.got
  /\ isDone(o) => q.mComplete = o.mComplete /\ q.mFailed = o.mFailed
  /\ o.mSignaled => q.mSignaled
  /\ q.mSignaled => o.mSignaled \/ isDone(q)
  /\ isDone(o) \/ o.timer => isDone(q) \/ q.timer

\* The stash of replies is left alone.
SameStash(o, q) ==
  q.mReceivedData = o.mReceivedData /\ q.mReceiveDispatched = o.mReceiveDispatched

\* The outcome is not signalled: the caller does that.
SameSignal(o, q) == q.mSignaled = o.mSignaled

\* An outcome that a step brings about is also signalled by it, but for the
\* failure of a hash that cannot be acquired.
Announces(o, q) == isDone(q) => isDone(o) \/ q.mSignaled \/ Silent(q)

ObjectsSound == \A x \in Acq : Sound(acq[x], have[acq[x].hash])

\* An acquisition that was not made yet is a new object, of which no job knows.
NotMadeIsNew == \A x \in Acq : x > made => acq[x] = NewAcq(acq[x].hash) /\ doneJobs[x] = 0

\* As long as somebody holds an acquisition, a signal means an outcome.
SignalledIsDone == \A x \in Acq : alive(x) /\ acq[x].mSignaled => isDone(acq[x])

(***************************************************************************)
(* A job that works on an acquisition names one that was made; when it has *)
(* released the lock in trigger the header was there, what it then learns  *)
(* of the state tree stays true, and it signals an outcome there is.       *)
(***************************************************************************)
JobIsSound(j, objects, parts) ==
  /\ j.at # "idle" => j.x >= 1
  /\ j.at \in {"missing", "relock"} => "header" \in objects[j.x].got
  /\ j.at = "relock" /\ ~j.missing => "state" \in parts[objects[j.x].hash]
  /\ j.at \in {"done", "signal"} => isDone(objects[j.x])

JobsSound == \A w \in Worker : JobIsSound(worker[w], acq, have)

OneInList == \A x, y \in mLedgers : acq[x].hash = acq[y].hash => x = y

(***************************************************************************)
(* mReceiveDispatched is set while replies are stashed, and means that a   *)
(* job is queued for the ledger or takes replies of the acquisition.       *)
(***************************************************************************)
TakesReplies(x) == \E w \in Worker : worker[w].x = x /\ worker[w].at \in {"drain", "process"}

RepliesSeen ==
  \A x \in mLedgers :
    /\ acq[x].mReceivedData # {} => acq[x].mReceiveDispatched
    /\ acq[x].mReceiveDispatched => dataJobs[acq[x].hash] > 0 \/ TakesReplies(x)

(***************************************************************************)
(* An outcome that was signalled was dispatched or will be; one that was   *)
(* not was returned at once, has a thread on its way to signal it, or is a *)
(* failure that is never signalled.                                        *)
(***************************************************************************)
OnTheWay(x) == \E w \in Worker : worker[w].x = x /\ worker[w].at \in {"done", "signal"}

OutcomesSeen ==
  \A x \in Acq : isDone(acq[x]) =>
    \/ x \in reported \cup returned \/ doneJobs[x] > 0
    \/ ~acq[x].mSignaled /\ OnTheWay(x)
    \/ Silent(acq[x])

IInv ==
  /\ TypeOK /\ ObjectsSound /\ NotMadeIsNew /\ SignalledIsDone /\ JobsSound
  /\ OneInList /\ RepliesSeen /\ NotAbandoned /\ OutcomesSeen

\* What OutcomeIsFinal says of one step.
FinalStep ==
  \A x \in Acq : isDone(acq[x]) /\ alive(x)' =>
    /\ acq'[x].mComplete = acq[x].mComplete /\ acq'[x].mFailed = acq[x].mFailed

-----------------------------------------------------------------------------
(***************************************************************************)
(* The steps under the lock, one object at a time.                         *)
(***************************************************************************)
LEMMA SoundGrows ==
  ASSUME NEW o, NEW parts, NEW more, Sound(o, parts), parts \subseteq more
  PROVE  Sound(o, more)
  BY DEF Sound

LEMMA NewAcqSound ==
  ASSUME NEW h \in Ledger, NEW parts
  PROVE  /\ Sound(NewAcq(h), parts) /\ NewAcq(h).hash = h /\ ~isDone(NewAcq(h))
         /\ ~NewAcq(h).mSignaled /\ NewAcq(h).mReceivedData = {} /\ ~NewAcq(h).mReceiveDispatched
  BY AcquireAssumption DEF Sound, NewAcq, Inbound, isDone

LEMMA AdvancesReflexive ==
  ASSUME NEW o
  PROVE  Advances(o, o) /\ Announces(o, o) /\ SameStash(o, o) /\ SameSignal(o, o)
  BY DEF Advances, Announces, SameStash, SameSignal

LEMMA AdvancesTransitive ==
  ASSUME NEW o, NEW p, NEW q, Advances(o, p), Advances(p, q), SameStash(o, p), SameStash(p, q)
  PROVE  /\ Advances(o, q) /\ SameStash(o, q)
         /\ SameSignal(o, p) /\ SameSignal(p, q) => SameSignal(o, q)
         /\ Announces(o, p) /\ Announces(p, q) => Announces(o, q)
  BY DEF Advances, Announces, SameStash, SameSignal, isDone, Silent

(***************************************************************************)
(* setComplete after parts were found: the only way to mComplete.          *)
(***************************************************************************)
WithParts(o, S) == setComplete([o EXCEPT !.got = o.got \cup S])

LEMMA GainsSound ==
  ASSUME NEW o, NEW more, Sound(o, more), ~o.mFailed,
         NEW S \in SUBSET Part, S \cap storable(o.hash) \subseteq more, "header" \in o.got \cup S
  PROVE  LET q == WithParts(o, S) IN
         /\ Sound(q, more) /\ Advances(o, q) /\ SameStash(o, q) /\ SameSignal(o, q)
         /\ q.got = o.got \cup S /\ q.mFailed = o.mFailed /\ q.synched = o.synched
         /\ q.mComplete = (o.mComplete \/ {"state", "tx"} \subseteq q.got)
<1> DEFINE p == [o EXCEPT !.got = o.got \cup S]
           q == WithParts(o, S)
<1>1. o \in Inbound
  BY DEF Sound
<1>2. p \in Inbound
  BY <1>1 DEF Inbound
<1>3. /\ p.got = o.got \cup S /\ p.hash = o.hash /\ p.mComplete = o.mComplete
      /\ p.mFailed = o.mFailed /\ p.mSignaled = o.mSignaled /\ p.mReceivedData = o.mReceivedData
      /\ p.mReceiveDispatched = o.mReceiveDispatched /\ p.timer = o.timer
      /\ p.mTimeouts = o.mTimeouts /\ p.mProgress = o.mProgress /\ p.synched = o.synched
  BY <1>1 DEF Inbound
<1>q. q = setComplete(p)
  BY DEF WithParts
<1> HIDE DEF p
<1>4. q = [p EXCEPT !.mComplete = p.mComplete \/ {"state", "tx"} \subseteq p.got]
  BY <1>2, <1>q DEF setComplete, Inbound
<1>5. q \in Inbound
  BY <1>2, <1>4 DEF Inbound
<1>6. /\ q.got = p.got /\ q.hash = p.hash
      /\ q.mComplete = (p.mComplete \/ {"state", "tx"} \subseteq p.got)
      /\ q.mFailed = p.mFailed /\ q.mSignaled = p.mSignaled /\ q.mReceivedData = p.mReceivedData
      /\ q.mReceiveDispatched = p.mReceiveDispatched /\ q.timer = p.timer
      /\ q.mTimeouts = p.mTimeouts /\ q.mProgress = p.mProgress /\ q.synched = p.synched
  BY <1>2, <1>4 DEF Inbound
<1> HIDE DEF q
<1>7. /\ q.got = o.got \cup S /\ q.hash = o.hash
      /\ q.mComplete = (o.mComplete \/ {"state", "tx"} \subseteq q.got)
      /\ q.mFailed = o.mFailed /\ q.mSignaled = o.mSignaled /\ q.mReceivedData = o.mReceivedData
      /\ q.mReceiveDispatched = o.mReceiveDispatched /\ q.timer = o.timer
      /\ q.mTimeouts = o.mTimeouts /\ q.mProgress = o.mProgress /\ q.synched = o.synched
  BY <1>3, <1>6
<1>8. isDone(o) => isDone(q)
  BY <1>7 DEF isDone
<1>9. Sound(q, more)
  <2>1. q.got \cap storable(q.hash) \subseteq more
    BY <1>7 DEF Sound
  <2>2. "header" \in q.got
    BY <1>7
  <2>3. q.mComplete => "state" \in q.got /\ "tx" \in q.got
    BY <1>7 DEF Sound
  <2>4. isDone(q) \/ q.mTimeouts <= RetriesMax \/ q.mProgress
    BY <1>7, <1>8 DEF Sound
  <2> QED
    BY <1>5, <2>1, <2>2, <2>3, <2>4 DEF Sound
<1>10. Advances(o, q)
  <2>1. isDone(o) => q.mComplete = o.mComplete /\ q.mFailed = o.mFailed
    BY <1>1, <1>7 DEF isDone, Inbound
  <2> QED
    BY <1>7, <1>8, <2>1 DEF Advances
<1> QED
  BY <1>7, <1>9, <1>10 DEF SameStash, SameSignal, q

(***************************************************************************)
(* A step under the lock that is not the timer's and takes no replies.     *)
(***************************************************************************)
Carries(o, q, parts) == Sound(q, parts) /\ Advances(o, q) /\ SameStash(o, q)

LEMMA CarriesReflexive ==
  ASSUME NEW o, NEW parts, Sound(o, parts)
  PROVE  Carries(o, o, parts) /\ SameSignal(o, o) /\ Announces(o, o)
  BY AdvancesReflexive DEF Carries

LEMMA CarriesTransitive ==
  ASSUME NEW o, NEW p, NEW q, NEW parts, Carries(o, p, parts), Carries(p, q, parts)
  PROVE  /\ Carries(o, q, parts)
         /\ SameSignal(o, p) /\ SameSignal(p, q) => SameSignal(o, q)
         /\ Announces(o, p) /\ Announces(p, q) => Announces(o, q)
  BY AdvancesTransitive DEF Carries

LEMMA DoneSound ==
  ASSUME NEW o, NEW parts, Sound(o, parts), isDone(o)
  PROVE  Carries(o, done(o), parts) /\ done(o).mSignaled
<1>1. CASE o.mSignaled
  BY <1>1, CarriesReflexive DEF done
<1>2. CASE ~o.mSignaled
  <2> DEFINE q == [o EXCEPT !.mSignaled = TRUE]
  <2>1. o \in Inbound
    BY DEF Sound
  <2>2. /\ q \in Inbound /\ q.mSignaled /\ q.hash = o.hash /\ q.got = o.got
        /\ q.mComplete = o.mComplete /\ q.mFailed = o.mFailed /\ q.mReceivedData = o.mReceivedData
        /\ q.mReceiveDispatched = o.mReceiveDispatched
    BY <2>1 DEF Inbound
  <2>3. done(o) = q
    BY <1>2 DEF done
  <2> HIDE DEF q
  <2>4. isDone(q)
    BY <2>2 DEF isDone
  <2>5. Sound(q, parts)
    BY <2>2, <2>4 DEF Sound
  <2> QED
    BY <2>2, <2>3, <2>4, <2>5 DEF Carries, Advances, SameStash
<1> QED
  BY <1>1, <1>2

LEMMA DoneIfSound ==
  ASSUME NEW o, NEW parts, Sound(o, parts)
  PROVE  Carries(o, doneIf(o), parts) /\ (isDone(doneIf(o)) => doneIf(o).mSignaled)
<1>1. CASE isDone(o)
  BY <1>1, DoneSound DEF doneIf
<1>2. CASE ~isDone(o)
  BY <1>2, CarriesReflexive DEF doneIf
<1> QED
  BY <1>1, <1>2

(***************************************************************************)
(* A failure, which the caller is to announce.                             *)
(***************************************************************************)
LEMMA FailedSound ==
  ASSUME NEW o, NEW parts, Sound(o, parts), ~isDone(o)
  PROVE  LET q == [o EXCEPT !.mFailed = TRUE] IN
         Carries(o, q, parts) /\ SameSignal(o, q) /\ q.mFailed /\ q.got = o.got /\ q.hash = o.hash
<1> DEFINE q == [o EXCEPT !.mFailed = TRUE]
<1>1. o \in Inbound
  BY DEF Sound
<1>2. /\ q \in Inbound /\ q.hash = o.hash /\ q.got = o.got /\ q.mComplete = o.mComplete
      /\ q.mFailed /\ q.mSignaled = o.mSignaled /\ q.mReceivedData = o.mReceivedData
      /\ q.mReceiveDispatched = o.mReceiveDispatched
  BY <1>1 DEF Inbound
<1> HIDE DEF q
<1>3. isDone(q) /\ Sound(q, parts)
  BY <1>2 DEF Sound, isDone
<1> QED
  BY <1>2, <1>3 DEF Carries, Advances, SameStash, SameSignal, q

(***************************************************************************)
(* tryLocal, of an acquisition that has no outcome yet.  The header and    *)
(* the transactions are looked at first.                                   *)
(***************************************************************************)
LEMMA WithTxSound ==
  ASSUME NEW o, have[o.hash] \subseteq Part, Sound(o, have[o.hash]), ~isDone(o),
         "header" \in o.got \cup have[o.hash]
  PROVE  LET q == withTx(o) IN
         /\ Carries(o, q, have[o.hash]) /\ SameSignal(o, q) /\ ~isDone(q)
         /\ "header" \in q.got /\ q.hash = o.hash
<1> DEFINE G == o.got \cup {"header"} \cup (({"tx"} \cap zero(o.hash)) \cup ({"tx"} \cap have[o.hash]))
           q == [o EXCEPT !.got = G]
<1>1. o \in Inbound
  BY DEF Sound
<1>2. withTx(o) = q
  BY <1>1 DEF withTx, Inbound
<1>3. G \subseteq Part /\ "header" \in G /\ o.got \subseteq G /\ ("state" \in G => "state" \in o.got)
  BY <1>1 DEF Part, Inbound
<1>4. G \cap storable(o.hash) \subseteq have[o.hash]
  <2>1. "header" \in storable(o.hash) => "header" \in have[o.hash]
    BY DEF Sound
  <2>2. "tx" \in zero(o.hash) => "tx" \notin storable(o.hash)
    BY DEF storable, needed
  <2> QED
    BY <2>1, <2>2 DEF Sound
<1> HIDE DEF G
<1>5. /\ q \in Inbound /\ q.hash = o.hash /\ q.got = G /\ q.mComplete = o.mComplete
      /\ q.mFailed = o.mFailed /\ q.mSignaled = o.mSignaled /\ q.mReceivedData = o.mReceivedData
      /\ q.mReceiveDispatched = o.mReceiveDispatched /\ q.timer = o.timer
      /\ q.mTimeouts = o.mTimeouts /\ q.mProgress = o.mProgress
  BY <1>1, <1>3 DEF Inbound
<1> HIDE DEF q
<1>6. ~isDone(q) /\ ~q.mComplete
  BY <1>5 DEF isDone
<1>7. Sound(q, have[o.hash])
  BY <1>3, <1>4, <1>5, <1>6 DEF Sound
<1> QED
  BY <1>2, <1>3, <1>5, <1>6, <1>7 DEF Carries, Advances, SameStash, SameSignal

LEMMA TryLocalSound ==
  ASSUME NEW o, have[o.hash] \subseteq Part, Sound(o, have[o.hash]), ~isDone(o)
  PROVE  LET q == tryLocal(o) IN
         /\ Carries(o, q, have[o.hash]) /\ SameSignal(o, q)
         /\ q.mFailed => o.hash \in NotLedger \cup NoState
         /\ "header" \notin q.got /\ ~q.mFailed => q = o
<1> DEFINE w == withTx(o)
           S == {"state"} \cap have[o.hash]
<1>1. CASE "header" \notin o.got \cup have[o.hash]
  BY <1>1, CarriesReflexive DEF tryLocal, isDone
<1>2. CASE "header" \in o.got \cup have[o.hash] /\ "header" \notin o.got /\ o.hash \in NotLedger
  BY <1>2, FailedSound DEF tryLocal
<1>3. CASE "header" \in o.got \cup have[o.hash] /\ ~("header" \notin o.got /\ o.hash \in NotLedger)
  <2>1. /\ Carries(o, w, have[o.hash]) /\ SameSignal(o, w) /\ ~isDone(w)
        /\ "header" \in w.got /\ w.hash = o.hash /\ Sound(w, have[o.hash]) /\ w \in Inbound
    BY <1>3, WithTxSound DEF Carries, Sound
  <2>2. CASE "state" \notin o.got /\ o.hash \in NoState
    <3>1. tryLocal(o) = [w EXCEPT !.mFailed = TRUE]
      BY <1>3, <2>2 DEF tryLocal
    <3> HIDE DEF w
    <3> DEFINE f == [w EXCEPT !.mFailed = TRUE]
    <3>2. Carries(w, f, have[o.hash]) /\ SameSignal(w, f) /\ f.got = w.got
      BY <2>1, FailedSound
    <3> HIDE DEF f
    <3>3. Carries(o, f, have[o.hash]) /\ SameSignal(o, f) /\ "header" \in f.got
      BY <2>1, <3>2, CarriesTransitive
    <3> QED
      BY <2>2, <3>1, <3>3 DEF f
  <2>3. CASE ~("state" \notin o.got /\ o.hash \in NoState)
    <3> DEFINE f == WithParts(w, S)
    <3>1. tryLocal(o) = f
      <4>1. tryLocal(o) = setComplete([w EXCEPT !.got = @ \cup S])
        BY <1>3, <2>3 DEF tryLocal
      <4> HIDE DEF w, S
      <4>2. [w EXCEPT !.got = @ \cup S] = [w EXCEPT !.got = w.got \cup S]
        BY <2>1 DEF Inbound
      <4> QED
        BY <4>1, <4>2 DEF WithParts
    <3>2. S \in SUBSET Part /\ S \cap storable(w.hash) \subseteq have[o.hash]
      BY DEF Part
    <3> HIDE DEF w, S
    <3>3. ~w.mFailed
      BY <2>1 DEF isDone
    <3>4. /\ Sound(f, have[o.hash]) /\ Advances(w, f) /\ SameStash(w, f) /\ SameSignal(w, f)
          /\ f.got = w.got \cup S /\ f.mFailed = w.mFailed
      BY <2>1, <3>2, <3>3, GainsSound
    <3> HIDE DEF f
    <3>5. Carries(o, f, have[o.hash]) /\ SameSignal(o, f) /\ "header" \in f.got /\ ~f.mFailed
      BY <2>1, <3>3, <3>4, CarriesTransitive DEF Carries
    <3> QED
      BY <3>1, <3>5
  <2> QED
    BY <2>2, <2>3
<1> QED
  BY <1>1, <1>2, <1>3

LEMMA CheckLocalSound ==
  ASSUME NEW o, have[o.hash] \subseteq Part, Sound(o, have[o.hash])
  PROVE  Carries(o, checkLocal(o), have[o.hash]) /\ Announces(o, checkLocal(o))
<1>1. CASE isDone(o)
  BY <1>1, CarriesReflexive DEF checkLocal
<1>2. CASE ~isDone(o)
  <2>1. Carries(o, tryLocal(o), have[o.hash])
    BY <1>2, TryLocalSound
  <2>2. /\ Carries(tryLocal(o), checkLocal(o), have[o.hash])
        /\ isDone(checkLocal(o)) => checkLocal(o).mSignaled
    BY <1>2, <2>1, DoneIfSound DEF checkLocal, Carries
  <2> QED
    BY <2>1, <2>2, CarriesTransitive DEF Announces
<1> QED
  BY <1>1, <1>2

(***************************************************************************)
(* trigger, in its parts.                                                  *)
(***************************************************************************)
LEMMA TriggerTxSound ==
  ASSUME NEW o, NEW parts, have[o.hash] \subseteq parts, Sound(o, parts), "header" \in o.got
  PROVE  Carries(o, triggerTx(o), parts) /\ SameSignal(o, triggerTx(o))
<1>1. CASE "tx" \in o.got \cup have[o.hash] /\ ~o.mFailed
  <2>1. triggerTx(o) = WithParts(o, {"tx"})
    <3>1. [o EXCEPT !.got = @ \cup {"tx"}] = [o EXCEPT !.got = o.got \cup {"tx"}]
      BY DEF Sound, Inbound
    <3> QED
      BY <1>1, <3>1 DEF triggerTx, WithParts
  <2>2. {"tx"} \in SUBSET Part /\ "header" \in o.got \cup {"tx"}
    BY DEF Part
  <2>3. {"tx"} \cap storable(o.hash) \subseteq parts
    BY <1>1 DEF Sound
  <2> QED
    BY <1>1, <2>1, <2>2, <2>3, GainsSound DEF Carries
<1>2. CASE ~("tx" \in o.got \cup have[o.hash] /\ ~o.mFailed)
  BY <1>2, CarriesReflexive DEF triggerTx
<1> QED
  BY <1>1, <1>2

LEMMA TriggerStateSound ==
  ASSUME NEW o, have[o.hash] \subseteq Part, Sound(o, have[o.hash]), "header" \in o.got,
         NEW missing, NEW filtered, missing \/ "state" \in have[o.hash]
  PROVE  LET q == triggerState(o, missing, filtered) IN
         Carries(o, q, have[o.hash]) /\ SameSignal(o, q)
<1> DEFINE s == WithParts(o, {"state"})
<1>1. CASE isDone(o) \/ "state" \in o.got
  BY <1>1, TriggerTxSound DEF triggerState
<1>2. CASE ~(isDone(o) \/ "state" \in o.got) /\ ~missing
  <2>1. triggerState(o, missing, filtered) = triggerTx(s)
    <3>1. [o EXCEPT !.got = @ \cup {"state"}] = [o EXCEPT !.got = o.got \cup {"state"}]
      BY DEF Sound, Inbound
    <3> QED
      BY <1>2, <3>1 DEF triggerState, WithParts
  <2>2. {"state"} \in SUBSET Part /\ "header" \in o.got \cup {"state"} /\ ~o.mFailed
    BY <1>2 DEF Part, isDone
  <2>3. {"state"} \cap storable(o.hash) \subseteq have[o.hash]
    BY <1>2
  <2>4. /\ Carries(o, s, have[o.hash]) /\ SameSignal(o, s)
        /\ s.got = o.got \cup {"state"} /\ s.hash = o.hash
    BY <2>2, <2>3, GainsSound DEF Carries, Advances
  <2> HIDE DEF s
  <2>5. Carries(s, triggerTx(s), have[o.hash]) /\ SameSignal(s, triggerTx(s))
    BY <2>4, TriggerTxSound DEF Carries
  <2> QED
    BY <2>1, <2>4, <2>5, CarriesTransitive
<1>3. CASE ~(isDone(o) \/ "state" \in o.got) /\ missing
  BY <1>3, TriggerTxSound, CarriesReflexive DEF triggerState
<1> QED
  BY <1>1, <1>2, <1>3

LEMMA TriggerHeaderSound ==
  ASSUME NEW o, have[o.hash] \subseteq Part, Sound(o, have[o.hash]), ~isDone(o), NEW byHash
  PROVE  LET p == triggerHeader(o, byHash) IN
         /\ Carries(o, p, have[o.hash]) /\ SameSignal(o, p)
         /\ p.mFailed => o.hash \in NotLedger \cup NoState
         /\ "header" \notin p.got /\ ~p.mFailed => p = o
         /\ "state" \notin p.got /\ ~p.mFailed => ~isDone(p)
<1> DEFINE p == IF "header" \in o.got THEN o ELSE tryLocal(o)
           u == [p EXCEPT !.got = Part, !.mComplete = TRUE]
<1>1. /\ Carries(o, p, have[o.hash]) /\ SameSignal(o, p)
      /\ p.mFailed => o.hash \in NotLedger \cup NoState
      /\ "header" \notin p.got /\ ~p.mFailed => p = o
  <2>1. CASE "header" \in o.got
    BY <2>1, CarriesReflexive DEF isDone
  <2>2. CASE "header" \notin o.got
    BY <2>2, TryLocalSound
  <2> QED
    BY <2>1, <2>2
<1>2. triggerHeader(o, byHash) = IF byHash /\ nothingNeeded(p) THEN u ELSE p
  BY DEF triggerHeader
<1> HIDE DEF p
<1>3. p \in Inbound /\ p.hash = o.hash /\ Sound(p, have[o.hash])
  BY <1>1 DEF Carries, Sound, Advances
<1>4. "state" \notin p.got /\ ~p.mFailed => ~isDone(p)
  BY <1>3 DEF Sound, isDone
<1>5. ASSUME nothingNeeded(p)
      PROVE  Carries(o, u, have[o.hash]) /\ SameSignal(o, u) /\ u.got = Part /\ ~u.mFailed
  <2>1. ~p.mFailed /\ "header" \in p.got /\ needed(o.hash) \subseteq p.got \cup have[o.hash]
    BY <1>3, <1>5 DEF nothingNeeded
  <2>2. /\ u \in Inbound /\ u.hash = p.hash /\ u.got = Part /\ u.mComplete
        /\ u.mFailed = p.mFailed /\ u.mSignaled = p.mSignaled /\ u.mReceivedData = p.mReceivedData
        /\ u.mReceiveDispatched = p.mReceiveDispatched
    BY <1>3 DEF Inbound
  <2> HIDE DEF u
  <2>3. storable(o.hash) \subseteq have[o.hash]
    <3>1. storable(o.hash) \subseteq needed(o.hash)
      BY DEF storable
    <3> QED
      BY <1>3, <2>1, <3>1 DEF Sound
  <2>4. isDone(u)
    BY <2>2 DEF isDone
  <2>5. Sound(u, have[o.hash])
    BY <1>3, <2>2, <2>3, <2>4 DEF Sound, Part
  <2>6. Advances(p, u)
    <3>1. p.got \subseteq Part /\ p.mComplete \in BOOLEAN
      BY <1>3 DEF Inbound
    <3>2. isDone(p) => u.mComplete = p.mComplete /\ u.mFailed = p.mFailed
      BY <2>1, <2>2, <3>1 DEF isDone
    <3> QED
      BY <2>2, <2>4, <3>1, <3>2 DEF Advances
  <2> QED
    BY <1>1, <2>1, <2>2, <2>5, <2>6, CarriesTransitive DEF Carries, SameStash, SameSignal
<1> HIDE DEF u
<1> QED
  BY <1>1, <1>2, <1>4, <1>5 DEF Part

LEMMA LookForMissingSound ==
  ASSUME NEW o, NEW parts, Sound(o, parts)
  PROVE  LET q == lookForMissing(o) IN
         /\ Carries(o, q, parts) /\ SameSignal(o, q) /\ q.got = o.got
         /\ q.mComplete = o.mComplete /\ q.mFailed = o.mFailed
<1> DEFINE q == [o EXCEPT !.synched = o.synched \/ "state" \in have[o.hash]]
<1>1. o \in Inbound
  BY DEF Sound
<1>2. lookForMissing(o) = q
  BY <1>1 DEF lookForMissing, Inbound
<1>3. /\ q \in Inbound /\ q.hash = o.hash /\ q.got = o.got /\ q.mComplete = o.mComplete
      /\ q.mFailed = o.mFailed /\ q.mSignaled = o.mSignaled /\ q.mReceivedData = o.mReceivedData
      /\ q.mReceiveDispatched = o.mReceiveDispatched /\ q.timer = o.timer
      /\ q.mTimeouts = o.mTimeouts /\ q.mProgress = o.mProgress
  BY <1>1 DEF Inbound
<1> HIDE DEF q
<1>4. Sound(q, parts)
  BY <1>3 DEF Sound, isDone
<1> QED
  BY <1>2, <1>3, <1>4 DEF Carries, Advances, SameStash, SameSignal, isDone

LEMMA TriggerSound ==
  ASSUME NEW o, have[o.hash] \subseteq Part, Sound(o, have[o.hash]), NEW filtered
  PROVE  LET q == trigger(o, filtered) IN
         Carries(o, q, have[o.hash]) /\ Announces(o, q)
<1> DEFINE p == triggerHeader(o, TRUE)
           l == IF "state" \in p.got THEN p ELSE lookForMissing(p)
           s == triggerState(l, "state" \notin have[p.hash], filtered)
<1>1. CASE isDone(o)
  BY <1>1, CarriesReflexive DEF trigger
<1>2. CASE ~isDone(o) /\ ("header" \notin p.got \/ p.mFailed)
  <2>1. /\ Carries(o, p, have[o.hash]) /\ (p.mFailed => o.hash \in NotLedger \cup NoState)
        /\ "header" \notin p.got /\ ~p.mFailed => p = o
    BY <1>2, TriggerHeaderSound
  <2>2. trigger(o, filtered) = p
    BY <1>2 DEF trigger
  <2> HIDE DEF p
  <2>3. p.hash = o.hash /\ (isDone(p) => p.mFailed)
    BY <1>2, <2>1 DEF Carries, Advances, isDone
  <2> QED
    BY <2>1, <2>2, <2>3 DEF Announces, Silent
<1>3. CASE ~isDone(o) /\ "header" \in p.got /\ ~p.mFailed
  <2>1. Carries(o, p, have[o.hash]) /\ p.hash = o.hash
    BY <1>3, TriggerHeaderSound DEF Carries, Advances
  <2>2. trigger(o, filtered) = doneIf(s)
    BY <1>3 DEF trigger
  <2>3. Carries(p, l, have[o.hash]) /\ l.got = p.got /\ l.hash = o.hash
    BY <2>1, LookForMissingSound, CarriesReflexive DEF Carries, Advances
  <2>4. "state" \notin have[p.hash] \/ "state" \in have[l.hash]
    BY <2>1, <2>3
  <2> HIDE DEF l, p
  <2>5. Carries(l, s, have[o.hash])
    BY <1>3, <2>3, <2>4, TriggerStateSound DEF Carries
  <2> HIDE DEF s
  <2>6. Carries(s, doneIf(s), have[o.hash]) /\ (isDone(doneIf(s)) => doneIf(s).mSignaled)
    BY <2>5, DoneIfSound DEF Carries
  <2>7. Carries(o, l, have[o.hash])
    BY <2>1, <2>3, CarriesTransitive
  <2>8. Carries(o, s, have[o.hash])
    BY <2>5, <2>7, CarriesTransitive
  <2>9. Carries(o, doneIf(s), have[o.hash])
    BY <2>6, <2>8, CarriesTransitive
  <2> QED
    BY <2>2, <2>6, <2>9 DEF Announces
<1> QED
  BY <1>1, <1>2, <1>3

(***************************************************************************)
(* A reply: what it brings is in the node store afterwards.                *)
(***************************************************************************)
LEMMA ProcessDataSound ==
  ASSUME NEW o, have[o.hash] \subseteq Part, Sound(o, have[o.hash]), NEW p \in Part, NEW leaf,
         NEW more, more = IF stores(o, p) THEN have[o.hash] \cup {p} ELSE have[o.hash]
  PROVE  LET q == processData(o, p, leaf) IN Carries(o, q, more) /\ Announces(o, q)
<1>1. o \in Inbound /\ Sound(o, more)
  BY DEF Sound
<1>2. CASE ~takes(o, p)
  BY <1>1, <1>2, CarriesReflexive DEF processData
<1>3. CASE takes(o, p) /\ p = "header"
  <2> DEFINE G == o.got \cup {"header"} \cup zero(o.hash)
             q == [[o EXCEPT !.got = G] EXCEPT !.mProgress = TRUE]
  <2>1. processData(o, p, leaf) = q
    <3>1. withHeader(o) = [o EXCEPT !.got = G]
      BY <1>1 DEF withHeader, Inbound
    <3> QED
      BY <1>3, <3>1 DEF processData
  <2>2. ~isDone(o)
    BY <1>3 DEF takes
  <2>3. G \subseteq Part /\ "header" \in G /\ o.got \subseteq G
    BY <1>1 DEF Part, Inbound, zero
  <2>4. G \cap storable(o.hash) \subseteq more
    <3>1. "header" \in more
      BY <1>3, AcquireAssumption DEF stores, isInvalid
    <3>2. zero(o.hash) \cap storable(o.hash) = {}
      BY DEF storable, needed
    <3> QED
      BY <1>1, <3>1, <3>2 DEF Sound
  <2> HIDE DEF G
  <2>5. /\ q \in Inbound /\ q.hash = o.hash /\ q.got = G /\ q.mComplete = o.mComplete
        /\ q.mFailed = o.mFailed /\ q.mSignaled = o.mSignaled /\ q.mReceivedData = o.mReceivedData
        /\ q.mReceiveDispatched = o.mReceiveDispatched /\ q.timer = o.timer /\ q.mProgress
    BY <1>1, <2>3 DEF Inbound
  <2> HIDE DEF q
  <2>6. ~isDone(q) /\ ~q.mComplete
    BY <2>2, <2>5 DEF isDone
  <2>7. Sound(q, more)
    BY <2>3, <2>4, <2>5, <2>6 DEF Sound
  <2> QED
    BY <2>1, <2>2, <2>3, <2>5, <2>6, <2>7 DEF Carries, Advances, SameStash, Announces
<1>4. CASE takes(o, p) /\ p # "header"
  <2> DEFINE q == [o EXCEPT !.mProgress = o.mProgress \/ p \notin have[o.hash]]
             s == WithParts(q, {p})
  <2>1. "header" \in o.got /\ ~o.mFailed
    BY <1>4 DEF takes
  <2>2. q = [o EXCEPT !.mProgress = @ \/ p \notin have[o.hash]]
    BY <1>1 DEF Inbound
  <2>3. /\ q \in Inbound /\ q.hash = o.hash /\ q.got = o.got /\ q.mComplete = o.mComplete
        /\ q.mFailed = o.mFailed /\ q.mSignaled = o.mSignaled /\ q.mReceivedData = o.mReceivedData
        /\ q.mReceiveDispatched = o.mReceiveDispatched /\ q.timer = o.timer
        /\ q.mTimeouts = o.mTimeouts /\ q.mProgress = (o.mProgress \/ p \notin have[o.hash])
    BY <1>1 DEF Inbound
  <2>4. processData(o, p, leaf) = IF isWhole(o, p, leaf) THEN doneIf(s) ELSE q
    <3>1. setComplete([q EXCEPT !.got = @ \cup {p}]) = s
      <4>1. [q EXCEPT !.got = @ \cup {p}] = [q EXCEPT !.got = q.got \cup {p}]
        BY <2>3 DEF Inbound
      <4> QED
        BY <4>1 DEF WithParts
    <3> QED
      BY <1>4, <2>2, <3>1 DEF processData
  <2> HIDE DEF q
  <2>5. Sound(q, more)
    BY <1>1, <2>3 DEF Sound, isDone
  <2>6. Carries(o, q, more) /\ Announces(o, q)
    BY <2>3, <2>5 DEF Carries, Advances, SameStash, Announces, isDone
  <2>7. CASE isWhole(o, p, leaf)
    <3>1. {p} \in SUBSET Part /\ {p} \cap storable(q.hash) \subseteq more /\ "header" \in q.got \cup {p} /\ ~q.mFailed
      BY <1>4, <2>1, <2>3 DEF stores, storable
    <3>2. Carries(q, s, more)
      BY <2>5, <3>1, GainsSound DEF Carries
    <3> HIDE DEF s
    <3>3. Carries(s, doneIf(s), more) /\ (isDone(doneIf(s)) => doneIf(s).mSignaled)
      BY <3>2, DoneIfSound DEF Carries
    <3>4. Carries(o, s, more)
      BY <2>6, <3>2, CarriesTransitive
    <3>5. Carries(o, doneIf(s), more)
      BY <3>3, <3>4, CarriesTransitive
    <3> QED
      BY <2>4, <2>7, <3>3, <3>5 DEF Announces
  <2>8. CASE ~isWhole(o, p, leaf)
    BY <2>4, <2>6, <2>8
  <2> QED
    BY <2>7, <2>8
<1> QED
  BY <1>2, <1>3, <1>4

(***************************************************************************)
(* The timer.  A timeout past the limit is an outcome, or is forgiven: the *)
(* acquisition is not at the front.                                        *)
(***************************************************************************)
LEMMA TickKeeps ==
  ASSUME NEW o, NEW parts, Sound(o, parts), ~isDone(o)
  PROVE  LET t == tick(o) IN
         /\ t \in Inbound /\ t.hash = o.hash /\ t.got = o.got /\ t.mComplete = o.mComplete
         /\ t.mFailed = o.mFailed /\ t.mSignaled = o.mSignaled /\ t.mReceivedData = o.mReceivedData
         /\ t.mReceiveDispatched = o.mReceiveDispatched /\ t.timer = o.timer
<1>1. o \in Inbound /\ (o.mTimeouts <= RetriesMax \/ o.mProgress)
  BY DEF Sound
<1>2. CASE o.mProgress
  <2>1. tick(o) = [o EXCEPT !.mProgress = FALSE]
    BY <1>2 DEF tick
  <2> QED
    BY <1>1, <2>1 DEF Inbound
<1>3. CASE ~o.mProgress
  <2> DEFINE n == o.mTimeouts + 1
  <2>1. n \in 0 .. RetriesMax + 1
    BY <1>1, <1>3, AcquireAssumption DEF Inbound
  <2>2. tick(o) = [o EXCEPT !.mTimeouts = n]
    BY <1>1, <1>3 DEF tick, Inbound
  <2> HIDE DEF n
  <2> QED
    BY <1>1, <2>1, <2>2 DEF Inbound
<1> QED
  BY <1>2, <1>3

LEMMA OnTimerSound ==
  ASSUME NEW o, have[o.hash] \subseteq Part, Sound(o, have[o.hash]), ~isDone(o),
         NEW q \in onTimer(tick(o), o.mProgress)
  PROVE  Carries(o, q, have[o.hash]) /\ Announces(o, q)
<1> DEFINE t == tick(o)
<1>1. /\ t \in Inbound /\ t.hash = o.hash /\ t.got = o.got /\ t.mComplete = o.mComplete
      /\ t.mFailed = o.mFailed /\ t.mSignaled = o.mSignaled /\ t.mReceivedData = o.mReceivedData
      /\ t.mReceiveDispatched = o.mReceiveDispatched /\ t.timer = o.timer
  BY TickKeeps
<1> HIDE DEF t
<1>2. ~isDone(t)
  BY <1>1 DEF isDone
<1>3. q \in onTimer(t, o.mProgress)
  BY DEF t
<1>4. CASE ~isAcquiring(t.hash)
  <2>1. q = [t EXCEPT !.mProgress = TRUE]
    BY <1>3, <1>4 DEF onTimer
  <2>2. /\ q \in Inbound /\ q.hash = t.hash /\ q.got = t.got /\ q.mComplete = t.mComplete
        /\ q.mFailed = t.mFailed /\ q.mSignaled = t.mSignaled /\ q.mReceivedData = t.mReceivedData
        /\ q.mReceiveDispatched = t.mReceiveDispatched /\ q.timer = t.timer /\ q.mProgress
    BY <1>1, <2>1 DEF Inbound
  <2>3. Sound(q, have[o.hash])
    BY <1>1, <2>2 DEF Sound, isDone
  <2> QED
    BY <1>1, <2>2, <2>3 DEF Carries, Advances, SameStash, Announces, isDone
<1>5. CASE isAcquiring(t.hash) /\ givesUp(t)
  <2> DEFINE u == [t EXCEPT !.mFailed = TRUE]
  <2>1. q = done(u)
    BY <1>3, <1>5 DEF onTimer
  <2>2. /\ u \in Inbound /\ u.hash = t.hash /\ u.got = t.got /\ u.mComplete = t.mComplete
        /\ u.mFailed /\ u.mSignaled = t.mSignaled /\ u.mReceivedData = t.mReceivedData
        /\ u.mReceiveDispatched = t.mReceiveDispatched /\ u.timer = t.timer
    BY <1>1 DEF Inbound
  <2> HIDE DEF u
  <2>3. isDone(u) /\ Sound(u, have[o.hash])
    BY <1>1, <2>2 DEF Sound, isDone
  <2>4. Carries(o, u, have[o.hash])
    BY <1>1, <2>2, <2>3 DEF Carries, Advances, SameStash
  <2>5. Carries(u, done(u), have[o.hash]) /\ done(u).mSignaled
    BY <2>3, DoneSound
  <2> QED
    BY <2>1, <2>4, <2>5, CarriesTransitive DEF Announces
<1>6. CASE isAcquiring(t.hash) /\ ~givesUp(t)
  <2>1. t.mTimeouts <= RetriesMax
    BY <1>1, <1>6, AcquireAssumption DEF givesUp, Inbound
  <2>2. Sound(t, have[o.hash])
    BY <1>1, <2>1 DEF Sound
  <2>3. Carries(o, t, have[o.hash]) /\ Announces(o, t)
    BY <1>1, <2>2 DEF Carries, Advances, SameStash, Announces, isDone
  <2>4. CASE o.mProgress
    BY <1>3, <1>6, <2>3, <2>4 DEF onTimer
  <2>5. CASE ~o.mProgress
    <3> DEFINE c == checkLocal(t)
    <3>1. PICK f \in BOOLEAN : q = trigger(c, f)
      BY <1>3, <1>6, <2>5 DEF onTimer
    <3>2. Carries(t, c, have[o.hash]) /\ Announces(t, c) /\ c.hash = o.hash
      BY <1>1, <2>2, CheckLocalSound DEF Carries, Advances
    <3> HIDE DEF c
    <3>3. Carries(c, q, have[o.hash]) /\ Announces(c, q)
      BY <3>1, <3>2, TriggerSound DEF Carries
    <3>4. Carries(o, c, have[o.hash]) /\ Announces(o, c)
      BY <2>3, <3>2, CarriesTransitive
    <3> QED
      BY <3>3, <3>4, CarriesTransitive
  <2> QED
    BY <2>4, <2>5
<1> QED
  BY <1>4, <1>5, <1>6

LEMMA SetTimerSound ==
  ASSUME NEW o, NEW q, NEW parts, Carries(o, q, parts), Announces(o, q)
  PROVE  Carries(o, setTimer(q), parts) /\ Announces(o, setTimer(q))
<1> DEFINE r == setTimer(q)
<1>1. q \in Inbound
  BY DEF Carries, Sound
<1>2. /\ r \in Inbound /\ r.hash = q.hash /\ r.got = q.got /\ r.mComplete = q.mComplete
      /\ r.mFailed = q.mFailed /\ r.mSignaled = q.mSignaled /\ r.mReceivedData = q.mReceivedData
      /\ r.mReceiveDispatched = q.mReceiveDispatched /\ r.timer = ~isDone(q)
      /\ r.mTimeouts = q.mTimeouts /\ r.mProgress = q.mProgress
  BY <1>1 DEF setTimer, Inbound
<1> HIDE DEF r
<1>3. isDone(r) <=> isDone(q)
  BY <1>2 DEF isDone
<1>4. Sound(r, parts)
  BY <1>2, <1>3 DEF Carries, Sound
<1>5. Advances(o, r)
  BY <1>2, <1>3 DEF Carries, Advances
<1>6. Silent(r) <=> Silent(q)
  BY <1>2 DEF Silent
<1>7. Carries(o, r, parts)
  BY <1>2, <1>4, <1>5 DEF Carries, SameStash
<1>8. Announces(o, r)
  BY <1>2, <1>3, <1>6 DEF Announces
<1> QED
  BY <1>7, <1>8 DEF r

-----------------------------------------------------------------------------
(***************************************************************************)
(* Who holds an acquisition.                                               *)
(***************************************************************************)
LEMMA MadeIsAcq ==
  ASSUME TypeOK
  PROVE  /\ made \in Nat /\ 1 .. made \subseteq Acq
         /\ \A x \in Acq : x \in Nat /\ x >= 1 /\ (x <= made <=> x \in 1 .. made)
<1>1. Cardinality(Acq) \in Nat
  BY AcquireAssumption, FS_CardinalityType
<1>2. PICK n \in Nat : n = Cardinality(Acq)
  BY <1>1
<1>3. Acq = 1 .. n /\ made \in 0 .. n
  BY <1>2, AcquireAssumption DEF TypeOK
<1>4. made \in Nat /\ made <= n
  BY <1>2, <1>3
<1>5. 1 .. made \subseteq Acq
  <2>1. ASSUME NEW k \in Nat, k <= n PROVE 1 .. k \subseteq 1 .. n
    BY <1>2, <2>1
  <2> QED
    BY <1>3, <1>4, <2>1
<1>6. ASSUME NEW x \in Acq PROVE x \in Nat /\ x >= 1 /\ (x <= made <=> x \in 1 .. made)
  BY <1>2, <1>3, <1>4
<1> QED
  BY <1>4, <1>5, <1>6

LEMMA AliveIsMade ==
  ASSUME IInv, NEW x \in Acq, alive(x)
  PROVE  x \in 1 .. made
<1>1. made \in Nat /\ x \in Nat /\ x >= 1
  BY MadeIsAcq DEF IInv
<1>2. CASE x \in mLedgers
  BY <1>2 DEF IInv, TypeOK
<1>3. CASE doneJobs[x] > 0
  BY <1>1, <1>3 DEF IInv, NotMadeIsNew
<1>4. ASSUME NEW w \in Worker, worker[w].x = x
      PROVE  x \in 1 .. made
  BY <1>1, <1>4 DEF IInv, TypeOK, Job
<1> QED
  BY <1>2, <1>3, <1>4 DEF alive, held

LEMMA JobHolds ==
  ASSUME IInv, NEW w \in Worker, worker[w].at # "idle"
  PROVE  LET x == worker[w].x IN
         /\ x \in 1 .. made /\ x \in Acq /\ alive(x)
         /\ worker[w] \in Job /\ JobIsSound(worker[w], acq, have)
         /\ Sound(acq[x], have[acq[x].hash]) /\ acq[x] \in Inbound
         /\ have[acq[x].hash] \subseteq Part
<1>1. worker[w] \in Job /\ JobIsSound(worker[w], acq, have) /\ made \in Nat /\ 1 .. made \subseteq Acq
  BY MadeIsAcq DEF IInv, TypeOK, JobsSound
<1>2. worker[w].x \in 1 .. made
  BY <1>1 DEF Job, JobIsSound
<1>3. worker[w].x \in Acq /\ alive(worker[w].x)
  BY <1>1, <1>2 DEF alive, held
<1>4. PICK x \in Acq : x = worker[w].x
  BY <1>3
<1>5. Sound(acq[x], have[acq[x].hash]) /\ acq[x] \in Inbound
  BY DEF IInv, ObjectsSound, Sound
<1>6. have[acq[x].hash] \subseteq Part
  BY <1>5 DEF IInv, TypeOK, Inbound
<1> QED
  BY <1>1, <1>2, <1>3, <1>4, <1>5, <1>6

LEMMA AliveObject ==
  ASSUME IInv, NEW x \in Acq
  PROVE  /\ Sound(acq[x], have[acq[x].hash]) /\ acq[x] \in Inbound /\ acq[x].hash \in Ledger
         /\ have[acq[x].hash] \subseteq Part
<1>1. Sound(acq[x], have[acq[x].hash]) /\ acq[x] \in Inbound
  BY DEF IInv, ObjectsSound, Sound
<1> QED
  BY <1>1 DEF IInv, TypeOK, Inbound

(***************************************************************************)
(* A step that changes one acquisition that somebody holds, and under      *)
(* which parts are only added to the node store.                           *)
(***************************************************************************)
LEMMA Updated ==
  ASSUME IInv, NEW x \in Acq, alive(x), NEW q,
         acq' = [acq EXCEPT ![x] = q], Advances(acq[x], q), Sound(q, have'[q.hash]),
         \A h \in Ledger : have[h] \subseteq have'[h],
         \A y \in Acq : y # x => doneJobs'[y] = doneJobs[y],
         \A y \in Acq : alive(y)' => alive(y),
         made' = made, mLedgers' = mLedgers
  PROVE  /\ acq' \in [Acq -> Inbound] /\ acq'[x] = q
         /\ \A y \in Acq : y # x => acq'[y] = acq[y]
         /\ \A y \in Acq : Advances(acq[y], acq'[y])
         /\ ObjectsSound' /\ NotMadeIsNew' /\ SignalledIsDone' /\ OneInList' /\ NotAbandoned'
         /\ FinalStep
         /\ \A j \in Job : JobIsSound(j, acq, have) => JobIsSound(j, acq', have')
<1>1. acq \in [Acq -> Inbound] /\ q \in Inbound
  BY DEF IInv, TypeOK, Sound
<1>2. acq' \in [Acq -> Inbound] /\ acq'[x] = q /\ \A y \in Acq : y # x => acq'[y] = acq[y]
  BY <1>1
<1>3. \A y \in Acq : Advances(acq[y], acq'[y])
  BY <1>2, AdvancesReflexive
<1>4. \A y \in Acq : acq'[y].hash = acq[y].hash
  BY <1>3 DEF Advances
<1>5. ASSUME NEW y \in Acq PROVE Sound(acq'[y], have'[acq'[y].hash])
  <2>1. CASE y = x
    BY <1>2, <2>1
  <2>2. CASE y # x
    <3>1. Sound(acq[y], have[acq[y].hash]) /\ acq[y].hash \in Ledger
      BY AliveObject
    <3>2. have[acq[y].hash] \subseteq have'[acq[y].hash]
      BY <3>1
    <3> QED
      BY <1>2, <2>2, <3>1, <3>2, SoundGrows
  <2> QED
    BY <2>1, <2>2
<1>6. ObjectsSound'
  BY <1>5 DEF ObjectsSound
<1>7. x \in 1 .. made /\ made \in Nat
  BY AliveIsMade, MadeIsAcq DEF IInv
<1>8. NotMadeIsNew'
  BY <1>2, <1>7 DEF IInv, NotMadeIsNew
<1>9. SignalledIsDone'
  <2> SUFFICES ASSUME NEW y \in Acq, alive(y)', acq'[y].mSignaled
               PROVE  isDone(acq'[y])
    BY DEF SignalledIsDone
  <2>1. acq[y].mSignaled => isDone(acq[y])
    BY DEF IInv, SignalledIsDone
  <2> QED
    BY <1>3, <2>1 DEF Advances, isDone
<1>10. mLedgers \subseteq Acq
  BY MadeIsAcq DEF IInv, TypeOK
<1>11. OneInList'
  BY <1>4, <1>10 DEF IInv, OneInList
<1>12. NotAbandoned'
  <2> SUFFICES ASSUME NEW y \in mLedgers
               PROVE  isDone(acq'[y]) \/ acq'[y].timer
    BY DEF NotAbandoned
  <2>1. isDone(acq[y]) \/ acq[y].timer
    BY DEF IInv, NotAbandoned
  <2> QED
    BY <1>3, <1>10, <2>1 DEF Advances
<1>13. FinalStep
  BY <1>3 DEF FinalStep, Advances
<1>14. ASSUME NEW j \in Job, JobIsSound(j, acq, have)
       PROVE  JobIsSound(j, acq', have')
  <2>1. CASE j.at = "idle"
    BY <2>1 DEF JobIsSound
  <2>2. CASE j.at # "idle"
    <3>1. j.x \in Acq
      BY <1>14, <2>2, MadeIsAcq DEF IInv, Job, JobIsSound
    <3>2. Advances(acq[j.x], acq'[j.x]) /\ acq[j.x].hash \in Ledger
      BY <1>3, <3>1, AliveObject
    <3>3. isDone(acq[j.x]) => isDone(acq'[j.x])
      BY <3>2 DEF Advances, isDone
    <3>4. have[acq[j.x].hash] \subseteq have'[acq'[j.x].hash]
      BY <3>2 DEF Advances
    <3> QED
      BY <1>14, <3>2, <3>3, <3>4 DEF JobIsSound, Advances
  <2> QED
    BY <2>1, <2>2
<1> QED
  BY <1>2, <1>3, <1>6, <1>8, <1>9, <1>11, <1>12, <1>13, <1>14

LEMMA AliveStays ==
  ASSUME IInv, mLedgers' = mLedgers,
         \A y \in Acq : doneJobs'[y] = doneJobs[y] \/ alive(y),
         \A w \in Worker : worker'[w].x = worker[w].x \/ worker'[w].x = 0
  PROVE  \A y \in Acq : alive(y)' => alive(y)
<1> SUFFICES ASSUME NEW y \in Acq, alive(y)' PROVE alive(y)
  OBVIOUS
<1>1. y # 0
  BY MadeIsAcq DEF IInv
<1>2. y \in mLedgers' \/ doneJobs'[y] > 0 \/ \E w \in Worker : worker'[w].x = y
  BY DEF alive, held
<1> QED
  BY <1>1, <1>2 DEF alive, held

LEMMA StashKept ==
  ASSUME IInv, mLedgers' = mLedgers, dataJobs' = dataJobs,
         \A y \in Acq : acq'[y].hash = acq[y].hash /\ SameStash(acq[y], acq'[y]),
         \A y \in Acq : TakesReplies(y) => TakesReplies(y)'
  PROVE  RepliesSeen'
<1>1. mLedgers \subseteq Acq
  BY MadeIsAcq DEF IInv, TypeOK
<1> SUFFICES ASSUME NEW y \in mLedgers
             PROVE  /\ acq'[y].mReceivedData # {} => acq'[y].mReceiveDispatched
                    /\ acq'[y].mReceiveDispatched => dataJobs'[acq'[y].hash] > 0 \/ TakesReplies(y)'
  BY DEF RepliesSeen
<1>2. /\ acq[y].mReceivedData # {} => acq[y].mReceiveDispatched
      /\ acq[y].mReceiveDispatched => dataJobs[acq[y].hash] > 0 \/ TakesReplies(y)
  BY DEF IInv, RepliesSeen
<1> QED
  BY <1>1, <1>2 DEF SameStash

(***************************************************************************)
(* An acquisition becomes q, and a job is queued when q is newly signalled.*)
(***************************************************************************)
LEMMA Announced ==
  ASSUME IInv, NEW x \in Acq, alive(x), NEW q, update(x, q), Advances(acq[x], q),
         Announces(acq[x], q), reported' = reported, returned' = returned,
         \A y \in Acq : OnTheWay(y) => OnTheWay(y)'
  PROVE  /\ OutcomesSeen' /\ doneJobs' \in [Acq -> Nat]
         /\ \A y \in Acq : y # x => doneJobs'[y] = doneJobs[y]
<1>1. acq \in [Acq -> Inbound] /\ doneJobs \in [Acq -> Nat]
  BY DEF IInv, TypeOK
<1> DEFINE n == IF q.mSignaled /\ ~acq[x].mSignaled THEN 1 ELSE 0
<1>2. n \in Nat
  OBVIOUS
<1>3. /\ acq'[x] = q /\ \A y \in Acq : y # x => acq'[y] = acq[y]
      /\ doneJobs' = [doneJobs EXCEPT ![x] = doneJobs[x] + n]
  BY <1>1 DEF update
<1> HIDE DEF n
<1>4. /\ doneJobs' \in [Acq -> Nat] /\ doneJobs'[x] = doneJobs[x] + n
      /\ \A y \in Acq : y # x => doneJobs'[y] = doneJobs[y]
  BY <1>1, <1>2, <1>3
<1>5. ASSUME NEW y \in Acq, isDone(acq'[y])
      PROVE  \/ y \in reported' \cup returned' \/ doneJobs'[y] > 0
             \/ (~acq'[y].mSignaled /\ OnTheWay(y)') \/ Silent(acq'[y])
  <2>1. CASE y # x
    BY <1>3, <1>4, <1>5, <2>1 DEF IInv, OutcomesSeen
  <2>2. CASE y = x /\ q.mSignaled /\ ~acq[x].mSignaled
    <3>1. doneJobs'[x] = doneJobs[x] + 1 /\ doneJobs[x] \in Nat
      BY <1>1, <1>4, <2>2 DEF n
    <3> QED
      BY <2>2, <3>1
  <2>3. CASE y = x /\ ~(q.mSignaled /\ ~acq[x].mSignaled)
    <3>1. doneJobs'[x] = doneJobs[x]
      BY <1>1, <1>4, <2>3 DEF n
    <3>2. q.mSignaled <=> acq[x].mSignaled
      BY <2>3 DEF Advances
    <3>3. isDone(acq[x]) \/ Silent(q)
      BY <1>3, <1>5, <2>3, <3>2 DEF Announces, IInv, SignalledIsDone
    <3>4. Silent(acq[x]) => Silent(q)
      BY <3>2 DEF Silent, Advances, isDone
    <3> QED
      BY <1>3, <2>3, <3>1, <3>2, <3>3, <3>4 DEF IInv, OutcomesSeen
  <2> QED
    BY <2>1, <2>2, <2>3
<1>6. OutcomesSeen'
  BY <1>5 DEF OutcomesSeen
<1> QED
  BY <1>4, <1>6

(***************************************************************************)
(* A step under the lock by somebody who is not a worker.                  *)
(***************************************************************************)
LEMMA CarriedStep ==
  ASSUME IInv, NEW x \in Acq, alive(x), NEW q, update(x, q),
         Carries(acq[x], q, have[acq[x].hash]), Announces(acq[x], q),
         UNCHANGED <<replies, have, made, mLedgers, dataJobs, reported, returned, worker>>
  PROVE  IInv' /\ FinalStep
<1>1. /\ Advances(acq[x], q) /\ SameStash(acq[x], q) /\ q.hash = acq[x].hash
      /\ Sound(q, have'[q.hash]) /\ acq' = [acq EXCEPT ![x] = q]
  BY DEF Carries, Advances, update
<1>2. \A y \in Acq : OnTheWay(y) => OnTheWay(y)'
  BY DEF OnTheWay
<1>3. /\ OutcomesSeen' /\ doneJobs' \in [Acq -> Nat]
      /\ \A y \in Acq : y # x => doneJobs'[y] = doneJobs[y]
  BY <1>1, <1>2, Announced
<1>4. \A y \in Acq : alive(y)' => alive(y)
  BY <1>3, AliveStays
<1>5. \A h \in Ledger : have[h] \subseteq have'[h]
  OBVIOUS
<1>6. /\ acq' \in [Acq -> Inbound] /\ acq'[x] = q
      /\ \A y \in Acq : y # x => acq'[y] = acq[y]
      /\ \A y \in Acq : Advances(acq[y], acq'[y])
      /\ ObjectsSound' /\ NotMadeIsNew' /\ SignalledIsDone' /\ OneInList' /\ NotAbandoned'
      /\ FinalStep
      /\ \A j \in Job : JobIsSound(j, acq, have) => JobIsSound(j, acq', have')
  BY <1>1, <1>3, <1>4, <1>5, Updated
<1>7. TypeOK'
  BY <1>3, <1>6 DEF IInv, TypeOK, Job
<1>8. JobsSound'
  BY <1>6 DEF IInv, JobsSound, TypeOK
<1>9. RepliesSeen'
  <2>1. \A y \in Acq : acq'[y].hash = acq[y].hash /\ SameStash(acq[y], acq'[y])
    BY <1>1, <1>6 DEF SameStash
  <2>2. \A y \in Acq : TakesReplies(y) => TakesReplies(y)'
    BY DEF TakesReplies
  <2> QED
    BY <2>1, <2>2, StashKept
<1> QED
  BY <1>3, <1>6, <1>7, <1>8, <1>9 DEF IInv

LEMMA TimerStep ==
  ASSUME IInv, NEW x \in Acq, invokeOnTimer(x)
  PROVE  IInv' /\ FinalStep
<1>1. PICK q \in IF isDone(acq[x]) THEN {acq[x]} ELSE onTimer(tick(acq[x]), acq[x].mProgress) :
        update(x, setTimer(q))
  BY DEF invokeOnTimer
<1>2. Sound(acq[x], have[acq[x].hash]) /\ have[acq[x].hash] \subseteq Part
  BY AliveObject
<1>3. Carries(acq[x], q, have[acq[x].hash]) /\ Announces(acq[x], q)
  <2>1. CASE isDone(acq[x])
    BY <1>1, <1>2, <2>1, CarriesReflexive
  <2>2. CASE ~isDone(acq[x])
    BY <1>1, <1>2, <2>2, OnTimerSound
  <2> QED
    BY <2>1, <2>2
<1>4. Carries(acq[x], setTimer(q), have[acq[x].hash]) /\ Announces(acq[x], setTimer(q))
  BY <1>3, SetTimerSound
<1> QED
  BY <1>1, <1>4, CarriedStep DEF invokeOnTimer

(***************************************************************************)
(* Parts are added, and nothing else happens.                              *)
(***************************************************************************)
LEMMA HaveGrows ==
  ASSUME IInv, have' \in [Ledger -> SUBSET Part], \A h \in Ledger : have[h] \subseteq have'[h],
         replies' \in 0 .. MaxReplies,
         UNCHANGED <<acq, made, mLedgers, dataJobs, doneJobs, reported, returned, worker>>
  PROVE  IInv' /\ FinalStep
<1>1. TypeOK'
  BY DEF IInv, TypeOK, Job
<1>2. ObjectsSound'
  <2>1. ASSUME NEW y \in Acq PROVE Sound(acq[y], have'[acq[y].hash])
    <3>1. Sound(acq[y], have[acq[y].hash]) /\ acq[y].hash \in Ledger
      BY AliveObject
    <3> QED
      BY <3>1, SoundGrows
  <2> QED
    BY <2>1 DEF ObjectsSound
<1>3. JobsSound'
  <2> SUFFICES ASSUME NEW w \in Worker PROVE JobIsSound(worker[w], acq, have')
    BY DEF JobsSound
  <2>1. JobIsSound(worker[w], acq, have)
    BY DEF IInv, JobsSound
  <2>2. CASE worker[w].at = "relock"
    <3>1. worker[w].x \in Acq
      BY <2>2, JobHolds
    <3>2. acq[worker[w].x].hash \in Ledger
      BY <3>1, AliveObject
    <3> QED
      BY <2>1, <3>2 DEF JobIsSound
  <2>3. CASE worker[w].at # "relock"
    BY <2>1, <2>3 DEF JobIsSound
  <2> QED
    BY <2>2, <2>3
<1>4. /\ NotMadeIsNew' /\ SignalledIsDone' /\ OneInList' /\ RepliesSeen' /\ NotAbandoned' /\ OutcomesSeen'
  BY DEF IInv, NotMadeIsNew, SignalledIsDone, OneInList, RepliesSeen, NotAbandoned, OutcomesSeen,
         alive, held, TakesReplies, OnTheWay
<1>5. FinalStep
  BY DEF FinalStep
<1> QED
  BY <1>1, <1>2, <1>3, <1>4, <1>5 DEF IInv

LEMMA FetchPackStep ==
  ASSUME IInv, NEW x \in Acq, NEW p \in Part, gotFetchPack(x, p)
  PROVE  IInv' /\ FinalStep
<1>1. Sound(acq[x], have[acq[x].hash]) /\ have[acq[x].hash] \subseteq Part /\ acq[x].hash \in Ledger
  BY AliveObject
<1>2. alive(x)
  BY DEF gotFetchPack, alive
<1>3. CASE p \in have[acq[x].hash]
  <2>1. Carries(acq[x], checkLocal(acq[x]), have[acq[x].hash]) /\ Announces(acq[x], checkLocal(acq[x]))
    BY <1>1, CheckLocalSound
  <2>2. /\ update(x, checkLocal(acq[x]))
        /\ UNCHANGED <<replies, have, made, mLedgers, dataJobs, reported, returned, worker>>
    BY <1>3 DEF gotFetchPack
  <2> QED
    BY <1>2, <2>1, <2>2, CarriedStep
<1>4. CASE p \notin have[acq[x].hash]
  <2>1. /\ have' = [have EXCEPT ![acq[x].hash] = @ \cup {p}]
        /\ UNCHANGED <<acq, replies, made, mLedgers, dataJobs, doneJobs, reported, returned, worker>>
    BY <1>4 DEF gotFetchPack
  <2>2. have' \in [Ledger -> SUBSET Part] /\ \A h \in Ledger : have[h] \subseteq have'[h]
    BY <1>1, <2>1 DEF IInv, TypeOK
  <2>3. replies' \in 0 .. MaxReplies
    BY <2>1 DEF IInv, TypeOK
  <2> QED
    BY <2>1, <2>2, <2>3, HaveGrows
<1> QED
  BY <1>3, <1>4

LEMMA LedgerDataStep ==
  ASSUME IInv, NEW h \in Ledger, NEW p \in Part, gotLedgerData(h, p)
  PROVE  IInv' /\ FinalStep
<1>1. /\ replies' \in 0 .. MaxReplies
      /\ UNCHANGED <<made, mLedgers, doneJobs, reported, returned, worker>>
  BY AcquireAssumption DEF gotLedgerData, IInv, TypeOK
<1>2. CASE /\ have' = IF find(h) # {} \/ p # "state" THEN have ELSE [have EXCEPT ![h] = @ \cup {p}]
           /\ UNCHANGED <<acq, dataJobs>>
  <2>1. have' \in [Ledger -> SUBSET Part] /\ \A g \in Ledger : have[g] \subseteq have'[g]
    BY <1>2 DEF IInv, TypeOK
  <2> QED
    BY <1>1, <1>2, <2>1, HaveGrows
<1>3. ASSUME NEW x \in find(h), have' = have,
             acq' = [acq EXCEPT ![x].mReceivedData = @ \cup {p}, ![x].mReceiveDispatched = TRUE],
             dataJobs' = [dataJobs EXCEPT ![h] = @ + IF acq[x].mReceiveDispatched THEN 0 ELSE 1]
      PROVE  IInv' /\ FinalStep
  <2> DEFINE q == [[acq[x] EXCEPT !.mReceivedData = acq[x].mReceivedData \cup {p}]
                     EXCEPT !.mReceiveDispatched = TRUE]
             n == IF acq[x].mReceiveDispatched THEN 0 ELSE 1
  <2>1. /\ x \in mLedgers /\ acq[x].hash = h /\ x \in Acq /\ alive(x)
        /\ mLedgers \subseteq Acq
    BY MadeIsAcq DEF find, alive, IInv, TypeOK
  <2>2. acq[x] \in Inbound /\ Sound(acq[x], have[acq[x].hash]) /\ acq \in [Acq -> Inbound]
    BY <2>1, AliveObject DEF IInv, TypeOK
  <2>3. acq' = [acq EXCEPT ![x] = q]
    BY <1>3, <2>1, <2>2 DEF Inbound
  <2>4. /\ q \in Inbound /\ q.hash = acq[x].hash /\ q.got = acq[x].got
        /\ q.mComplete = acq[x].mComplete /\ q.mFailed = acq[x].mFailed
        /\ q.mSignaled = acq[x].mSignaled /\ q.timer = acq[x].timer /\ q.mReceiveDispatched
        /\ q.mTimeouts = acq[x].mTimeouts /\ q.mProgress = acq[x].mProgress
    BY <2>2 DEF Inbound
  <2> HIDE DEF q
  <2>5. Sound(q, have'[q.hash])
    BY <1>3, <2>2, <2>4 DEF Sound, isDone
  <2>6. Advances(acq[x], q)
    BY <2>4 DEF Advances, isDone
  <2>7. \A y \in Acq : alive(y)' => alive(y)
    BY <1>1, AliveStays
  <2>8. /\ acq' \in [Acq -> Inbound] /\ acq'[x] = q
        /\ \A y \in Acq : y # x => acq'[y] = acq[y]
        /\ \A y \in Acq : Advances(acq[y], acq'[y])
        /\ ObjectsSound' /\ NotMadeIsNew' /\ SignalledIsDone' /\ OneInList' /\ NotAbandoned'
        /\ FinalStep
        /\ \A j \in Job : JobIsSound(j, acq, have) => JobIsSound(j, acq', have')
    <3>1. /\ \A g \in Ledger : have[g] \subseteq have'[g]
          /\ \A y \in Acq : y # x => doneJobs'[y] = doneJobs[y]
      BY <1>1, <1>3
    <3> QED
      BY <1>1, <2>1, <2>3, <2>5, <2>6, <2>7, <3>1, Updated
  <2>9. /\ dataJobs' \in [Ledger -> Nat] /\ dataJobs'[h] = dataJobs[h] + n
        /\ \A g \in Ledger : g # h => dataJobs'[g] = dataJobs[g]
    <3>1. n \in Nat /\ dataJobs \in [Ledger -> Nat]
      BY DEF IInv, TypeOK
    <3>2. dataJobs' = [dataJobs EXCEPT ![h] = dataJobs[h] + n]
      BY <1>3, <3>1
    <3> HIDE DEF n
    <3> QED
      BY <3>1, <3>2
  <2>10. TypeOK'
    BY <1>1, <1>3, <2>8, <2>9 DEF IInv, TypeOK, Job
  <2>11. JobsSound'
    BY <1>1, <2>8 DEF IInv, JobsSound, TypeOK
  <2>12. OutcomesSeen'
    <3>1. \A y \in Acq : /\ acq'[y].mSignaled = acq[y].mSignaled /\ (isDone(acq'[y]) <=> isDone(acq[y]))
                         /\ Silent(acq[y]) => Silent(acq'[y])
      BY <2>4, <2>8 DEF isDone, Silent
    <3>2. \A y \in Acq : OnTheWay(y) => OnTheWay(y)'
      BY <1>1 DEF OnTheWay
    <3>3. reported' = reported /\ returned' = returned /\ doneJobs' = doneJobs
      BY <1>1
    <3> SUFFICES ASSUME NEW y \in Acq, isDone(acq'[y])
                 PROVE  \/ y \in reported' \cup returned' \/ doneJobs'[y] > 0
                        \/ ~acq'[y].mSignaled /\ OnTheWay(y)'
                        \/ Silent(acq'[y])
      BY DEF OutcomesSeen, OnTheWay
    <3>4. isDone(acq[y]) /\ (acq'[y].mSignaled <=> acq[y].mSignaled)
      BY <3>1
    <3>5. \/ y \in reported \cup returned \/ doneJobs[y] > 0
          \/ ~acq[y].mSignaled /\ OnTheWay(y)
          \/ Silent(acq[y])
      BY <3>4 DEF IInv, OutcomesSeen
    <3> QED
      BY <3>1, <3>2, <3>3, <3>4, <3>5
  <2>13. RepliesSeen'
    <3> SUFFICES ASSUME NEW y \in mLedgers
                 PROVE  /\ acq'[y].mReceivedData # {} => acq'[y].mReceiveDispatched
                        /\ acq'[y].mReceiveDispatched => dataJobs'[acq'[y].hash] > 0 \/ TakesReplies(y)'
      BY <1>1 DEF RepliesSeen
    <3>1. /\ acq[y].mReceivedData # {} => acq[y].mReceiveDispatched
          /\ acq[y].mReceiveDispatched => dataJobs[acq[y].hash] > 0 \/ TakesReplies(y)
          /\ y \in Acq
      BY <2>1 DEF IInv, RepliesSeen
    <3>2. TakesReplies(y) => TakesReplies(y)'
      BY <1>1 DEF TakesReplies
    <3>3. acq[y].hash \in Ledger /\ dataJobs[acq[y].hash] \in Nat /\ dataJobs[h] \in Nat
      BY <3>1, AliveObject DEF IInv, TypeOK
    <3>4. CASE y # x
      <4>1. acq[y].hash # h
        BY <2>1, <3>4 DEF IInv, OneInList
      <4> QED
        BY <2>8, <2>9, <3>1, <3>2, <3>3, <3>4, <4>1
    <3>5. CASE y = x
      <4>1. acq'[y] = q /\ acq'[y].hash = h /\ acq'[y].mReceiveDispatched
        BY <2>1, <2>4, <2>8, <3>5
      <4>2. dataJobs'[h] > 0 \/ TakesReplies(y)'
        <5>1. CASE acq[x].mReceiveDispatched
          BY <2>1, <2>9, <3>1, <3>2, <3>3, <3>5, <5>1
        <5>2. CASE ~acq[x].mReceiveDispatched
          BY <2>9, <3>3, <5>2
        <5> QED
          BY <5>1, <5>2
      <4> QED
        BY <4>1, <4>2
    <3> QED
      BY <3>4, <3>5
  <2> QED
    BY <2>8, <2>10, <2>11, <2>12, <2>13 DEF IInv
<1> QED
  BY <1>2, <1>3 DEF gotLedgerData

LEMMA DispatchStep ==
  ASSUME IInv, NEW x \in Acq, LADispatch(x)
  PROVE  IInv' /\ FinalStep
<1>1. doneJobs \in [Acq -> Nat] /\ doneJobs[x] > 0 /\ acq \in [Acq -> Inbound]
  BY DEF LADispatch, IInv, TypeOK
<1>2. alive(x) /\ x \in 1 .. made
  BY <1>1, AliveIsMade DEF alive, held
<1>3. /\ doneJobs' = [doneJobs EXCEPT ![x] = doneJobs[x] - 1] /\ reported' = reported \cup {x}
      /\ UNCHANGED <<replies, have, acq, made, mLedgers, dataJobs, returned, worker>>
  BY <1>1 DEF LADispatch
<1>4. /\ doneJobs' \in [Acq -> Nat] /\ \A y \in Acq : y # x => doneJobs'[y] = doneJobs[y]
  BY <1>1, <1>3
<1>5. \A y \in Acq : alive(y)' => alive(y)
  BY <1>2, <1>3, <1>4, AliveStays
<1>6. /\ ObjectsSound' /\ NotMadeIsNew' /\ SignalledIsDone' /\ OneInList' /\ NotAbandoned'
      /\ FinalStep
  <2>1. /\ acq' = [acq EXCEPT ![x] = acq[x]] /\ Sound(acq[x], have'[acq[x].hash])
        /\ \A h \in Ledger : have[h] \subseteq have'[h]
    BY <1>1, <1>3, AliveObject
  <2>2. Advances(acq[x], acq[x])
    BY AdvancesReflexive
  <2> QED
    BY <1>2, <1>3, <1>4, <1>5, <2>1, <2>2, Updated
<1>7. TypeOK'
  BY <1>2, <1>3, <1>4 DEF IInv, TypeOK, Job
<1>8. JobsSound' /\ RepliesSeen'
  BY <1>3 DEF IInv, JobsSound, RepliesSeen, TakesReplies
<1>9. OutcomesSeen'
  <2>1. \A y \in Acq : OnTheWay(y) => OnTheWay(y)'
    BY <1>3 DEF OnTheWay
  <2> QED
    BY <1>3, <1>4, <2>1 DEF IInv, OutcomesSeen
<1> QED
  BY <1>6, <1>7, <1>8, <1>9 DEF IInv

-----------------------------------------------------------------------------
Becomes(x, q) == acq' = [acq EXCEPT ![x] = q]

(***************************************************************************)
(* A step of the job that handles replies: what it leaves alone.           *)
(***************************************************************************)
LEMMA WorkerStep ==
  ASSUME IInv, NEW w \in Worker, worker[w].at # "idle", NEW x, x = worker[w].x,
         NEW q, Becomes(x, q), Advances(acq[x], q), Sound(q, have'[q.hash]),
         have' \in [Ledger -> SUBSET Part], \A h \in Ledger : have[h] \subseteq have'[h],
         doneJobs' \in [Acq -> Nat], \A y \in Acq : y # x => doneJobs'[y] = doneJobs[y],
         NEW j \in Job, goto(w, j), j.x = 0 \/ j.x = x, JobIsSound(j, acq', have'),
         UNCHANGED <<replies, made, mLedgers, dataJobs, reported, returned>>
  PROVE  /\ TypeOK' /\ ObjectsSound' /\ NotMadeIsNew' /\ SignalledIsDone' /\ JobsSound'
         /\ OneInList' /\ NotAbandoned' /\ FinalStep
         /\ acq'[x] = q /\ \A y \in Acq : y # x => acq'[y] = acq[y]
         /\ worker'[w] = j /\ \A v \in Worker : v # w => worker'[v] = worker[v]
<1>1. x \in Acq /\ alive(x) /\ worker \in [Worker -> Job]
  BY JobHolds DEF IInv, TypeOK
<1>2. /\ worker' \in [Worker -> Job] /\ worker'[w] = j
      /\ \A v \in Worker : v # w => worker'[v] = worker[v]
  BY <1>1 DEF goto
<1>3. \A y \in Acq : alive(y)' => alive(y)
  <2>1. \A v \in Worker : worker'[v].x = worker[v].x \/ worker'[v].x = 0
    BY <1>2
  <2>2. \A y \in Acq : doneJobs'[y] = doneJobs[y] \/ alive(y)
    BY <1>1
  <2> QED
    BY <2>1, <2>2, AliveStays
<1>4. /\ acq' \in [Acq -> Inbound] /\ acq'[x] = q
      /\ \A y \in Acq : y # x => acq'[y] = acq[y]
      /\ ObjectsSound' /\ NotMadeIsNew' /\ SignalledIsDone' /\ OneInList' /\ NotAbandoned'
      /\ FinalStep
      /\ \A i \in Job : JobIsSound(i, acq, have) => JobIsSound(i, acq', have')
  BY <1>1, <1>3, Updated DEF Becomes
<1>5. TypeOK'
  BY <1>2, <1>4 DEF IInv, TypeOK, Job
<1>6. JobsSound'
  <2> SUFFICES ASSUME NEW v \in Worker PROVE JobIsSound(worker'[v], acq', have')
    BY DEF JobsSound
  <2>1. CASE v = w
    BY <1>2, <2>1
  <2>2. CASE v # w
    BY <1>1, <1>2, <1>4, <2>2 DEF IInv, JobsSound
  <2> QED
    BY <2>1, <2>2
<1> QED
  BY <1>2, <1>4, <1>5, <1>6

\* The job keeps taking replies, or was not taking any.
LEMMA WorkerReplies ==
  ASSUME IInv, NEW w \in Worker, worker[w].at # "idle", NEW x, x = worker[w].x,
         NEW q, Advances(acq[x], q), SameStash(acq[x], q),
         acq'[x] = q, \A y \in Acq : y # x => acq'[y] = acq[y],
         NEW j, worker'[w] = j, \A v \in Worker : v # w => worker'[v] = worker[v],
         worker[w].at \in {"drain", "process"} => j.x = x /\ j.at \in {"drain", "process"},
         UNCHANGED <<mLedgers, dataJobs>>
  PROVE  RepliesSeen'
<1>1. x \in Acq
  BY JobHolds
<1>2. \A y \in Acq : acq'[y].hash = acq[y].hash /\ SameStash(acq[y], acq'[y])
  BY <1>1 DEF SameStash, Advances
<1>3. ASSUME NEW y \in Acq, TakesReplies(y) PROVE TakesReplies(y)'
  <2>1. PICK v \in Worker : worker[v].x = y /\ worker[v].at \in {"drain", "process"}
    BY <1>3 DEF TakesReplies
  <2>2. worker'[v].x = y /\ worker'[v].at \in {"drain", "process"}
    BY <2>1
  <2> QED
    BY <2>2 DEF TakesReplies
<1> QED
  BY <1>2, <1>3, StashKept

\* The job queues no outcome, and if it finds one it is on its way to signal it.
LEMMA WorkerOutcomes ==
  ASSUME IInv, NEW w \in Worker, worker[w].at # "idle", NEW x, x = worker[w].x,
         NEW q, Advances(acq[x], q), SameSignal(acq[x], q),
         acq'[x] = q, \A y \in Acq : y # x => acq'[y] = acq[y],
         NEW j, worker'[w] = j, \A v \in Worker : v # w => worker'[v] = worker[v],
         isDone(q) => isDone(acq[x]) \/ Silent(q) \/ (j.x = x /\ j.at \in {"done", "signal"}),
         worker[w].at \in {"done", "signal"} => q.mSignaled \/ (j.x = x /\ j.at \in {"done", "signal"}),
         UNCHANGED <<doneJobs, reported, returned>>
  PROVE  OutcomesSeen'
<1>1. x \in Acq /\ alive(x)
  BY JobHolds
<1> SUFFICES ASSUME NEW y \in Acq, isDone(acq'[y])
             PROVE  \/ y \in reported \cup returned \/ doneJobs[y] > 0
                    \/ (~acq'[y].mSignaled /\ OnTheWay(y)') \/ Silent(acq'[y])
  BY DEF OutcomesSeen
<1>2. CASE y # x
  <2>1. acq'[y] = acq[y]
    BY <1>2
  <2>2. OnTheWay(y) => OnTheWay(y)'
    BY <1>2 DEF OnTheWay
  <2> QED
    BY <2>1, <2>2 DEF IInv, OutcomesSeen
<1>3. CASE y = x /\ j.x = x /\ j.at \in {"done", "signal"}
  <2>1. OnTheWay(x)'
    BY <1>3 DEF OnTheWay
  <2>2. CASE q.mSignaled
    <3>1. acq[x].mSignaled /\ isDone(acq[x])
      BY <1>1, <2>2 DEF IInv, SignalledIsDone, SameSignal
    <3> QED
      BY <1>3, <3>1 DEF IInv, OutcomesSeen, Silent
  <2>3. CASE ~q.mSignaled
    BY <1>3, <2>1, <2>3
  <2> QED
    BY <2>2, <2>3
<1>4. CASE y = x /\ Silent(q)
  BY <1>4
<1>5. CASE y = x /\ ~(j.x = x /\ j.at \in {"done", "signal"}) /\ ~Silent(q)
  <2>1. isDone(acq[x])
    BY <1>5
  <2>2. CASE q.mSignaled
    <3>1. acq[x].mSignaled
      BY <2>2 DEF SameSignal
    <3> QED
      BY <1>1, <1>5, <2>1, <3>1 DEF IInv, OutcomesSeen, Silent
  <2>3. CASE ~q.mSignaled
    <3>1. worker[w].at \notin {"done", "signal"}
      BY <1>5, <2>3
    <3>2. OnTheWay(x) => OnTheWay(x)'
      BY <3>1 DEF OnTheWay
    <3>3. ~Silent(acq[x])
      BY <1>5, <2>3 DEF Silent, Advances, isDone
    <3> QED
      BY <1>1, <1>5, <2>1, <2>3, <3>2, <3>3 DEF IInv, OutcomesSeen
  <2> QED
    BY <2>2, <2>3
<1> QED
  BY <1>2, <1>3, <1>4, <1>5

LEMMA QuietStep ==
  ASSUME IInv, NEW w \in Worker, worker[w].at # "idle", NEW x, x = worker[w].x,
         NEW q, Becomes(x, q), Carries(acq[x], q, have[acq[x].hash]),
         SameSignal(acq[x], q),
         NEW j \in Job, goto(w, j), j.x = 0 \/ j.x = x, JobIsSound(j, acq', have),
         worker[w].at \notin {"drain", "process"},
         isDone(q) => isDone(acq[x]) \/ Silent(q) \/ (j.x = x /\ j.at \in {"done", "signal"}),
         worker[w].at \in {"done", "signal"} => q.mSignaled \/ (j.x = x /\ j.at \in {"done", "signal"}),
         UNCHANGED <<replies, have, made, mLedgers, dataJobs, doneJobs, reported, returned>>
  PROVE  IInv' /\ FinalStep
<1>1. Advances(acq[x], q) /\ SameStash(acq[x], q) /\ Sound(q, have'[q.hash])
  BY DEF Carries, Advances
<1>2. /\ have' \in [Ledger -> SUBSET Part] /\ \A h \in Ledger : have[h] \subseteq have'[h]
      /\ doneJobs' \in [Acq -> Nat] /\ \A y \in Acq : y # x => doneJobs'[y] = doneJobs[y]
      /\ JobIsSound(j, acq', have')
      /\ UNCHANGED <<replies, made, mLedgers, dataJobs, reported, returned>>
  BY DEF IInv, TypeOK
<1>3. /\ TypeOK' /\ ObjectsSound' /\ NotMadeIsNew' /\ SignalledIsDone' /\ JobsSound'
      /\ OneInList' /\ NotAbandoned' /\ FinalStep
      /\ acq'[x] = q /\ \A y \in Acq : y # x => acq'[y] = acq[y]
      /\ worker'[w] = j /\ \A v \in Worker : v # w => worker'[v] = worker[v]
  BY <1>1, <1>2, WorkerStep
<1>4. RepliesSeen'
  BY <1>1, <1>3, WorkerReplies
<1>5. OutcomesSeen'
  BY <1>1, <1>3, WorkerOutcomes
<1> QED
  BY <1>3, <1>4, <1>5 DEF IInv

LEMMA NoJobSound ==
  ASSUME TypeOK, NEW objects, NEW parts
  PROVE  NoJob \in Job /\ NoJob.x = 0 /\ NoJob.at = "idle" /\ JobIsSound(NoJob, objects, parts)
<1>1. made \in Nat
  BY MadeIsAcq
<1> QED
  BY <1>1 DEF NoJob, Job, JobIsSound

LEMMA TriggerReplyStep ==
  ASSUME IInv, NEW w \in Worker, triggerReply(w)
  PROVE  IInv' /\ FinalStep
<1>1. PICK x : x = worker[w].x
  OBVIOUS
<1>2. worker[w].at = "trigger"
  BY DEF triggerReply
<1>3. /\ x \in Acq /\ x \in 1 .. made /\ worker[w] \in Job /\ acq \in [Acq -> Inbound]
      /\ Sound(acq[x], have[acq[x].hash]) /\ have[acq[x].hash] \subseteq Part /\ made \in Nat
  BY <1>1, <1>2, JobHolds, MadeIsAcq DEF IInv, TypeOK
<1>4. UNCHANGED <<replies, have, made, mLedgers, dataJobs, doneJobs, reported, returned>>
  BY DEF triggerReply
<1>5. NoJob \in Job /\ NoJob.x = 0 /\ NoJob.at = "idle" /\ JobIsSound(NoJob, acq', have)
  BY NoJobSound DEF IInv
<1>6. CASE goto(w, NoJob) /\ UNCHANGED acq
  <2>1. acq' = [acq EXCEPT ![x] = acq[x]]
    BY <1>3, <1>6
  <2>2. Carries(acq[x], acq[x], have[acq[x].hash]) /\ SameSignal(acq[x], acq[x])
    BY <1>3, CarriesReflexive
  <2> QED
    BY <1>1, <1>2, <1>4, <1>5, <1>6, <2>1, <2>2, QuietStep DEF Becomes
<1> SUFFICES ASSUME NEW byHash \in BOOLEAN, ~isDone(acq[x]),
                    LET p == triggerHeader(acq[x], byHash) IN
                    \/ /\ "header" \notin p.got \/ p.mFailed
                       /\ acq' = [acq EXCEPT ![x] = p] /\ goto(w, NoJob)
                    \/ /\ "header" \in p.got /\ "state" \notin p.got /\ ~p.mFailed
                       /\ acq' = [acq EXCEPT ![x] = p] /\ goto(w, [worker[w] EXCEPT !.at = "missing"])
                    \/ /\ {"header", "state"} \subseteq p.got /\ ~p.mFailed
                       /\ acq' = [acq EXCEPT ![x] = triggerTx(p)]
                       /\ goto(w, IF isDone(triggerTx(p)) THEN [worker[w] EXCEPT !.at = "done"] ELSE NoJob)
             PROVE  IInv' /\ FinalStep
  BY <1>1, <1>6 DEF triggerReply
<1> DEFINE p == triggerHeader(acq[x], byHash)
<1>9. CASE /\ "header" \notin p.got \/ p.mFailed
           /\ acq' = [acq EXCEPT ![x] = p] /\ goto(w, NoJob)
  <2>1. /\ Carries(acq[x], p, have[acq[x].hash]) /\ SameSignal(acq[x], p)
        /\ p.mFailed => acq[x].hash \in NotLedger \cup NoState
        /\ "header" \notin p.got /\ ~p.mFailed => p = acq[x]
    BY <1>3, TriggerHeaderSound
  <2> HIDE DEF p
  <2>2. isDone(p) => isDone(acq[x]) \/ Silent(p)
    <3>1. p.hash = acq[x].hash /\ (p.mSignaled => acq[x].mSignaled)
      BY <2>1 DEF Carries, Advances, SameSignal
    <3>2. ~acq[x].mSignaled
      <4>1. alive(x)
        BY <1>1, <1>2, JobHolds
      <4> QED
        BY <1>3, <4>1 DEF IInv, SignalledIsDone
    <3> QED
      BY <1>9, <2>1, <3>1, <3>2 DEF Silent, isDone
  <2> QED
    BY <1>1, <1>2, <1>4, <1>5, <1>9, <2>1, <2>2, QuietStep DEF Becomes
<1>7. CASE "header" \in p.got /\ "state" \notin p.got /\ ~p.mFailed
           /\ acq' = [acq EXCEPT ![x] = p] /\ goto(w, [worker[w] EXCEPT !.at = "missing"])
  <2>1. Carries(acq[x], p, have[acq[x].hash]) /\ SameSignal(acq[x], p) /\ ~isDone(p)
    BY <1>3, <1>7, TriggerHeaderSound
  <2> HIDE DEF p
  <2>2. PICK j : j = [worker[w] EXCEPT !.at = "missing"]
    OBVIOUS
  <2>3. j \in Job /\ j.x = x /\ j.at = "missing"
    BY <1>1, <1>3, <2>2 DEF Job
  <2>4. JobIsSound(j, acq', have)
    <3>1. acq'[x] = p /\ x >= 1
      BY <1>3, <1>7
    <3> QED
      BY <1>7, <2>3, <3>1 DEF JobIsSound
  <2> QED
    BY <1>1, <1>2, <1>4, <1>7, <2>1, <2>2, <2>3, <2>4, QuietStep DEF Becomes
<1>8. CASE {"header", "state"} \subseteq p.got /\ ~p.mFailed
           /\ acq' = [acq EXCEPT ![x] = triggerTx(p)]
           /\ goto(w, IF isDone(triggerTx(p)) THEN [worker[w] EXCEPT !.at = "done"] ELSE NoJob)
  <2>1. Carries(acq[x], p, have[acq[x].hash]) /\ SameSignal(acq[x], p) /\ p.hash = acq[x].hash
    BY <1>3, <1>8, TriggerHeaderSound DEF Carries, Advances
  <2> HIDE DEF p
  <2>2. Carries(p, triggerTx(p), have[acq[x].hash]) /\ SameSignal(p, triggerTx(p))
    BY <1>8, <2>1, TriggerTxSound DEF Carries
  <2>3. PICK q : q = triggerTx(p)
    OBVIOUS
  <2>4. Carries(acq[x], q, have[acq[x].hash]) /\ SameSignal(acq[x], q)
    BY <2>1, <2>2, <2>3, CarriesTransitive
  <2>5. acq'[x] = q
    BY <1>3, <1>8, <2>3
  <2>6. CASE isDone(q)
    <3>1. PICK j : j = [worker[w] EXCEPT !.at = "done"]
      OBVIOUS
    <3>2. j \in Job /\ j.x = x /\ j.at = "done"
      BY <1>1, <1>3, <3>1 DEF Job
    <3>3. JobIsSound(j, acq', have)
      BY <1>3, <2>5, <2>6, <3>2 DEF JobIsSound
    <3> QED
      BY <1>1, <1>2, <1>4, <1>8, <2>3, <2>4, <2>6, <3>1, <3>2, <3>3, QuietStep DEF Becomes
  <2>7. CASE ~isDone(q)
    BY <1>1, <1>2, <1>4, <1>5, <1>8, <2>3, <2>4, <2>7, QuietStep DEF Becomes
  <2> QED
    BY <2>6, <2>7
<1> QED
  BY <1>9, <1>7, <1>8

LEMMA GetMissingStep ==
  ASSUME IInv, NEW w \in Worker, getMissing(w)
  PROVE  IInv' /\ FinalStep
<1>1. PICK x : x = worker[w].x
  OBVIOUS
<1>2. worker[w].at = "missing"
  BY DEF getMissing
<1>3. /\ x \in Acq /\ x \in 1 .. made /\ worker[w] \in Job /\ acq \in [Acq -> Inbound]
      /\ Sound(acq[x], have[acq[x].hash]) /\ made \in Nat /\ JobIsSound(worker[w], acq, have)
  BY <1>1, <1>2, JobHolds, MadeIsAcq DEF IInv, TypeOK
<1>4. PICK q : q = lookForMissing(acq[x])
  OBVIOUS
<1>5. /\ Carries(acq[x], q, have[acq[x].hash]) /\ SameSignal(acq[x], q) /\ q.got = acq[x].got
      /\ q.mComplete = acq[x].mComplete /\ q.mFailed = acq[x].mFailed /\ q.hash = acq[x].hash
  BY <1>3, <1>4, LookForMissingSound DEF Carries, Advances
<1>6. isDone(q) => isDone(acq[x])
  BY <1>5 DEF isDone
<1>7. PICK j : j = [worker[w] EXCEPT !.at = "relock", !.missing = "state" \notin have[acq[x].hash]]
  OBVIOUS
<1>8. j \in Job /\ j.x = x /\ j.at = "relock" /\ j.missing = ("state" \notin have[acq[x].hash])
  BY <1>1, <1>3, <1>7 DEF Job
<1>9. /\ acq' = [acq EXCEPT ![x] = q] /\ goto(w, j)
      /\ UNCHANGED <<replies, have, made, mLedgers, dataJobs, doneJobs, reported, returned>>
  BY <1>1, <1>4, <1>7 DEF getMissing
<1>10. JobIsSound(j, acq', have)
  <2>1. acq'[x] = q /\ x >= 1 /\ "header" \in acq[x].got
    BY <1>1, <1>2, <1>3, <1>9 DEF JobIsSound
  <2> QED
    BY <1>5, <1>8, <2>1 DEF JobIsSound
<1> QED
  BY <1>1, <1>2, <1>5, <1>6, <1>8, <1>9, <1>10, QuietStep DEF Becomes

LEMMA RelockStep ==
  ASSUME IInv, NEW w \in Worker, relock(w)
  PROVE  IInv' /\ FinalStep
<1>1. PICK x : x = worker[w].x
  OBVIOUS
<1>2. worker[w].at = "relock"
  BY DEF relock
<1>3. /\ x \in Acq /\ x \in 1 .. made /\ worker[w] \in Job /\ acq \in [Acq -> Inbound]
      /\ Sound(acq[x], have[acq[x].hash]) /\ have[acq[x].hash] \subseteq Part
      /\ made \in Nat /\ JobIsSound(worker[w], acq, have)
  BY <1>1, <1>2, JobHolds, MadeIsAcq DEF IInv, TypeOK
<1>4. "header" \in acq[x].got /\ (worker[w].missing \/ "state" \in have[acq[x].hash])
  BY <1>1, <1>2, <1>3 DEF JobIsSound
<1>5. PICK f \in BOOLEAN :
        LET q == triggerState(acq[x], worker[w].missing, f) IN
        /\ acq' = [acq EXCEPT ![x] = q]
        /\ goto(w, IF isDone(q) THEN [NoJob EXCEPT !.at = "done", !.x = x] ELSE NoJob)
        /\ UNCHANGED <<replies, have, made, mLedgers, dataJobs, doneJobs, reported, returned>>
  BY <1>1 DEF relock
<1>6. PICK q : q = triggerState(acq[x], worker[w].missing, f)
  OBVIOUS
<1>7. Carries(acq[x], q, have[acq[x].hash]) /\ SameSignal(acq[x], q)
  BY <1>3, <1>4, <1>6, TriggerStateSound
<1>8. PICK j : j = IF isDone(q) THEN [NoJob EXCEPT !.at = "done", !.x = x] ELSE NoJob
  OBVIOUS
<1>9. /\ acq' = [acq EXCEPT ![x] = q] /\ goto(w, j)
      /\ UNCHANGED <<replies, have, made, mLedgers, dataJobs, doneJobs, reported, returned>>
  BY <1>5, <1>6, <1>8
<1>10. CASE isDone(q)
  <2>1. j \in Job /\ j.x = x /\ j.at = "done"
    <3>1. NoJob \in Job
      BY NoJobSound DEF IInv
    <3>2. j = [NoJob EXCEPT !.at = "done", !.x = x]
      BY <1>8, <1>10
    <3>3. x \in 0 .. made
      BY <1>3
    <3> QED
      BY <3>1, <3>2, <3>3 DEF Job
  <2>2. JobIsSound(j, acq', have)
    <3>1. acq'[x] = q /\ x >= 1
      BY <1>3, <1>9
    <3> QED
      BY <1>10, <2>1, <3>1 DEF JobIsSound
  <2> QED
    BY <1>1, <1>2, <1>7, <1>9, <2>1, <2>2, QuietStep DEF Becomes
<1>11. CASE ~isDone(q)
  <2>1. j \in Job /\ j.x = 0 /\ j.at = "idle" /\ JobIsSound(j, acq', have)
    BY <1>8, <1>11, NoJobSound DEF IInv
  <2> QED
    BY <1>1, <1>2, <1>7, <1>9, <1>11, <2>1, QuietStep DEF Becomes
<1> QED
  BY <1>10, <1>11

LEMMA DoneReadsStep ==
  ASSUME IInv, NEW w \in Worker, doneReads(w)
  PROVE  IInv' /\ FinalStep
<1>1. PICK x : x = worker[w].x
  OBVIOUS
<1>2. worker[w].at = "done"
  BY DEF doneReads
<1>3. /\ x \in Acq /\ x \in 1 .. made /\ worker[w] \in Job /\ acq \in [Acq -> Inbound]
      /\ Sound(acq[x], have[acq[x].hash]) /\ made \in Nat /\ JobIsSound(worker[w], acq, have)
  BY <1>1, <1>2, JobHolds, MadeIsAcq DEF IInv, TypeOK
<1>4. isDone(acq[x]) /\ x >= 1
  BY <1>1, <1>2, <1>3 DEF JobIsSound
<1>5. Carries(acq[x], acq[x], have[acq[x].hash]) /\ SameSignal(acq[x], acq[x])
  BY <1>3, CarriesReflexive
<1>6. PICK j : j = IF acq[x].mSignaled THEN NoJob ELSE [worker[w] EXCEPT !.at = "signal"]
  OBVIOUS
<1>7. /\ acq' = [acq EXCEPT ![x] = acq[x]] /\ acq' = acq /\ goto(w, j)
      /\ UNCHANGED <<replies, have, made, mLedgers, dataJobs, doneJobs, reported, returned>>
  BY <1>1, <1>3, <1>6 DEF doneReads
<1>8. CASE acq[x].mSignaled
  <2>1. j \in Job /\ j.x = 0 /\ JobIsSound(j, acq', have)
    BY <1>6, <1>8, NoJobSound DEF IInv
  <2> QED
    BY <1>1, <1>2, <1>4, <1>5, <1>7, <1>8, <2>1, QuietStep DEF Becomes
<1>9. CASE ~acq[x].mSignaled
  <2>1. j \in Job /\ j.x = x /\ j.at = "signal"
    BY <1>1, <1>3, <1>6, <1>9 DEF Job
  <2>2. JobIsSound(j, acq', have)
    BY <1>4, <1>7, <2>1 DEF JobIsSound
  <2> QED
    BY <1>1, <1>2, <1>4, <1>5, <1>7, <2>1, <2>2, QuietStep DEF Becomes
<1> QED
  BY <1>8, <1>9

LEMMA DoneSetsStep ==
  ASSUME IInv, NEW w \in Worker, doneSets(w)
  PROVE  IInv' /\ FinalStep
<1>1. PICK x : x = worker[w].x
  OBVIOUS
<1>2. worker[w].at = "signal"
  BY DEF doneSets
<1>3. /\ x \in Acq /\ x \in 1 .. made /\ worker[w] \in Job /\ acq \in [Acq -> Inbound]
      /\ acq[x] \in Inbound /\ Sound(acq[x], have[acq[x].hash]) /\ made \in Nat
      /\ JobIsSound(worker[w], acq, have) /\ doneJobs \in [Acq -> Nat]
  BY <1>1, <1>2, JobHolds, MadeIsAcq DEF IInv, TypeOK
<1>4. isDone(acq[x])
  BY <1>1, <1>2, <1>3 DEF JobIsSound
<1>5. PICK q : q = [acq[x] EXCEPT !.mSignaled = TRUE]
  OBVIOUS
<1>6. /\ q \in Inbound /\ q.hash = acq[x].hash /\ q.got = acq[x].got
      /\ q.mComplete = acq[x].mComplete /\ q.mFailed = acq[x].mFailed /\ q.mSignaled
      /\ q.mReceivedData = acq[x].mReceivedData /\ q.mReceiveDispatched = acq[x].mReceiveDispatched
  BY <1>3, <1>5 DEF Inbound
<1>7. isDone(q) /\ Sound(q, have[acq[x].hash])
  BY <1>3, <1>4, <1>6 DEF Sound, isDone
<1>8. Advances(acq[x], q) /\ SameStash(acq[x], q)
  BY <1>6, <1>7 DEF Advances, SameStash
<1>9. /\ goto(w, NoJob) /\ Becomes(x, q)
      /\ doneJobs' = [doneJobs EXCEPT ![x] = doneJobs[x] + 1]
      /\ UNCHANGED <<replies, have, made, mLedgers, dataJobs, reported, returned>>
  BY <1>1, <1>3, <1>5 DEF doneSets, Becomes
<1>10. /\ doneJobs' \in [Acq -> Nat] /\ doneJobs'[x] > 0
       /\ \A y \in Acq : y # x => doneJobs'[y] = doneJobs[y]
  BY <1>3, <1>9
<1>11. /\ NoJob \in Job /\ NoJob.x = 0 /\ NoJob.at = "idle" /\ JobIsSound(NoJob, acq', have')
  BY NoJobSound DEF IInv
<1>12. /\ have' \in [Ledger -> SUBSET Part] /\ \A h \in Ledger : have[h] \subseteq have'[h]
       /\ Sound(q, have'[q.hash]) /\ UNCHANGED <<replies, made, mLedgers, dataJobs, reported, returned>>
  BY <1>6, <1>7, <1>9 DEF IInv, TypeOK
<1>13. /\ TypeOK' /\ ObjectsSound' /\ NotMadeIsNew' /\ SignalledIsDone' /\ JobsSound'
       /\ OneInList' /\ NotAbandoned' /\ FinalStep
       /\ acq'[x] = q /\ \A y \in Acq : y # x => acq'[y] = acq[y]
       /\ worker'[w] = NoJob /\ \A v \in Worker : v # w => worker'[v] = worker[v]
  BY <1>1, <1>2, <1>8, <1>9, <1>10, <1>11, <1>12, WorkerStep
<1>14. RepliesSeen'
  BY <1>1, <1>2, <1>8, <1>9, <1>13, WorkerReplies
<1>15. OutcomesSeen'
  <2> SUFFICES ASSUME NEW y \in Acq, y # x, isDone(acq[y])
               PROVE  \/ y \in reported \cup returned \/ doneJobs[y] > 0
                      \/ (~acq[y].mSignaled /\ OnTheWay(y)') \/ Silent(acq[y])
    BY <1>9, <1>10, <1>13 DEF OutcomesSeen
  <2>1. OnTheWay(y) => OnTheWay(y)'
    BY <1>1, <1>13 DEF OnTheWay
  <2> QED
    BY <2>1 DEF IInv, OutcomesSeen
<1> QED
  BY <1>13, <1>14, <1>15 DEF IInv

LEMMA ProcessStep ==
  ASSUME IInv, NEW w \in Worker, process(w)
  PROVE  IInv' /\ FinalStep
<1>1. PICK x : x = worker[w].x
  OBVIOUS
<1>2. worker[w].at = "process"
  BY DEF process
<1>3. /\ x \in Acq /\ x \in 1 .. made /\ worker[w] \in Job /\ acq \in [Acq -> Inbound] /\ alive(x)
      /\ Sound(acq[x], have[acq[x].hash]) /\ have[acq[x].hash] \subseteq Part /\ made \in Nat
      /\ acq[x].hash \in Ledger
  BY <1>1, <1>2, JobHolds, MadeIsAcq, AliveObject DEF IInv, TypeOK
<1>4. PICK p \in worker[w].data, leaf \in BOOLEAN :
        LET rest == worker[w].data \ {p}
            next == [worker[w] EXCEPT !.data = rest, !.at = IF rest = {} THEN "drain" ELSE @] IN
        /\ update(x, processData(acq[x], p, leaf))
        /\ have' = IF stores(acq[x], p) THEN [have EXCEPT ![acq[x].hash] = @ \cup {p}] ELSE have
        /\ goto(w, [next EXCEPT !.chosenPeer = TRUE])
        /\ UNCHANGED <<replies, made, mLedgers, dataJobs, reported, returned>>
  BY <1>1 DEF process
<1>5. p \in Part
  BY <1>3 DEF Job
<1>6. PICK q : q = processData(acq[x], p, leaf)
  OBVIOUS
<1>7. PICK j : j = [[worker[w] EXCEPT !.data = worker[w].data \ {p},
                       !.at = IF worker[w].data \ {p} = {} THEN "drain" ELSE @] EXCEPT !.chosenPeer = TRUE]
  OBVIOUS
<1>8. /\ j \in Job /\ j.x = x /\ j.at \in {"drain", "process"}
  BY <1>1, <1>2, <1>3, <1>7 DEF Job
<1>9. /\ update(x, q) /\ goto(w, j) /\ Becomes(x, q)
      /\ UNCHANGED <<replies, made, mLedgers, dataJobs, reported, returned>>
  BY <1>4, <1>6, <1>7 DEF update, Becomes
<1>10. /\ have' \in [Ledger -> SUBSET Part] /\ \A h \in Ledger : have[h] \subseteq have'[h]
       /\ have'[acq[x].hash] = IF stores(acq[x], p) THEN have[acq[x].hash] \cup {p} ELSE have[acq[x].hash]
  BY <1>3, <1>4, <1>5 DEF IInv, TypeOK
<1>11. Carries(acq[x], q, have'[acq[x].hash]) /\ Announces(acq[x], q)
  BY <1>3, <1>5, <1>6, <1>10, ProcessDataSound
<1>12. Advances(acq[x], q) /\ SameStash(acq[x], q) /\ Sound(q, have'[q.hash])
  BY <1>11 DEF Carries, Advances
<1>13. JobIsSound(j, acq', have')
  BY <1>3, <1>8 DEF JobIsSound
<1>14. \A y \in Acq : OnTheWay(y) => OnTheWay(y)'
  <2> SUFFICES ASSUME NEW y \in Acq, OnTheWay(y) PROVE OnTheWay(y)'
    OBVIOUS
  <2>1. PICK v \in Worker : worker[v].x = y /\ worker[v].at \in {"done", "signal"}
    BY DEF OnTheWay
  <2>2. worker'[v] = worker[v]
    BY <1>2, <1>9, <2>1 DEF goto, IInv, TypeOK
  <2> QED
    BY <2>1, <2>2 DEF OnTheWay
<1>15. /\ OutcomesSeen' /\ doneJobs' \in [Acq -> Nat]
       /\ \A y \in Acq : y # x => doneJobs'[y] = doneJobs[y]
  BY <1>3, <1>9, <1>11, <1>12, <1>14, Announced
<1>16. /\ TypeOK' /\ ObjectsSound' /\ NotMadeIsNew' /\ SignalledIsDone' /\ JobsSound'
       /\ OneInList' /\ NotAbandoned' /\ FinalStep
       /\ acq'[x] = q /\ \A y \in Acq : y # x => acq'[y] = acq[y]
       /\ worker'[w] = j /\ \A v \in Worker : v # w => worker'[v] = worker[v]
  BY <1>1, <1>2, <1>8, <1>9, <1>10, <1>12, <1>13, <1>15, WorkerStep
<1>17. RepliesSeen'
  BY <1>1, <1>2, <1>8, <1>9, <1>12, <1>16, WorkerReplies
<1> QED
  BY <1>15, <1>16, <1>17 DEF IInv

LEMMA DrainStep ==
  ASSUME IInv, NEW w \in Worker, drain(w)
  PROVE  IInv' /\ FinalStep
<1>1. PICK x : x = worker[w].x
  OBVIOUS
<1>2. worker[w].at = "drain"
  BY DEF drain
<1>3. /\ x \in Acq /\ x \in 1 .. made /\ worker[w] \in Job /\ acq \in [Acq -> Inbound]
      /\ acq[x] \in Inbound /\ Sound(acq[x], have[acq[x].hash]) /\ made \in Nat
  BY <1>1, <1>2, JobHolds, MadeIsAcq DEF IInv, TypeOK
<1>4. UNCHANGED <<replies, have, made, mLedgers, dataJobs, doneJobs, reported, returned>>
  BY DEF drain
<1> DEFINE Drained(q) ==
             /\ q \in Inbound /\ q.hash = acq[x].hash /\ q.got = acq[x].got
             /\ q.mComplete = acq[x].mComplete /\ q.mFailed = acq[x].mFailed
             /\ q.mSignaled = acq[x].mSignaled /\ q.timer = acq[x].timer
             /\ q.mTimeouts = acq[x].mTimeouts /\ q.mProgress = acq[x].mProgress
             /\ q.mReceivedData = {}
<1>5. ASSUME NEW q, Drained(q), Becomes(x, q), NEW j \in Job, goto(w, j), j.x = 0 \/ j.x = x,
             j.at = "idle" \/ (j.at \in {"process", "trigger"} /\ j.x = x),
             ~q.mReceiveDispatched \/ j.at = "process"
      PROVE  IInv' /\ FinalStep
  <2>1. isDone(q) <=> isDone(acq[x])
    BY <1>5 DEF isDone
  <2>2. Sound(q, have'[q.hash]) /\ Advances(acq[x], q) /\ SameSignal(acq[x], q)
    BY <1>3, <1>4, <1>5, <2>1 DEF Sound, Advances, SameSignal
  <2>3. JobIsSound(j, acq', have')
    BY <1>3, <1>5 DEF JobIsSound
  <2>4. /\ have' \in [Ledger -> SUBSET Part] /\ \A h \in Ledger : have[h] \subseteq have'[h]
        /\ doneJobs' \in [Acq -> Nat] /\ \A y \in Acq : y # x => doneJobs'[y] = doneJobs[y]
        /\ UNCHANGED <<replies, made, mLedgers, dataJobs, reported, returned>>
    BY <1>4 DEF IInv, TypeOK
  <2>5. /\ TypeOK' /\ ObjectsSound' /\ NotMadeIsNew' /\ SignalledIsDone' /\ JobsSound'
        /\ OneInList' /\ NotAbandoned' /\ FinalStep
        /\ acq'[x] = q /\ \A y \in Acq : y # x => acq'[y] = acq[y]
        /\ worker'[w] = j /\ \A v \in Worker : v # w => worker'[v] = worker[v]
    BY <1>1, <1>2, <1>5, <2>2, <2>3, <2>4, WorkerStep
  <2>6. OutcomesSeen'
    BY <1>1, <1>2, <1>4, <2>1, <2>2, <2>5, WorkerOutcomes
  <2>7. RepliesSeen'
    <3> SUFFICES ASSUME NEW y \in mLedgers
                 PROVE  /\ acq'[y].mReceivedData # {} => acq'[y].mReceiveDispatched
                        /\ acq'[y].mReceiveDispatched => dataJobs[acq'[y].hash] > 0 \/ TakesReplies(y)'
      BY <1>4 DEF RepliesSeen
    <3>1. /\ acq[y].mReceivedData # {} => acq[y].mReceiveDispatched
          /\ acq[y].mReceiveDispatched => dataJobs[acq[y].hash] > 0 \/ TakesReplies(y)
          /\ y \in Acq
      BY MadeIsAcq DEF IInv, RepliesSeen, TypeOK
    <3>2. CASE y # x
      <4>1. acq'[y] = acq[y]
        BY <2>5, <3>1, <3>2
      <4>2. TakesReplies(y) => TakesReplies(y)'
        BY <1>1, <2>5, <3>2 DEF TakesReplies
      <4> QED
        BY <3>1, <4>1, <4>2
    <3>3. CASE y = x
      <4>1. acq'[y].mReceivedData = {} /\ acq'[y].mReceiveDispatched = q.mReceiveDispatched
        BY <1>5, <2>5, <3>3
      <4>2. j.at = "process" => TakesReplies(y)'
        BY <1>5, <2>5, <3>3 DEF TakesReplies
      <4> QED
        BY <1>5, <4>1, <4>2
    <3> QED
      BY <3>2, <3>3
  <2> QED
    BY <2>5, <2>6, <2>7 DEF IInv
<1>6. NoJob \in Job /\ NoJob.x = 0 /\ NoJob.at = "idle"
  BY NoJobSound DEF IInv
<1>7. CASE acq[x].mReceivedData = {}
  <2>1. PICK q : q = drainFlag(acq[x])
    OBVIOUS
  <2>2. Drained(q) /\ ~q.mReceiveDispatched
    BY <1>3, <1>7, <2>1 DEF drainFlag, Inbound
  <2>3. PICK j : j = IF worker[w].chosenPeer THEN [NoJob EXCEPT !.at = "trigger", !.x = x] ELSE NoJob
    OBVIOUS
  <2>4. Becomes(x, q) /\ goto(w, j)
    BY <1>1, <1>7, <2>1, <2>3 DEF drain, Becomes
  <2>5. CASE worker[w].chosenPeer
    <3>1. x \in 0 .. made /\ j = [NoJob EXCEPT !.at = "trigger", !.x = x]
      BY <1>3, <2>3, <2>5
    <3>2. j \in Job /\ j.x = x /\ j.at = "trigger"
      BY <1>6, <3>1 DEF Job
    <3> QED
      BY <1>5, <2>2, <2>4, <3>2
  <2>6. CASE ~worker[w].chosenPeer
    BY <1>5, <1>6, <2>2, <2>3, <2>4, <2>6
  <2> QED
    BY <2>5, <2>6
<1>8. CASE acq[x].mReceivedData # {}
  <2>1. PICK q : q = [acq[x] EXCEPT !.mReceivedData = {}]
    OBVIOUS
  <2>2. Drained(q)
    BY <1>3, <2>1 DEF Inbound
  <2>3. PICK j : j = [worker[w] EXCEPT !.at = "process", !.data = acq[x].mReceivedData]
    OBVIOUS
  <2>4. j \in Job /\ j.x = x /\ j.at = "process"
    BY <1>1, <1>3, <2>3 DEF Job, Inbound
  <2>5. Becomes(x, q) /\ goto(w, j)
    BY <1>1, <1>3, <1>8, <2>1, <2>3 DEF drain, Becomes
  <2> QED
    BY <1>5, <2>2, <2>4, <2>5
<1> QED
  BY <1>7, <1>8

LEMMA DoLedgerDataStep ==
  ASSUME IInv, NEW w \in Worker, NEW h \in Ledger, doLedgerData(w, h)
  PROVE  IInv' /\ FinalStep
<1>1. /\ worker[w].at = "idle" /\ dataJobs[h] > 0 /\ dataJobs \in [Ledger -> Nat]
      /\ dataJobs' = [dataJobs EXCEPT ![h] = dataJobs[h] - 1]
      /\ UNCHANGED <<replies, have, acq, made, mLedgers, doneJobs, reported, returned>>
  BY DEF doLedgerData, IInv, TypeOK
<1>2. /\ dataJobs' \in [Ledger -> Nat] /\ \A g \in Ledger : g # h => dataJobs'[g] = dataJobs[g]
  BY <1>1
<1>3. mLedgers \subseteq Acq /\ worker \in [Worker -> Job] /\ made \in Nat
  BY MadeIsAcq DEF IInv, TypeOK
<1>4. /\ ObjectsSound' /\ NotMadeIsNew' /\ OneInList' /\ NotAbandoned' /\ FinalStep
  BY <1>1 DEF IInv, ObjectsSound, NotMadeIsNew, OneInList, NotAbandoned, FinalStep
<1>5. CASE find(h) = {} /\ UNCHANGED worker
  <2>1. TypeOK' /\ SignalledIsDone' /\ JobsSound' /\ OutcomesSeen'
    BY <1>1, <1>2, <1>5 DEF IInv, TypeOK, Job, SignalledIsDone, alive, held, JobsSound,
                            OutcomesSeen, OnTheWay
  <2>2. RepliesSeen'
    <3>1. \A y \in mLedgers : acq[y].hash # h /\ acq[y].hash \in Ledger
      BY <1>3, <1>5, AliveObject DEF find
    <3>2. \A y \in mLedgers : dataJobs'[acq[y].hash] = dataJobs[acq[y].hash]
      BY <1>2, <3>1
    <3> QED
      BY <1>1, <1>5, <3>2 DEF IInv, RepliesSeen, TakesReplies
  <2> QED
    BY <1>4, <2>1, <2>2 DEF IInv
<1>6. ASSUME NEW x \in find(h), goto(w, [NoJob EXCEPT !.at = "drain", !.x = x])
      PROVE  IInv' /\ FinalStep
  <2>1. PICK j : j = [NoJob EXCEPT !.at = "drain", !.x = x]
    OBVIOUS
  <2>2. x \in mLedgers /\ acq[x].hash = h /\ x \in Acq /\ x \in 1 .. made
    BY <1>3 DEF find, IInv, TypeOK
  <2>3. j \in Job /\ j.x = x /\ j.at = "drain"
    <3>1. NoJob \in Job
      BY NoJobSound DEF IInv
    <3>2. x \in 0 .. made
      BY <1>3, <2>2
    <3> QED
      BY <2>1, <3>1, <3>2 DEF Job
  <2>4. /\ worker' \in [Worker -> Job] /\ worker'[w] = j
        /\ \A v \in Worker : v # w => worker'[v] = worker[v]
    BY <1>3, <1>6, <2>1, <2>3 DEF goto
  <2>5. TypeOK'
    BY <1>1, <1>2, <2>4 DEF IInv, TypeOK, Job
  <2>6. \A y \in Acq : alive(y)' => alive(y)
    BY <1>1, <2>2, <2>3, <2>4 DEF alive, held
  <2>7. SignalledIsDone'
    BY <1>1, <2>6 DEF IInv, SignalledIsDone
  <2>8. JobsSound'
    <3>1. JobIsSound(j, acq, have)
      BY <1>3, <2>2, <2>3 DEF JobIsSound
    <3> SUFFICES ASSUME NEW v \in Worker PROVE JobIsSound(worker'[v], acq, have)
      BY <1>1 DEF JobsSound
    <3> QED
      BY <2>4, <3>1 DEF IInv, JobsSound
  <2>9. OutcomesSeen'
    <3>1. \A y \in Acq : OnTheWay(y) => OnTheWay(y)'
      BY <1>1, <2>4 DEF OnTheWay
    <3> QED
      BY <1>1, <3>1 DEF IInv, OutcomesSeen
  <2>10. RepliesSeen'
    <3> SUFFICES ASSUME NEW y \in mLedgers
                 PROVE  /\ acq[y].mReceivedData # {} => acq[y].mReceiveDispatched
                        /\ acq[y].mReceiveDispatched => dataJobs'[acq[y].hash] > 0 \/ TakesReplies(y)'
      BY <1>1 DEF RepliesSeen
    <3>1. /\ acq[y].mReceivedData # {} => acq[y].mReceiveDispatched
          /\ acq[y].mReceiveDispatched => dataJobs[acq[y].hash] > 0 \/ TakesReplies(y)
      BY DEF IInv, RepliesSeen
    <3>2. TakesReplies(y) => TakesReplies(y)'
      BY <1>1, <2>4 DEF TakesReplies
    <3>3. CASE y = x
      <4>1. TakesReplies(y)'
        BY <2>3, <2>4, <3>3 DEF TakesReplies
      <4> QED
        BY <3>1, <4>1
    <3>4. CASE y # x
      <4>1. acq[y].hash # h /\ acq[y].hash \in Ledger
        BY <1>3, <2>2, <3>4, AliveObject DEF IInv, OneInList
      <4> QED
        BY <1>2, <3>1, <3>2, <4>1
    <3> QED
      BY <3>3, <3>4
  <2> QED
    BY <1>4, <2>5, <2>7, <2>8, <2>9, <2>10 DEF IInv
<1> QED
  BY <1>5, <1>6 DEF doLedgerData

-----------------------------------------------------------------------------
(***************************************************************************)
(* The list: an acquisition that nobody holds any more is destroyed.       *)
(***************************************************************************)
LEMMA GoneSound ==
  ASSUME NEW o \in Inbound, NEW parts
  PROVE  Sound(Gone(o), parts) /\ Gone(o) \in Inbound /\ Gone(o).hash = o.hash /\ ~isDone(Gone(o))
<1>1. o.hash \in Ledger
  BY DEF Inbound
<1>2. PICK n : n = NewAcq(o.hash)
  OBVIOUS
<1>3. Sound(n, parts) /\ n.hash = o.hash /\ ~isDone(n) /\ n \in Inbound
  BY <1>1, <1>2, NewAcqSound DEF Sound
<1>4. PICK g : g = [n EXCEPT !.mSignaled = TRUE]
  OBVIOUS
<1>5. /\ g \in Inbound /\ g.hash = n.hash /\ g.got = n.got /\ g.mComplete = n.mComplete
      /\ g.mFailed = n.mFailed /\ g.mTimeouts = n.mTimeouts /\ g.mProgress = n.mProgress
  BY <1>3, <1>4 DEF Inbound
<1>6. Gone(o) = g
  BY <1>2, <1>4 DEF Gone
<1>7. ~isDone(g)
  BY <1>3, <1>5 DEF isDone
<1>8. Sound(g, parts)
  BY <1>3, <1>5, <1>7 DEF Sound
<1> QED
  BY <1>3, <1>5, <1>6, <1>7, <1>8

LEMMA Removed ==
  ASSUME IInv, NEW x \in Acq, x <= made, ~held(x), destroyed(x), mLedgers' = mLedgers \ {x},
         UNCHANGED <<replies, made, dataJobs, doneJobs, reported, returned, worker>>
  PROVE  IInv' /\ FinalStep
<1>1. /\ acq \in [Acq -> Inbound] /\ acq[x] \in Inbound /\ acq[x].hash \in Ledger
      /\ mLedgers \subseteq Acq
  BY AliveObject, MadeIsAcq DEF IInv, TypeOK
<1>2. PICK g : g = Gone(acq[x])
  OBVIOUS
<1>3. g \in Inbound /\ g.hash = acq[x].hash /\ ~isDone(g) /\ \A parts : Sound(g, parts)
  BY <1>1, <1>2, GoneSound
<1>4. /\ acq' \in [Acq -> Inbound] /\ acq'[x] = g /\ \A y \in Acq : y # x => acq'[y] = acq[y]
  BY <1>1, <1>2, <1>3 DEF destroyed
<1>5. have' \in [Ledger -> SUBSET Part] /\ \A h \in Ledger : have[h] \subseteq have'[h]
  BY <1>1 DEF destroyed, IInv, TypeOK, Part
<1>6. \A y \in Acq : alive(y)' => alive(y) /\ y # x
  BY DEF alive, held
<1>7. TypeOK'
  BY <1>4, <1>5 DEF IInv, TypeOK, Job
<1>8. ObjectsSound'
  <2> SUFFICES ASSUME NEW y \in Acq PROVE Sound(acq'[y], have'[acq'[y].hash])
    BY DEF ObjectsSound
  <2>1. CASE y = x
    BY <1>3, <1>4, <2>1
  <2>2. CASE y # x
    <3>1. Sound(acq[y], have[acq[y].hash]) /\ acq[y].hash \in Ledger
      BY AliveObject
    <3> QED
      BY <1>4, <1>5, <2>2, <3>1, SoundGrows
  <2> QED
    BY <2>1, <2>2
<1>9. NotMadeIsNew'
  <2>1. x \in Nat /\ made \in Nat
    BY MadeIsAcq DEF IInv
  <2> QED
    BY <1>4, <2>1 DEF IInv, NotMadeIsNew
<1>10. SignalledIsDone'
  BY <1>4, <1>6 DEF IInv, SignalledIsDone
<1>11. JobsSound'
  <2> SUFFICES ASSUME NEW v \in Worker PROVE JobIsSound(worker[v], acq', have')
    BY DEF JobsSound
  <2>1. JobIsSound(worker[v], acq, have)
    BY DEF IInv, JobsSound
  <2>2. CASE worker[v].at = "idle"
    BY <2>2 DEF JobIsSound
  <2>3. CASE worker[v].at # "idle"
    <3>1. worker[v].x \in Acq /\ worker[v].x # x
      BY <2>3, JobHolds DEF held
    <3>2. acq'[worker[v].x] = acq[worker[v].x] /\ acq[worker[v].x].hash \in Ledger
      BY <1>4, <3>1, AliveObject
    <3>3. have[acq[worker[v].x].hash] \subseteq have'[acq[worker[v].x].hash]
      BY <1>5, <3>2
    <3> QED
      BY <2>1, <3>2, <3>3 DEF JobIsSound
  <2> QED
    BY <2>2, <2>3
<1>12. OneInList' /\ NotAbandoned' /\ RepliesSeen'
  <2>1. \A y \in mLedgers' : y \in mLedgers /\ y \in Acq /\ acq'[y] = acq[y]
    BY <1>1, <1>4
  <2>2. OneInList'
    BY <2>1 DEF IInv, OneInList
  <2>3. NotAbandoned'
    BY <2>1 DEF IInv, NotAbandoned
  <2>4. RepliesSeen'
    BY <2>1 DEF IInv, RepliesSeen, TakesReplies
  <2> QED
    BY <2>2, <2>3, <2>4
<1>13. OutcomesSeen'
  <2>1. \A y \in Acq : OnTheWay(y) => OnTheWay(y)'
    BY DEF OnTheWay
  <2> QED
    BY <1>3, <1>4, <2>1 DEF IInv, OutcomesSeen
<1>14. FinalStep
  BY <1>4, <1>6 DEF FinalStep
<1> QED
  BY <1>7, <1>8, <1>9, <1>10, <1>11, <1>12, <1>13, <1>14 DEF IInv

LEMMA SweepStep ==
  ASSUME IInv, NEW x \in Acq, sweep(x)
  PROVE  IInv' /\ FinalStep
<1>1. /\ x \in mLedgers /\ mLedgers' = mLedgers \ {x}
      /\ UNCHANGED <<replies, made, dataJobs, doneJobs, reported, returned, worker>>
  BY DEF sweep
<1>2. CASE held(x)
  <2>1. UNCHANGED <<have, acq>>
    BY <1>2 DEF sweep
  <2>2. TypeOK'
    BY <1>1, <2>1 DEF IInv, TypeOK, Job
  <2>3. \A y \in Acq : alive(y)' => alive(y)
    BY <1>1 DEF alive, held
  <2>4. /\ ObjectsSound' /\ NotMadeIsNew' /\ JobsSound' /\ OneInList' /\ RepliesSeen'
        /\ NotAbandoned' /\ OutcomesSeen' /\ FinalStep
    BY <1>1, <2>1 DEF IInv, ObjectsSound, NotMadeIsNew, JobsSound, OneInList, RepliesSeen, TakesReplies,
                      NotAbandoned, OutcomesSeen, OnTheWay, FinalStep
  <2>5. SignalledIsDone'
    BY <2>1, <2>3 DEF IInv, SignalledIsDone
  <2> QED
    BY <2>2, <2>4, <2>5 DEF IInv
<1>3. CASE ~held(x)
  <2>1. destroyed(x)
    BY <1>3 DEF sweep
  <2>2. x <= made
    BY <1>1, MadeIsAcq DEF IInv, TypeOK
  <2> QED
    BY <1>1, <1>3, <2>1, <2>2, Removed
<1> QED
  BY <1>2, <1>3

LEMMA DestroyStep ==
  ASSUME IInv, NEW x \in Acq, destroy(x)
  PROVE  IInv' /\ FinalStep
<1>1. /\ x <= made /\ ~held(x) /\ x \notin mLedgers /\ destroyed(x)
      /\ UNCHANGED <<replies, made, mLedgers, dataJobs, doneJobs, reported, returned, worker>>
  BY DEF destroy, alive
<1>2. mLedgers' = mLedgers \ {x}
  BY <1>1
<1> QED
  BY <1>1, <1>2, Removed

(***************************************************************************)
(* What acquire finds is returned or fails; else the timer is set.         *)
(***************************************************************************)
LEMMA AcquiredObject ==
  ASSUME IInv, NEW h \in Ledger, NEW reason \in Reason, acquire(h, reason)
  PROVE  \E q \in Inbound :
           /\ acq' = [acq EXCEPT ![made'] = q] /\ q.hash = h /\ Sound(q, have[h])
           /\ q.mReceivedData = {} /\ ~q.mReceiveDispatched
           /\ isDone(q) \/ q.timer
           /\ q.mSignaled => isDone(q)
           /\ reported' \in {reported, reported \cup {made'}}
           /\ returned' \in {returned, returned \cup {made'}}
           /\ \/ UNCHANGED doneJobs /\ (made' \in returned' \/ Silent(q))
              \/ /\ isDone(q) => q.mSignaled \/ Silent(q)
                 /\ doneJobs' = [doneJobs EXCEPT ![made'] =
                                   @ + IF q.mSignaled /\ ~acq[made'].mSignaled THEN 1 ELSE 0]
<1>1. PICK n : n = NewAcq(h)
  OBVIOUS
<1>2. /\ Sound(n, have[h]) /\ n.hash = h /\ ~isDone(n) /\ ~n.mSignaled
      /\ n.mReceivedData = {} /\ ~n.mReceiveDispatched
  BY <1>1, NewAcqSound
<1>3. have[h] \subseteq Part
  BY DEF IInv, TypeOK
<1>4. PICK o : o = tryLocal(n)
  OBVIOUS
<1>5. Carries(n, o, have[h]) /\ SameSignal(n, o) /\ (o.mFailed => h \in NotLedger \cup NoState)
  BY <1>2, <1>3, <1>4, TryLocalSound
<1>6. /\ o \in Inbound /\ o.hash = h /\ Sound(o, have[h]) /\ ~o.mSignaled
      /\ o.mReceivedData = {} /\ ~o.mReceiveDispatched
  BY <1>2, <1>5 DEF Carries, Sound, SameSignal, SameStash, Advances
<1>7. CASE isDone(o)
  <2>1. /\ acq' = [acq EXCEPT ![made'] = o] /\ UNCHANGED doneJobs
        /\ returned' = IF o.mFailed THEN returned ELSE returned \cup {made'}
        /\ reported' = IF o.mFailed \/ ~tells(reason) THEN reported ELSE reported \cup {made'}
    BY <1>1, <1>4, <1>7 DEF acquire
  <2>2. made' \in returned' \/ Silent(o)
    BY <1>5, <1>6, <2>1 DEF Silent
  <2> QED
    BY <1>6, <1>7, <2>1, <2>2
<1>8. CASE ~isDone(o)
  <2>1. PICK f \in BOOLEAN :
          LET p == IF reason = "fcHISTORY" THEN o ELSE trigger(o, f) IN
          update(made', [p EXCEPT !.timer = TRUE]) /\ UNCHANGED <<reported, returned>>
    BY <1>1, <1>4, <1>8 DEF acquire
  <2>3. PICK p : p = IF reason = "fcHISTORY" THEN o ELSE trigger(o, f)
    OBVIOUS
  <2>4. Carries(o, p, have[h]) /\ Announces(o, p)
    <3>1. CASE reason = "fcHISTORY"
      BY <1>6, <2>3, <3>1, CarriesReflexive
    <3>2. CASE reason # "fcHISTORY"
      BY <1>3, <1>6, <2>3, <3>2, TriggerSound
    <3> QED
      BY <3>1, <3>2
  <2>5. /\ p \in Inbound /\ p.hash = h /\ Sound(p, have[h]) /\ p.mReceivedData = {}
        /\ ~p.mReceiveDispatched /\ (p.mSignaled => isDone(p)) /\ (isDone(p) => p.mSignaled \/ Silent(p))
    BY <1>6, <1>8, <2>4 DEF Carries, Sound, SameStash, Advances, Announces
  <2>6. PICK q : q = [p EXCEPT !.timer = TRUE]
    OBVIOUS
  <2>7. /\ q \in Inbound /\ q.hash = p.hash /\ q.got = p.got /\ q.mComplete = p.mComplete
        /\ q.mFailed = p.mFailed /\ q.mSignaled = p.mSignaled /\ q.mReceivedData = p.mReceivedData
        /\ q.mReceiveDispatched = p.mReceiveDispatched /\ q.timer
        /\ q.mTimeouts = p.mTimeouts /\ q.mProgress = p.mProgress
    BY <2>5, <2>6 DEF Inbound
  <2>8. (isDone(q) <=> isDone(p)) /\ (Silent(q) <=> Silent(p))
    BY <2>7 DEF isDone, Silent
  <2>9. Sound(q, have[h])
    BY <2>5, <2>7, <2>8 DEF Sound
  <2>10. update(made', q) /\ reported' = reported /\ returned' = returned
    BY <2>1, <2>3, <2>6
  <2> QED
    BY <2>5, <2>7, <2>8, <2>9, <2>10 DEF update
<1> QED
  BY <1>7, <1>8

LEMMA AcquireStep ==
  ASSUME IInv, NEW h \in Ledger, NEW reason \in Reason, acquire(h, reason)
  PROVE  IInv' /\ FinalStep
<1>1. /\ find(h) = {} /\ made + 1 \in Acq /\ made' = made + 1 /\ mLedgers' = mLedgers \cup {made'}
      /\ UNCHANGED <<replies, have, dataJobs, worker>>
  BY DEF acquire
<1>2. PICK n : n = made + 1
  OBVIOUS
<1>3. /\ made \in Nat /\ n \in Acq /\ n \in Nat /\ n > made /\ n >= 1 /\ made' = n
      /\ acq \in [Acq -> Inbound] /\ doneJobs \in [Acq -> Nat] /\ mLedgers \subseteq Acq
      /\ worker \in [Worker -> Job]
  BY <1>1, <1>2, MadeIsAcq DEF IInv, TypeOK
<1>4. /\ acq[n] = NewAcq(acq[n].hash) /\ doneJobs[n] = 0 /\ acq[n].hash \in Ledger
  BY <1>3, AliveObject DEF IInv, NotMadeIsNew
<1>5. ~isDone(acq[n]) /\ ~acq[n].mSignaled
  BY <1>4, NewAcqSound
<1>6. ~alive(n) /\ n \notin mLedgers
  <2>1. n \notin 1 .. made
    BY <1>3
  <2> QED
    BY <1>3, <2>1, AliveIsMade DEF alive
<1>7. PICK q \in Inbound :
        /\ acq' = [acq EXCEPT ![n] = q] /\ q.hash = h /\ Sound(q, have[h])
        /\ q.mReceivedData = {} /\ ~q.mReceiveDispatched
        /\ isDone(q) \/ q.timer
        /\ q.mSignaled => isDone(q)
        /\ reported' \in {reported, reported \cup {n}} /\ returned' \in {returned, returned \cup {n}}
        /\ \/ UNCHANGED doneJobs /\ (n \in returned' \/ Silent(q))
           \/ /\ isDone(q) => q.mSignaled \/ Silent(q)
              /\ doneJobs' = [doneJobs EXCEPT ![n] = @ + IF q.mSignaled /\ ~acq[n].mSignaled THEN 1 ELSE 0]
  BY <1>3, AcquiredObject
<1>8. acq' \in [Acq -> Inbound] /\ acq'[n] = q /\ \A y \in Acq : y # n => acq'[y] = acq[y]
  BY <1>3, <1>7
<1>9. /\ doneJobs' \in [Acq -> Nat] /\ \A y \in Acq : y # n => doneJobs'[y] = doneJobs[y]
      /\ isDone(q) => n \in returned' \/ doneJobs'[n] > 0 \/ Silent(q)
      /\ reported \subseteq reported' /\ reported' \subseteq reported \cup {n}
      /\ returned \subseteq returned' /\ returned' \subseteq returned \cup {n}
  <2>0. /\ reported \subseteq reported' /\ reported' \subseteq reported \cup {n}
        /\ returned \subseteq returned' /\ returned' \subseteq returned \cup {n}
    BY <1>7
  <2>1. CASE UNCHANGED doneJobs /\ (n \in returned' \/ Silent(q))
    BY <1>3, <2>0, <2>1
  <2>2. CASE /\ isDone(q) => q.mSignaled \/ Silent(q)
             /\ doneJobs' = [doneJobs EXCEPT ![n] = @ + IF q.mSignaled /\ ~acq[n].mSignaled THEN 1 ELSE 0]
    <3>1. CASE q.mSignaled
      <4>1. doneJobs' = [doneJobs EXCEPT ![n] = 1]
        BY <1>3, <1>4, <1>5, <2>2, <3>1
      <4> QED
        BY <1>3, <2>0, <2>2, <4>1
    <3>2. CASE ~q.mSignaled
      <4>1. doneJobs' = [doneJobs EXCEPT ![n] = 0]
        BY <1>3, <1>4, <2>2, <3>2
      <4> QED
        BY <1>3, <2>0, <2>2, <3>2, <4>1
    <3> QED
      BY <3>1, <3>2
  <2> QED
    BY <1>7, <2>1, <2>2
<1>10. TypeOK'
  <2>1. n \in 0 .. Cardinality(Acq)
    <3>1. PICK c \in Nat : c = Cardinality(Acq)
      BY AcquireAssumption, FS_CardinalityType
    <3>2. n \in 1 .. c
      BY <1>3, <3>1, AcquireAssumption
    <3> QED
      BY <3>1, <3>2
  <2>2. 0 .. made \subseteq 0 .. n /\ 1 .. made \subseteq 1 .. n /\ n \in 1 .. n
    BY <1>2, <1>3
  <2>3. Job \subseteq Job'
    BY <1>3, <2>2 DEF Job
  <2>4. mLedgers' \subseteq 1 .. n /\ reported' \subseteq 1 .. n /\ returned' \subseteq 1 .. n
    BY <1>1, <1>3, <1>9, <2>2 DEF IInv, TypeOK
  <2> QED
    BY <1>1, <1>3, <1>8, <1>9, <2>1, <2>3, <2>4 DEF IInv, TypeOK
<1>11. ObjectsSound'
  <2> SUFFICES ASSUME NEW y \in Acq PROVE Sound(acq'[y], have[acq'[y].hash])
    BY <1>1 DEF ObjectsSound
  <2>1. CASE y = n
    BY <1>7, <1>8, <2>1
  <2>2. CASE y # n
    BY <1>8, <2>2, AliveObject
  <2> QED
    BY <2>1, <2>2
<1>12. NotMadeIsNew'
  <2> SUFFICES ASSUME NEW y \in Acq, y > n PROVE acq'[y] = NewAcq(acq'[y].hash) /\ doneJobs'[y] = 0
    BY <1>3 DEF NotMadeIsNew
  <2>1. y > made /\ y # n
    BY <1>3, MadeIsAcq DEF IInv
  <2> QED
    BY <1>8, <1>9, <2>1 DEF IInv, NotMadeIsNew
<1>13. \A y \in Acq : y # n /\ alive(y)' => alive(y)
  BY <1>1, <1>3, <1>9 DEF alive, held
<1>14. SignalledIsDone'
  <2> SUFFICES ASSUME NEW y \in Acq, alive(y)', acq'[y].mSignaled PROVE isDone(acq'[y])
    BY DEF SignalledIsDone
  <2>1. CASE y = n
    BY <1>7, <1>8, <2>1
  <2>2. CASE y # n
    BY <1>8, <1>13, <2>2 DEF IInv, SignalledIsDone
  <2> QED
    BY <2>1, <2>2
<1>15. JobsSound'
  <2> SUFFICES ASSUME NEW v \in Worker PROVE JobIsSound(worker[v], acq', have)
    BY <1>1 DEF JobsSound
  <2>1. JobIsSound(worker[v], acq, have)
    BY DEF IInv, JobsSound
  <2>2. CASE worker[v].at = "idle"
    BY <2>2 DEF JobIsSound
  <2>3. CASE worker[v].at # "idle"
    <3>1. worker[v].x \in Acq /\ worker[v].x # n
      BY <1>6, <2>3, JobHolds
    <3>2. acq'[worker[v].x] = acq[worker[v].x]
      BY <1>8, <3>1
    <3> QED
      BY <2>1, <3>2 DEF JobIsSound
  <2> QED
    BY <2>2, <2>3
<1>16. \A y \in mLedgers : y # n /\ acq'[y] = acq[y] /\ acq[y].hash # h
  BY <1>1, <1>3, <1>6, <1>8 DEF find
<1>17. OneInList' /\ NotAbandoned' /\ RepliesSeen'
  <2>1. \A y \in mLedgers' : y = n \/ y \in mLedgers
    BY <1>1, <1>3
  <2>2. OneInList'
    BY <1>7, <1>8, <1>16, <2>1 DEF IInv, OneInList
  <2>3. NotAbandoned'
    BY <1>7, <1>8, <1>16, <2>1 DEF IInv, NotAbandoned
  <2>4. RepliesSeen'
    BY <1>1, <1>7, <1>8, <1>16, <2>1 DEF IInv, RepliesSeen, TakesReplies
  <2> QED
    BY <2>2, <2>3, <2>4
<1>18. OutcomesSeen'
  <2> SUFFICES ASSUME NEW y \in Acq, isDone(acq'[y])
               PROVE  \/ y \in reported' \cup returned' \/ doneJobs'[y] > 0
                      \/ (~acq'[y].mSignaled /\ OnTheWay(y)') \/ Silent(acq'[y])
    BY DEF OutcomesSeen
  <2>1. CASE y = n
    BY <1>8, <1>9, <2>1
  <2>2. CASE y # n
    <3>1. OnTheWay(y) => OnTheWay(y)'
      BY <1>1 DEF OnTheWay
    <3> QED
      BY <1>8, <1>9, <2>2, <3>1 DEF IInv, OutcomesSeen
  <2> QED
    BY <2>1, <2>2
<1>19. FinalStep
  BY <1>5, <1>8 DEF FinalStep
<1> QED
  BY <1>10, <1>11, <1>12, <1>14, <1>15, <1>17, <1>18, <1>19 DEF IInv

-----------------------------------------------------------------------------
LEMMA InitHolds ==
  ASSUME Init
  PROVE  IInv
<1>1. Cardinality(Acq) \in Nat
  BY AcquireAssumption, FS_CardinalityType
<1>2. PICK h \in Ledger : h = CHOOSE g \in Ledger : TRUE
  BY AcquireAssumption
<1>3. /\ Sound(NewAcq(h), have[h]) /\ NewAcq(h).hash = h /\ ~isDone(NewAcq(h))
      /\ ~NewAcq(h).mSignaled /\ NewAcq(h) \in Inbound
  BY NewAcqSound DEF Sound
<1>4. \A x \in Acq : acq[x] = NewAcq(h)
  BY <1>2 DEF Init
<1>5. acq \in [Acq -> Inbound]
  BY <1>2, <1>3 DEF Init
<1>6. TypeOK
  <2>1. made = 0 /\ NoJob \in Job
    BY DEF Init, NoJob, Job
  <2>2. /\ replies \in 0 .. MaxReplies /\ made \in 0 .. Cardinality(Acq)
    BY <1>1, AcquireAssumption DEF Init
  <2>3. dataJobs \in [Ledger -> Nat] /\ doneJobs \in [Acq -> Nat] /\ have \in [Ledger -> SUBSET Part]
    BY AcquireAssumption DEF Init
  <2>4. worker \in [Worker -> Job]
    BY <2>1 DEF Init
  <2> QED
    BY <1>5, <2>2, <2>3, <2>4 DEF TypeOK, Init
<1>7. ObjectsSound /\ NotMadeIsNew /\ SignalledIsDone /\ OutcomesSeen
  BY <1>3, <1>4 DEF Init, ObjectsSound, NotMadeIsNew, SignalledIsDone, OutcomesSeen
<1>8. JobsSound
  BY <1>6, NoJobSound DEF Init, JobsSound
<1>9. OneInList /\ RepliesSeen /\ NotAbandoned
  BY DEF Init, OneInList, RepliesSeen, NotAbandoned
<1> QED
  BY <1>6, <1>7, <1>8, <1>9 DEF IInv

LEMMA NextKeeps ==
  ASSUME IInv, [Next]_vars
  PROVE  IInv' /\ FinalStep
<1>1. ASSUME NEW h \in Ledger, NEW reason \in Reason, acquire(h, reason) PROVE IInv' /\ FinalStep
  BY <1>1, AcquireStep
<1>2. ASSUME NEW h \in Ledger, NEW p \in Part, gotLedgerData(h, p) PROVE IInv' /\ FinalStep
  BY <1>2, LedgerDataStep
<1>3. ASSUME NEW x \in Acq, NEW p \in Part, gotFetchPack(x, p) PROVE IInv' /\ FinalStep
  BY <1>3, FetchPackStep
<1>4. ASSUME NEW x \in Acq, sweep(x) \/ destroy(x) \/ invokeOnTimer(x) \/ LADispatch(x)
      PROVE  IInv' /\ FinalStep
  BY <1>4, SweepStep, DestroyStep, TimerStep, DispatchStep
<1>5. ASSUME NEW w \in Worker, runData(w) PROVE IInv' /\ FinalStep
  BY <1>5, DoLedgerDataStep, DrainStep, ProcessStep, TriggerReplyStep, GetMissingStep, RelockStep,
     DoneReadsStep, DoneSetsStep DEF runData
<1>6. CASE UNCHANGED vars
  <2>1. have' \in [Ledger -> SUBSET Part] /\ \A h \in Ledger : have[h] \subseteq have'[h]
    BY <1>6 DEF vars, IInv, TypeOK
  <2>2. replies' \in 0 .. MaxReplies
    BY <1>6 DEF vars, IInv, TypeOK
  <2> QED
    BY <1>6, <2>1, <2>2, HaveGrows DEF vars
<1> QED
  BY <1>1, <1>2, <1>3, <1>4, <1>5, <1>6 DEF Next

\* Every reachable state satisfies the inductive invariant: types, sound
\* acquisitions and jobs, and what keeps replies and outcomes from being lost
\* (InboundLedgers, InboundLedger and the timer of PeerSet).
THEOREM AcquireInvariance == Spec => []IInv
<1>1. Init => IInv
  BY InitHolds
<1>2. IInv /\ [Next]_vars => IInv'
  BY NextKeeps
<1> QED
  BY <1>1, <1>2, PTL DEF Spec

\* What is called complete is a ledger of which every part is in the node store,
\* whichever of tryLocal, a reply or trigger set mComplete, and one acquisition of
\* a ledger is in the list at a time (acquire).
THEOREM CompleteIsWholeHolds == Spec => []CompleteIsWhole
<1>1. IInv => CompleteIsWhole
  <2> SUFFICES ASSUME IInv PROVE CompleteIsWhole
    OBVIOUS
  <2>1. ASSUME NEW x \in Acq, acq[x].mComplete
        PROVE  storable(acq[x].hash) \subseteq have[acq[x].hash]
    <3>1. Sound(acq[x], have[acq[x].hash])
      BY AliveObject
    <3>2. Part \subseteq acq[x].got
      BY <2>1, <3>1 DEF Sound, Part
    <3>3. storable(acq[x].hash) \subseteq Part
      BY DEF storable, needed
    <3> QED
      BY <3>1, <3>2, <3>3 DEF Sound
  <2> QED
    BY <2>1 DEF IInv, OneInList, CompleteIsWhole
<1> QED
  BY <1>1, AcquireInvariance, PTL

\* A stashed reply has a job that will look at it, and an acquisition in the list
\* without an outcome has its timer set (gotData against runData; invokeOnTimer).
THEOREM NothingForgottenHolds == Spec => []NothingForgotten
<1>1. IInv => NothingForgotten
  BY DEF IInv, RepliesSeen, TakesReplies, NothingForgotten, NoReplyForgotten
<1> QED
  BY <1>1, AcquireInvariance, PTL

\* No outcome is lost between the done under the lock and the one without it.
THEOREM NoOutcomeLostHolds == Spec => []NoOutcomeLost
<1>1. IInv => NoOutcomeLost
  BY DEF IInv, OutcomesSeen, OnTheWay, NoOutcomeLost
<1> QED
  BY <1>1, AcquireInvariance, PTL

\* An outcome is final as long as anybody holds the acquisition, also for the job
\* that took the lock again in trigger.
THEOREM OutcomeIsFinalHolds == Spec => OutcomeIsFinal
<1> DEFINE Final == \A x \in Acq : isDone(acq[x]) /\ alive(x)' =>
                      /\ acq'[x].mComplete = acq[x].mComplete /\ acq'[x].mFailed = acq[x].mFailed
<1>1. IInv /\ [Next]_vars => [Final]_vars
  BY NextKeeps DEF FinalStep
<1> HIDE DEF Final
<1>2. Spec => [][Final]_vars
  BY <1>1, AcquireInvariance, PTL DEF Spec
<1> QED
  BY <1>2 DEF OutcomeIsFinal, Final

=============================================================================
