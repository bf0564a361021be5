------------------------- MODULE OnlineDeleteProofs -------------------------
(***************************************************************************)
(* Proofs about online deletion, for every sequence of ledgers, every      *)
(* delete interval and batch, and every number of crashes.                 *)
(***************************************************************************)
EXTENDS OnlineDelete, FiniteSetTheorems, TLAPS

(***************************************************************************)
(* The backends: the two that state_db_ names exist and differ, the node   *)
(* store uses these two, a pass has its new or its old one beside them,    *)
(* and a directory name is left for the next pass.                         *)
(***************************************************************************)
Named == {state.writable, state.archive}
HasDatabase == state.writable # NoBackend
Waiting == {"loop", "wait", "awake"}
BeforeCopy == {"decide", "clear", "batch"}
AfterCopy == {"freshen", "make", "rotate"}
InPass == BeforeCopy \cup {"copy"} \cup AfterCopy

BackendsKnown ==
  /\ state.archive # NoBackend <=> HasDatabase
  /\ HasDatabase => Named \subseteq dirs /\ state.writable # state.archive
  /\ Running => HasDatabase /\ writable = state.writable /\ archive = state.archive
  /\ ~Running => fullBelow = {} /\ fetch = NoFetch
  /\ run.at # "error"
  /\ run.at = "open" => dirs \subseteq Named
  /\ run.at = "rotate" => run.new \in dirs \ Named
  /\ run.at = "delete" => run.old \in dirs \ Named
  /\ run.at \in Waiting \cup BeforeCopy \cup {"copy", "freshen", "make"} => Backend \ dirs # {}

(***************************************************************************)
(* The validated ledger while a pass is under way: what is only in the     *)
(* archive is in the ledger the pass copies, then in what is left to copy, *)
(* and from then on there is no such node, although ledgers come in.       *)
(***************************************************************************)
PassCopies ==
  /\ valid > 0 => HasDatabase
  /\ newLedger_ \in {0, valid}
  /\ Running => fullBelow \subseteq disk[writable]
  /\ run.at \in InPass => run.ledger \in 1 .. valid
  /\ run.at \in BeforeCopy => Contents[valid] \subseteq disk[writable] \cup Contents[run.ledger]
  /\ run.at = "copy" /\ healthy_ /\ ~stop_ => Contents[valid] \subseteq disk[writable] \cup run.todo
  /\ run.at \in AfterCopy => Contents[valid] \subseteq disk[writable]

\* A node that is fetched and stays in the validated ledger is in the archive.
FetchIsSound ==
  /\ FetchFinds
  /\ fetch.at = "second" /\ fetch.live => /\ valid > 0 /\ fetch.n \subseteq Contents[valid]
                                          /\ fetch.n \subseteq disk[archive]

\* What the pass may delete is old and allowed.
DeletionIsDue ==
  /\ RecentRowsKept /\ deleted <= allowed
  /\ Running => canDelete_ <= allowed
  /\ run.at \in {"clear", "batch"} => /\ run.ledger >= run.lastRotated + DeleteInterval
                                      /\ run.lastRotated - 1 <= allowed

IInv == TypeOK /\ BackendsKnown /\ LastValidatedKept /\ PassCopies /\ FetchIsSound /\ DeletionIsDue

-----------------------------------------------------------------------------
(***************************************************************************)
(* Sets of naturals have a least element, bounded ones a greatest: what    *)
(* Min and Max choose.                                                     *)
(***************************************************************************)
LEMMA LeastNatural ==
  ASSUME NEW T \in SUBSET Nat, T # {}
  PROVE  \E x \in T : \A y \in T : x <= y
<1>1. PICK x \in T : \A y \in T : ~(<<y, x>> \in OpToRel(<, Nat))
  BY WFMin, NatLessThanWellFounded
<1>2. \A y \in T : <<y, x>> \in OpToRel(<, Nat) <=> y < x
  BY DEF OpToRel
<1>3. \A y \in T : ~(y < x)
  BY <1>1, <1>2, Zenon
<1> QED
  BY <1>3

LEMMA MinIsLeast ==
  ASSUME NEW T \in SUBSET Nat, T # {}
  PROVE  Min(T) \in T /\ \A y \in T : Min(T) <= y
  BY LeastNatural DEF Min

LEMMA MaxIsGreatest ==
  ASSUME NEW T \in SUBSET Nat, T # {}, NEW k \in Nat, \A y \in T : y <= k
  PROVE  Max(T) \in T /\ \A y \in T : Max(T) >= y
<1> DEFINE D == {d \in Nat : k - d \in T}
<1>1. D # {}
  <2>1. PICK y \in T : TRUE
    OBVIOUS
  <2>2. k - y \in Nat /\ k - (k - y) = y
    OBVIOUS
  <2> QED
    BY <2>1, <2>2
<1>2. PICK d \in D : \A e \in D : d <= e
  BY <1>1, LeastNatural
<1>3. \A y \in T : y <= k - d
  <2> SUFFICES ASSUME NEW y \in T PROVE y <= k - d
    OBVIOUS
  <2>1. k - y \in Nat /\ k - (k - y) = y
    OBVIOUS
  <2>2. d <= k - y
    BY <1>2, <2>1
  <2> QED
    BY <2>2
<1> QED
  BY <1>3 DEF Max

LEMMA MaxOfTwo ==
  ASSUME NEW a \in Nat, NEW b \in Nat
  PROVE  Max({a, b}) \in {a, b} /\ Max({a, b}) >= a /\ Max({a, b}) >= b
<1>1. {a, b} \in SUBSET Nat /\ {a, b} # {} /\ a + b \in Nat /\ \A y \in {a, b} : y <= a + b
  OBVIOUS
<1>2. Max({a, b}) \in {a, b} /\ \A y \in {a, b} : Max({a, b}) >= y
  BY <1>1, MaxIsGreatest
<1> QED
  BY <1>2

-----------------------------------------------------------------------------
RunState == [at : {"down", "error", "open", "loop", "wait", "awake", "decide", "clear", "batch",
                   "copy", "freshen", "make", "rotate", "delete", "stopped"},
             ledger : 0 .. LastSeq, lastRotated : 0 .. LastSeq, todo : SUBSET Node,
             min : 0 .. LastSeq, new : Names, old : Names]

LEMMA NumberTypes ==
  ASSUME TypeOK
  PROVE  /\ Unlimited \in Nat /\ savedDelete \in 0 .. Unlimited /\ canDelete_ \in 0 .. Unlimited
         /\ allowed \in 0 .. Unlimited /\ deleted \in 0 .. Unlimited
         /\ LastSeq \in Nat /\ valid \in 0 .. LastSeq
         /\ MaxCrashes \in Nat /\ crashes \in 0 .. MaxCrashes
<1>1. {savedDelete, canDelete_, allowed, deleted} \subseteq 0 .. Unlimited
  BY DEF TypeOK
<1>2. valid \in 0 .. LastSeq /\ crashes \in 0 .. MaxCrashes
  BY DEF TypeOK
<1>3. LastSeq \in Nat /\ MaxCrashes \in Nat
  BY OnlineDeleteAssumption
<1> QED
  BY <1>1, <1>2, <1>3 DEF Unlimited

LEMMA FreshFacts ==
  ASSUME NEW used, Backend \ used # {}
  PROVE  fresh(used) \in Backend /\ fresh(used) \notin used
  BY DEF fresh

(***************************************************************************)
(* health: the pass goes on as it should, healthy and not stopping, or the *)
(* thread is back in its loop or stopped.                                  *)
(***************************************************************************)
LEMMA HealthFacts ==
  ASSUME IInv, NEW go \in RunState, go.at \in InPass, checkHealth(go)
  PROVE  /\ run' \in RunState /\ healthy_' \in BOOLEAN
         /\ \/ run' = go /\ healthy_' /\ healthy_ /\ ~stop_
            \/ run'.at = "loop"
            \/ run'.at = "stopped"
         /\ run'.lastRotated = go.lastRotated
<1>1. stop_ \in BOOLEAN /\ healthy_ \in BOOLEAN
  BY DEF IInv, TypeOK
<1>2. \A a \in {"loop", "stopped"} : /\ [go EXCEPT !.at = a] \in RunState
                                     /\ [go EXCEPT !.at = a].at = a
                                     /\ [go EXCEPT !.at = a].lastRotated = go.lastRotated
  BY DEF RunState
<1>3. CASE stop_ /\ run' = [go EXCEPT !.at = "stopped"] /\ UNCHANGED healthy_
  BY <1>1, <1>2, <1>3
<1>4. ASSUME ~stop_, NEW bad \in BOOLEAN, healthy_' = health(bad),
             run' = IF healthy_' THEN go ELSE [go EXCEPT !.at = "loop"]
      PROVE  /\ run' \in RunState /\ healthy_' \in BOOLEAN
             /\ \/ run' = go /\ healthy_' /\ healthy_ /\ ~stop_
                \/ run'.at = "loop"
             /\ run'.lastRotated = go.lastRotated
  BY <1>1, <1>2, <1>4 DEF health
<1> QED
  BY <1>3, <1>4 DEF checkHealth

-----------------------------------------------------------------------------
LEMMA InitInv == Init => IInv
<1> SUFFICES ASSUME Init PROVE IInv
  OBVIOUS
<1>1. TypeOK
  <2>1. NotRunning \in RunState /\ NoFetch \in [at : {"idle", "second", "missed"}, n : SUBSET Node, live : BOOLEAN]
    BY OnlineDeleteAssumption DEF NotRunning, NoFetch, RunState, Names
  <2>2. {savedDelete, canDelete_, allowed, deleted} \subseteq 0 .. Unlimited /\ crashes \in 0 .. MaxCrashes
    BY OnlineDeleteAssumption DEF Init, Unlimited
  <2>3. state \in [writable : Names, archive : Names, lastRotated : 0 .. LastSeq]
    BY OnlineDeleteAssumption DEF Init, Names
  <2>4. disk \in [Backend -> SUBSET Node] /\ valid \in 0 .. LastSeq /\ newLedger_ \in 0 .. LastSeq
    BY OnlineDeleteAssumption DEF Init
  <2> QED
    BY <2>1, <2>2, <2>3, <2>4 DEF Init, TypeOK, Names, RunState
<1>2. BackendsKnown
  BY DEF Init, BackendsKnown, HasDatabase, Running, NotRunning, Waiting, BeforeCopy
<1>3. LastValidatedKept /\ PassCopies
  BY DEF Init, LastValidatedKept, PassCopies, Running, NotRunning, InPass, BeforeCopy, AfterCopy
<1>4. FetchIsSound /\ DeletionIsDue
  BY DEF Init, FetchIsSound, FetchFinds, NoFetch, DeletionIsDue, RecentRowsKept, Running, NotRunning
<1> QED
  BY <1>1, <1>2, <1>3, <1>4 DEF IInv

LEMMA UnchangedInv == IInv /\ UNCHANGED vars => IInv'
<1> SUFFICES ASSUME IInv, UNCHANGED vars PROVE IInv'
  OBVIOUS
<1> USE DEF vars, disks, memory, history, IInv
<1>1. TypeOK'
  BY DEF TypeOK
<1>2. BackendsKnown'
  BY DEF BackendsKnown, HasDatabase, Named, Running
<1>3. LastValidatedKept' /\ PassCopies'
  BY DEF LastValidatedKept, PassCopies, Running, HasDatabase
<1>4. FetchIsSound' /\ DeletionIsDue'
  BY DEF FetchIsSound, FetchFinds, DeletionIsDue, RecentRowsKept, Running
<1> QED
  BY <1>1, <1>2, <1>3, <1>4

\* A start finds the directories that the state names, and leaves no other.
LEMMA DbPathsInv == IInv /\ dbPaths => IInv'
<1> SUFFICES ASSUME IInv, dbPaths PROVE IInv'
  OBVIOUS
<1> DEFINE named == Named \ {NoBackend}
<1>0. /\ run.at = "down" /\ ~Running
      /\ dirs' = dirs \cap named
      /\ disk' = [b \in Backend |-> IF b \in named THEN disk[b] ELSE {}]
      /\ run' = [run EXCEPT !.at = IF named \subseteq dirs THEN "open" ELSE "error"]
      /\ UNCHANGED <<state, savedDelete, rows, valid, memory, fetch, history>>
  BY DEF dbPaths, Goto, Named, Running
<1>t. TypeOK /\ run \in RunState /\ BackendsKnown
  BY DEF IInv, TypeOK, RunState
<1>1. named \subseteq dirs
  BY <1>t DEF BackendsKnown, Named, HasDatabase
<1>2. run' \in RunState /\ run'.at = "open"
  BY <1>0, <1>1, <1>t DEF RunState
<1>3. TypeOK'
  <2>1. disk' \in [Backend -> SUBSET Node] /\ dirs' \subseteq Backend
    BY <1>0, <1>t DEF TypeOK
  <2> QED
    BY <1>0, <1>2, <1>t, <2>1 DEF TypeOK, RunState, memory, history
<1>4. HasDatabase' = HasDatabase /\ Named' = Named /\ ~Running'
  BY <1>0, <1>2 DEF HasDatabase, Named, Running
<1>5. BackendsKnown'
  BY <1>0, <1>1, <1>2, <1>4, <1>t DEF BackendsKnown, memory, Waiting, BeforeCopy, HasDatabase, Named
<1>6. valid > 0 => HasDatabase /\ disk'[state.writable] = disk[state.writable]
                   /\ disk'[state.archive] = disk[state.archive]
  <2> SUFFICES ASSUME valid > 0 PROVE HasDatabase /\ disk'[state.writable] = disk[state.writable]
                   /\ disk'[state.archive] = disk[state.archive]
    OBVIOUS
  <2>1. HasDatabase
    BY DEF IInv, PassCopies
  <2>2. state.writable \in named /\ state.archive \in named /\ named \subseteq Backend
    BY <1>1, <1>t, <2>1 DEF BackendsKnown, HasDatabase, Named, TypeOK
  <2> QED
    BY <1>0, <2>1, <2>2
<1>7. LastValidatedKept' /\ PassCopies'
  BY <1>0, <1>2, <1>4, <1>6 DEF IInv, LastValidatedKept, PassCopies, memory, InPass, BeforeCopy, AfterCopy
<1>8. FetchIsSound' /\ DeletionIsDue'
  BY <1>0, <1>2, <1>4, <1>t DEF IInv, BackendsKnown, FetchIsSound, FetchFinds, NoFetch, DeletionIsDue,
     RecentRowsKept, memory, history
<1> QED
  BY <1>3, <1>5, <1>7, <1>8 DEF IInv

-----------------------------------------------------------------------------
(***************************************************************************)
(* What most steps leave alone.                                            *)
(***************************************************************************)
HasSpare == Waiting \cup BeforeCopy \cup {"copy", "freshen", "make"}

LEMMA SpareIsRunning ==
  /\ \A a \in HasSpare \cup InPass \cup {"delete", "stopped"} : a \notin {"down", "open", "error"}
  /\ \A a \in HasSpare \cup {"stopped"} : a \notin {"rotate", "delete"}
  BY DEF HasSpare, Waiting, BeforeCopy, InPass, AfterCopy

LEMMA BackendsKept ==
  ASSUME IInv, Running, UNCHANGED <<dirs, writable, archive>>,
         state'.writable = state.writable, state'.archive = state.archive,
         \/ run'.at = run.at /\ run'.new = run.new /\ run'.old = run.old
         \/ run.at \in HasSpare /\ run'.at \in HasSpare \cup {"stopped"}
  PROVE  BackendsKnown' /\ Running' /\ HasDatabase' /\ HasDatabase /\ Named' = Named
<1>0. BackendsKnown
  BY DEF IInv
<1>1. Running'
  BY SpareIsRunning DEF Running
<1>2. HasDatabase' /\ HasDatabase /\ Named' = Named
  BY <1>0 DEF BackendsKnown, HasDatabase, Named
<1>3. run'.at # "error" /\ run'.at # "open"
  BY <1>1 DEF Running
<1>4. run'.at = "rotate" => run'.new \in dirs' \ Named'
  BY <1>0, <1>2, SpareIsRunning DEF BackendsKnown
<1>5. run'.at = "delete" => run'.old \in dirs' \ Named'
  BY <1>0, <1>2, SpareIsRunning DEF BackendsKnown
<1>6. run'.at \in HasSpare => Backend \ dirs' # {}
  BY <1>0 DEF BackendsKnown, HasSpare, Waiting, BeforeCopy
<1> QED
  BY <1>0, <1>1, <1>2, <1>3, <1>4, <1>5, <1>6 DEF BackendsKnown, HasSpare

LEMMA LastKept ==
  ASSUME IInv, valid' = valid, \A b \in Backend : disk[b] \subseteq disk'[b],
         state'.writable = state.writable, state'.archive = state.archive
  PROVE  LastValidatedKept'
<1>1. ASSUME valid > 0
      PROVE  state.writable \in Backend /\ state.archive \in Backend
  BY <1>1 DEF IInv, PassCopies, BackendsKnown, HasDatabase, TypeOK, Names
<1> QED
  BY <1>1 DEF IInv, LastValidatedKept

LEMMA FetchKept ==
  ASSUME IInv, Running, UNCHANGED <<fetch, valid, archive>>, disk[archive] \subseteq disk'[archive]
  PROVE  FetchIsSound'
  BY DEF IInv, FetchIsSound, FetchFinds

LEMMA DeletionKept ==
  ASSUME IInv, Running, UNCHANGED <<rows, valid, allowed, deleted, canDelete_>>,
         run'.at \in {"clear", "batch"} => /\ run.at \in {"clear", "batch"}
                                           /\ run'.ledger = run.ledger
                                           /\ run'.lastRotated = run.lastRotated
  PROVE  DeletionIsDue'
  BY DEF IInv, DeletionIsDue, RecentRowsKept

\* The backends that a running server writes to and reads from.
LEMMA RunningFacts ==
  ASSUME IInv, Running
  PROVE  /\ writable \in Backend /\ archive \in Backend /\ writable # archive
         /\ writable = state.writable /\ archive = state.archive
  BY DEF IInv, BackendsKnown, TypeOK, HasDatabase, Names

LEMMA StoredFacts ==
  ASSUME IInv, Running, NEW N \in SUBSET Node, stored(writable, N)
  PROVE  /\ disk' \in [Backend -> SUBSET Node]
         /\ disk'[writable] = disk[writable] \cup N
         /\ \A b \in Backend : disk[b] \subseteq disk'[b]
<1>1. disk \in [Backend -> SUBSET Node] /\ writable \in Backend
  BY RunningFacts DEF IInv, TypeOK
<1>2. disk' = [disk EXCEPT ![writable] = disk[writable] \cup N]
  BY DEF stored
<1> QED
  BY <1>1, <1>2

-----------------------------------------------------------------------------
(***************************************************************************)
(* The node store is opened: with the directories that the state names, or *)
(* the first time with two new ones.                                       *)
(***************************************************************************)
LEMMA MakeDatabaseInv == IInv /\ makeDatabase => IInv'
<1> SUFFICES ASSUME IInv, makeDatabase PROVE IInv'
  OBVIOUS
<1>0. TypeOK /\ BackendsKnown /\ PassCopies
  BY DEF IInv
<1> DEFINE first == state.writable = NoBackend
           w == IF first THEN fresh(dirs) ELSE state.writable
           a == IF first THEN fresh(dirs \cup {w}) ELSE state.archive
<1>1. /\ run.at = "open" /\ ~Running
      /\ dirs' = dirs \cup {w, a} /\ writable' = w /\ archive' = a
      /\ state' = [state EXCEPT !.writable = w, !.archive = a]
      /\ run' = [run EXCEPT !.at = "loop", !.lastRotated = state.lastRotated]
      /\ canDelete_' = (IF AdvisoryDelete THEN savedDelete ELSE Unlimited)
      /\ allowed' = Max({allowed, canDelete_'})
      /\ UNCHANGED <<disk, savedDelete, rows, valid, fullBelow, newLedger_, stop_, healthy_, fetch,
                     deleted, crashes>>
  BY DEF makeDatabase, Running
<1>2. w \in Backend /\ a \in Backend /\ w # a /\ (~first => w = state.writable /\ a = state.archive)
      /\ dirs \subseteq {w, a}
  <2>1. CASE first
    <3>1. dirs = {}
      <4>1. dirs \subseteq {NoBackend} /\ dirs \subseteq Backend
        BY <1>0, <1>1, <2>1 DEF BackendsKnown, HasDatabase, Named, TypeOK
      <4> QED
        BY <4>1, OnlineDeleteAssumption
    <3>2. Backend \ dirs # {}
      BY <3>1, OnlineDeleteAssumption
    <3>3. w \in Backend
      BY <2>1, <3>2, FreshFacts
    <3>4. Backend \ (dirs \cup {w}) # {}
      BY <3>1, <3>3, OnlineDeleteAssumption
    <3>5. a \in Backend /\ a \notin dirs \cup {w}
      <4> HIDE DEF w
      <4> QED
        BY <2>1, <3>4, FreshFacts
    <3> QED
      BY <2>1, <3>1, <3>3, <3>5
  <2>2. CASE ~first
    BY <1>0, <1>1, <2>2 DEF BackendsKnown, HasDatabase, Named, TypeOK, Names
  <2> QED
    BY <2>1, <2>2
<1> HIDE DEF w, a
<1>3. run' \in RunState /\ run'.at = "loop"
  BY <1>0, <1>1 DEF TypeOK, RunState
<1>4. state' \in [writable : Names, archive : Names, lastRotated : 0 .. LastSeq]
      /\ state'.writable = w /\ state'.archive = a
  BY <1>0, <1>1, <1>2 DEF TypeOK, Names
<1>5. /\ canDelete_' \in 0 .. Unlimited /\ allowed' \in 0 .. Unlimited
      /\ allowed' >= allowed /\ allowed' >= canDelete_'
  <2>1. canDelete_' \in 0 .. Unlimited /\ allowed \in 0 .. Unlimited
    BY <1>0, <1>1, NumberTypes
  <2>2. canDelete_' \in Nat /\ allowed \in Nat
    BY <2>1
  <2> QED
    BY <1>1, <2>1, <2>2, MaxOfTwo
<1>6. TypeOK'
  <2>1. dirs' \subseteq Backend /\ writable' \in Names /\ archive' \in Names
    BY <1>0, <1>1, <1>2 DEF TypeOK, Names
  <2>2. {savedDelete', canDelete_', allowed', deleted'} \subseteq 0 .. Unlimited
    BY <1>0, <1>1, <1>5, NumberTypes
  <2> QED
    BY <1>0, <1>1, <1>3, <1>4, <2>1, <2>2 DEF TypeOK, RunState
<1>7. Running' /\ HasDatabase' /\ Named' = {w, a}
  BY <1>2, <1>3, <1>4, OnlineDeleteAssumption DEF Running, HasDatabase, Named
<1>8. BackendsKnown'
  <2>1. Backend \ dirs' # {}
    BY <1>1, <1>2, OnlineDeleteAssumption
  <2> QED
    BY <1>1, <1>2, <1>3, <1>4, <1>7, <2>1, OnlineDeleteAssumption DEF BackendsKnown
<1>9. valid > 0 => ~first
  BY <1>0 DEF PassCopies, HasDatabase
<1>10. LastValidatedKept'
  BY <1>1, <1>2, <1>4, <1>9 DEF IInv, LastValidatedKept
<1>11. PassCopies'
  <2>1. fullBelow' = {}
    BY <1>0, <1>1 DEF BackendsKnown
  <2> QED
    BY <1>0, <1>1, <1>3, <1>7, <2>1 DEF PassCopies, InPass, BeforeCopy, AfterCopy
<1>12. FetchIsSound'
  BY <1>0, <1>1 DEF BackendsKnown, FetchIsSound, FetchFinds, NoFetch
<1>13. DeletionIsDue'
  <2>1. deleted \in Int /\ allowed \in Int /\ allowed' \in Int
    BY <1>0, <1>5, NumberTypes
  <2> QED
    BY <1>1, <1>3, <1>5, <2>1 DEF IInv, DeletionIsDue, RecentRowsKept
<1> QED
  BY <1>6, <1>8, <1>10, <1>11, <1>12, <1>13 DEF IInv

\* Death at any step: nothing in memory matters to what is on disk.
LEMMA CrashInv == IInv /\ crash => IInv'
<1> SUFFICES ASSUME IInv, crash PROVE IInv'
  OBVIOUS
<1>1. /\ writable' = NoBackend /\ archive' = NoBackend /\ fullBelow' = {}
      /\ newLedger_' = 0 /\ stop_' = FALSE /\ healthy_' = TRUE /\ canDelete_' = Unlimited
      /\ run' = NotRunning /\ fetch' = NoFetch /\ crashes' = crashes + 1 /\ crashes < MaxCrashes
      /\ UNCHANGED <<disk, dirs, state, savedDelete, rows, valid, allowed, deleted>>
  BY DEF crash, disks
<1>2. NotRunning \in RunState /\ NotRunning.at = "down" /\ ~Running'
      /\ NoFetch \in [at : {"idle", "second", "missed"}, n : SUBSET Node, live : BOOLEAN]
  BY <1>1, OnlineDeleteAssumption DEF NotRunning, NoFetch, RunState, Names, Running
<1>3. TypeOK'
  <2>1. crashes' \in 0 .. MaxCrashes /\ newLedger_' \in 0 .. LastSeq
    BY <1>1, NumberTypes DEF IInv
  <2>2. {savedDelete', canDelete_', allowed', deleted'} \subseteq 0 .. Unlimited
    BY <1>1, NumberTypes DEF IInv
  <2> QED
    BY <1>1, <1>2, <2>1, <2>2 DEF IInv, TypeOK, RunState, Names
<1>4. BackendsKnown'
  BY <1>1, <1>2 DEF IInv, BackendsKnown, HasDatabase, Named, Waiting, BeforeCopy
<1>5. LastValidatedKept' /\ PassCopies'
  BY <1>1, <1>2 DEF IInv, LastValidatedKept, PassCopies, HasDatabase, InPass, BeforeCopy, AfterCopy
<1>6. FetchIsSound' /\ DeletionIsDue'
  BY <1>1, <1>2 DEF IInv, FetchIsSound, FetchFinds, NoFetch, DeletionIsDue, RecentRowsKept
<1> QED
  BY <1>3, <1>4, <1>5, <1>6 DEF IInv

-----------------------------------------------------------------------------
(***************************************************************************)
(* The next ledger comes in.  What it has beyond the last one, or beyond   *)
(* what is known to be in the writable backend, is written there.          *)
(***************************************************************************)
LEMMA NewLedgerInv ==
  ASSUME IInv, Running, valid < LastSeq, NEW N \in SUBSET Node, stored(writable, N),
         Contents[valid + 1] \subseteq N \cup disk[writable] \cup IF valid = 0 THEN {} ELSE Contents[valid],
         fullBelow' \subseteq N \cup fullBelow,
         onLedgerClosed(valid + 1),
         UNCHANGED <<dirs, state, savedDelete, writable, archive, stop_, healthy_, canDelete_, history>>
  PROVE  IInv'
<1>0. TypeOK /\ BackendsKnown /\ LastValidatedKept /\ PassCopies /\ FetchIsSound /\ DeletionIsDue
  BY DEF IInv
<1>n. LastSeq \in Nat /\ valid \in 0 .. LastSeq /\ valid + 1 \in 1 .. LastSeq
  BY <1>0, NumberTypes
<1>1. /\ valid' = valid + 1 /\ rows' = rows \cup {valid + 1} /\ newLedger_' = valid + 1
      /\ fetch' = [fetch EXCEPT !.live = @ /\ fetch.n \subseteq Contents[valid + 1]]
      /\ run' = IF run.at = "wait" THEN [run EXCEPT !.at = "awake"] ELSE run
      /\ UNCHANGED <<allowed, deleted, crashes>>
  BY DEF onLedgerClosed, history
<1>2. /\ disk' \in [Backend -> SUBSET Node]
      /\ disk'[writable] = disk[writable] \cup N
      /\ \A b \in Backend : disk[b] \subseteq disk'[b]
  BY StoredFacts
<1>3. writable \in Backend /\ archive \in Backend /\ writable = state.writable /\ archive = state.archive
  BY RunningFacts
<1>4. /\ run' \in RunState /\ (run.at # "wait" => run' = run)
      /\ (run.at = "wait" => run'.at = "awake")
  BY <1>0, <1>1 DEF TypeOK, RunState
<1>5. fetch' \in [at : {"idle", "second", "missed"}, n : SUBSET Node, live : BOOLEAN]
      /\ fetch'.at = fetch.at /\ fetch'.n = fetch.n
      /\ (fetch'.live => fetch.live /\ fetch.n \subseteq Contents[valid + 1])
  BY <1>0, <1>1 DEF TypeOK
<1>6. Contents[valid + 1] \subseteq Node
  BY <1>n, OnlineDeleteAssumption
<1>7. TypeOK'
  <2>1. rows' \subseteq 1 .. LastSeq /\ valid' \in 0 .. LastSeq /\ newLedger_' \in 0 .. LastSeq
    BY <1>0, <1>1, <1>n DEF TypeOK
  <2>2. fullBelow' \subseteq Node
    BY <1>0 DEF TypeOK
  <2> QED
    BY <1>0, <1>1, <1>2, <1>4, <1>5, <2>1, <2>2 DEF TypeOK, RunState
<1>8. BackendsKnown' /\ Running' /\ HasDatabase'
  <2>1. \/ run'.at = run.at /\ run'.new = run.new /\ run'.old = run.old
        \/ run.at \in HasSpare /\ run'.at \in HasSpare \cup {"stopped"}
    BY <1>4 DEF HasSpare, Waiting
  <2> QED
    BY <2>1, BackendsKept
<1>9. Contents[valid + 1] \subseteq disk'[writable] \cup IF valid = 0 THEN {} ELSE Contents[valid]
  BY <1>2
<1>10. LastValidatedKept'
  BY <1>0, <1>1, <1>2, <1>3, <1>9, <1>n DEF LastValidatedKept
<1>11. PassCopies'
  <2>1. run'.at \in InPass => run' = run /\ run.at \in InPass /\ run.ledger \in 1 .. valid /\ valid # 0
    BY <1>0, <1>4, <1>n DEF PassCopies, InPass, BeforeCopy, AfterCopy
  <2>2. run'.at \in InPass => Contents[valid'] \subseteq disk'[writable] \cup Contents[valid]
    BY <1>1, <1>9, <2>1
  <2>3. fullBelow' \subseteq disk'[writable]
    BY <1>0, <1>2 DEF PassCopies
  <2>4. run'.at \in BeforeCopy => Contents[valid'] \subseteq disk'[writable] \cup Contents[run'.ledger]
    BY <1>0, <1>2, <2>1, <2>2 DEF PassCopies, InPass
  <2>5. run'.at = "copy" /\ healthy_' /\ ~stop_' => Contents[valid'] \subseteq disk'[writable] \cup run'.todo
    BY <1>0, <1>2, <2>1, <2>2 DEF PassCopies, InPass
  <2>6. run'.at \in AfterCopy => Contents[valid'] \subseteq disk'[writable]
    BY <1>0, <1>2, <2>1, <2>2 DEF PassCopies, InPass
  <2>7. run'.at \in InPass => run'.ledger \in 1 .. valid'
    BY <1>1, <1>n, <2>1
  <2> QED
    BY <1>1, <1>8, <2>3, <2>4, <2>5, <2>6, <2>7 DEF PassCopies
<1>12. FetchIsSound'
  BY <1>0, <1>1, <1>2, <1>3, <1>5, <1>n DEF FetchIsSound, FetchFinds
<1>13. DeletionIsDue'
  <2>1. RecentRowsKept'
    <3> SUFFICES ASSUME NEW s \in 1 .. valid', s > valid' - DeleteInterval
                 PROVE  s \in rows'
      BY DEF RecentRowsKept
    <3>1. CASE s = valid + 1
      BY <1>1, <3>1
    <3>2. CASE s # valid + 1
      <4>0. s \in Int /\ valid \in Int /\ DeleteInterval \in Int /\ 1 <= s /\ s <= valid + 1
            /\ s > valid + 1 - DeleteInterval
        BY <1>1, <1>n, OnlineDeleteAssumption
      <4>1. s \in 1 .. valid /\ s > valid - DeleteInterval
        BY <3>2, <4>0
      <4> QED
        BY <1>0, <1>1, <4>1 DEF DeletionIsDue, RecentRowsKept
    <3> QED
      BY <3>1, <3>2
  <2>2. run'.at \in {"clear", "batch"} => run' = run
    BY <1>4
  <2> QED
    BY <1>0, <1>1, <2>1, <2>2 DEF DeletionIsDue
<1> QED
  BY <1>7, <1>8, <1>10, <1>11, <1>12, <1>13 DEF IInv

LEMMA BuildInv == IInv /\ (buildLedger \/ acquireLedger) => IInv'
<1> SUFFICES ASSUME IInv, buildLedger \/ acquireLedger PROVE IInv'
  OBVIOUS
<1>1. Running /\ valid < LastSeq /\ onLedgerClosed(valid + 1)
      /\ UNCHANGED <<dirs, state, savedDelete, writable, archive, stop_, healthy_, canDelete_, history>>
  BY DEF buildLedger, acquireLedger
<1>2. Contents[valid + 1] \subseteq Node
  <2>1. valid + 1 \in 1 .. LastSeq
    BY <1>1, NumberTypes DEF IInv
  <2> QED
    BY <2>1, OnlineDeleteAssumption
<1>3. CASE buildLedger
  <2> DEFINE N == Contents[valid + 1] \ IF valid = 0 THEN {} ELSE Contents[valid]
  <2>1. N \in SUBSET Node /\ stored(writable, N) /\ fullBelow' = fullBelow
    BY <1>2, <1>3 DEF buildLedger
  <2>2. Contents[valid + 1] \subseteq N \cup disk[writable] \cup IF valid = 0 THEN {} ELSE Contents[valid]
    OBVIOUS
  <2> HIDE DEF N
  <2> QED
    BY <1>1, <2>1, <2>2, NewLedgerInv
<1>4. CASE acquireLedger
  <2> DEFINE N == Contents[valid + 1] \ fullBelow
  <2>1. N \in SUBSET Node /\ stored(writable, N) /\ fullBelow' \subseteq N \cup fullBelow
    BY <1>2, <1>4 DEF acquireLedger
  <2>2. fullBelow \subseteq disk[writable]
    BY <1>1 DEF IInv, PassCopies
  <2>3. Contents[valid + 1] \subseteq N \cup disk[writable] \cup IF valid = 0 THEN {} ELSE Contents[valid]
    BY <2>2
  <2> HIDE DEF N
  <2> QED
    BY <1>1, <2>1, <2>3, NewLedgerInv
<1> QED
  BY <1>3, <1>4

-----------------------------------------------------------------------------
\* fetchFrom's first look: what is not in the writable backend is in the archive.
LEMMA FetchFirstInv ==
  ASSUME IInv, NEW n \in Node, fetchFirst(n)
  PROVE  IInv'
<1>0. TypeOK /\ BackendsKnown /\ LastValidatedKept /\ PassCopies /\ FetchIsSound /\ DeletionIsDue
  BY DEF IInv
<1>1. /\ Running /\ valid > 0 /\ n \in Contents[valid]
      /\ fetch' = (IF n \in disk[writable] THEN NoFetch ELSE [NoFetch EXCEPT !.at = "second", !.n = {n}])
      /\ UNCHANGED <<disk, dirs, state, savedDelete, rows, valid, writable, archive, fullBelow, newLedger_,
                     stop_, healthy_, canDelete_, run, allowed, deleted, crashes>>
  BY DEF fetchFirst, disks, memory, history
<1>2. /\ fetch' \in [at : {"idle", "second", "missed"}, n : SUBSET Node, live : BOOLEAN]
      /\ \/ fetch'.at = "idle"
         \/ fetch'.at = "second" /\ fetch'.n = {n} /\ n \notin disk[writable]
  <2>1. CASE n \in disk[writable]
    BY <1>1, <2>1 DEF NoFetch
  <2>2. CASE n \notin disk[writable]
    BY <1>1, <2>2 DEF NoFetch
  <2> QED
    BY <2>1, <2>2
<1>3. TypeOK'
  BY <1>0, <1>1, <1>2 DEF TypeOK
<1>4. BackendsKnown'
  BY <1>1, BackendsKept
<1>5. LastValidatedKept' /\ PassCopies' /\ DeletionIsDue'
  BY <1>0, <1>1 DEF LastValidatedKept, PassCopies, DeletionIsDue, RecentRowsKept, Running, HasDatabase
<1>6. n \notin disk[writable] => n \in disk[archive]
  BY <1>0, <1>1, RunningFacts DEF LastValidatedKept
<1>7. FetchIsSound'
  BY <1>1, <1>2, <1>6 DEF FetchIsSound, FetchFinds
<1> QED
  BY <1>3, <1>4, <1>5, <1>7 DEF IInv

LEMMA FetchSecondInv == IInv /\ fetchSecond => IInv'
<1> SUFFICES ASSUME IInv, fetchSecond PROVE IInv'
  OBVIOUS
<1>0. TypeOK /\ BackendsKnown /\ LastValidatedKept /\ PassCopies /\ FetchIsSound /\ DeletionIsDue
  BY DEF IInv
<1>1. /\ fetch.at = "second"
      /\ UNCHANGED <<dirs, state, savedDelete, rows, valid, writable, archive, fullBelow, newLedger_,
                     stop_, healthy_, canDelete_, run, allowed, deleted, crashes>>
  BY DEF fetchSecond, memory, history
<1>2. Running
  BY <1>0, <1>1 DEF BackendsKnown, NoFetch
<1>3. \/ fetch.n \subseteq disk[archive] /\ stored(writable, fetch.n) /\ fetch' = NoFetch
      \/ disk' = disk /\ fetch' = NoFetch
  <2>1. fetch.live => fetch.n \subseteq disk[archive]
    BY <1>0, <1>1 DEF FetchIsSound
  <2> QED
    BY <2>1 DEF fetchSecond
<1>4. /\ disk' \in [Backend -> SUBSET Node] /\ \A b \in Backend : disk[b] \subseteq disk'[b]
      /\ fetch' = NoFetch
  <2>1. fetch.n \in SUBSET Node /\ disk \in [Backend -> SUBSET Node]
    BY <1>0 DEF TypeOK
  <2> QED
    BY <1>2, <1>3, <2>1, StoredFacts
<1>5. TypeOK'
  <2>1. NoFetch \in [at : {"idle", "second", "missed"}, n : SUBSET Node, live : BOOLEAN]
    BY DEF NoFetch
  <2> QED
    BY <1>0, <1>1, <1>4, <2>1 DEF TypeOK
<1>6. BackendsKnown' /\ LastValidatedKept'
  BY <1>1, <1>2, <1>4, BackendsKept, LastKept
<1>7. PassCopies' /\ DeletionIsDue'
  <2>1. disk[writable] \subseteq disk'[writable]
    BY <1>2, <1>4, RunningFacts
  <2> QED
    BY <1>0, <1>1, <2>1 DEF PassCopies, DeletionIsDue, RecentRowsKept, Running, HasDatabase
<1>8. FetchIsSound'
  BY <1>4 DEF FetchIsSound, FetchFinds, NoFetch
<1> QED
  BY <1>5, <1>6, <1>7, <1>8 DEF IInv

\* What the operator allows only grows in the history.
LEMMA SetCanDeleteInv ==
  ASSUME IInv, NEW s \in 1 .. LastSeq, setCanDelete(s)
  PROVE  IInv'
<1>0. TypeOK /\ BackendsKnown /\ LastValidatedKept /\ PassCopies /\ FetchIsSound /\ DeletionIsDue
  BY DEF IInv
<1>1. /\ Running /\ savedDelete' = s /\ canDelete_' = (IF AdvisoryDelete THEN s ELSE canDelete_)
      /\ allowed' = Max({allowed, canDelete_'})
      /\ UNCHANGED <<disk, dirs, state, rows, valid, writable, archive, fullBelow, newLedger_, stop_,
                     healthy_, run, fetch, deleted, crashes>>
  BY DEF setCanDelete
<1>2. /\ canDelete_' \in 0 .. Unlimited /\ allowed' \in 0 .. Unlimited /\ s \in 0 .. Unlimited
      /\ allowed' >= allowed /\ allowed' >= canDelete_'
  <2>1. s \in 0 .. Unlimited
    BY <1>0, NumberTypes DEF Unlimited
  <2>2. canDelete_' \in 0 .. Unlimited /\ allowed \in 0 .. Unlimited
    BY <1>0, <1>1, <2>1, NumberTypes
  <2>3. canDelete_' \in Nat /\ allowed \in Nat
    BY <2>2
  <2> QED
    BY <1>1, <2>1, <2>2, <2>3, MaxOfTwo
<1>3. TypeOK'
  <2>1. {savedDelete', canDelete_', allowed', deleted'} \subseteq 0 .. Unlimited
    BY <1>0, <1>1, <1>2, NumberTypes
  <2> QED
    BY <1>0, <1>1, <2>1 DEF TypeOK
<1>4. BackendsKnown'
  BY <1>1, BackendsKept
<1>5. LastValidatedKept' /\ PassCopies' /\ FetchIsSound'
  BY <1>0, <1>1 DEF LastValidatedKept, PassCopies, FetchIsSound, FetchFinds, Running, HasDatabase
<1>6. DeletionIsDue'
  <2>1. allowed \in Int /\ allowed' \in Int /\ deleted \in Int /\ run.lastRotated \in Int
    BY <1>0, <1>2, NumberTypes DEF TypeOK
  <2>2. deleted' <= allowed' /\ canDelete_' <= allowed'
    BY <1>0, <1>1, <1>2, <2>1 DEF DeletionIsDue
  <2>3. run.at \in {"clear", "batch"} => run.ledger >= run.lastRotated + DeleteInterval
                                         /\ run.lastRotated - 1 <= allowed'
    BY <1>0, <1>2, <2>1 DEF DeletionIsDue
  <2> QED
    BY <1>0, <1>1, <2>2, <2>3 DEF DeletionIsDue, RecentRowsKept
<1> QED
  BY <1>3, <1>4, <1>5, <1>6 DEF IInv

LEMMA OnStopInv == IInv /\ onStop => IInv'
<1> SUFFICES ASSUME IInv, onStop PROVE IInv'
  OBVIOUS
<1>0. TypeOK /\ BackendsKnown /\ LastValidatedKept /\ PassCopies /\ FetchIsSound /\ DeletionIsDue
  BY DEF IInv
<1>1. /\ Running /\ stop_' = TRUE
      /\ run' = (IF run.at = "wait" THEN [run EXCEPT !.at = "awake"] ELSE run)
      /\ UNCHANGED <<disk, dirs, state, savedDelete, rows, valid, writable, archive, fullBelow, newLedger_,
                     healthy_, canDelete_, fetch, allowed, deleted, crashes>>
  BY DEF onStop, disks, history
<1>2. /\ run' \in RunState /\ (run.at # "wait" => run' = run)
      /\ (run.at = "wait" => run'.at = "awake")
  BY <1>0, <1>1 DEF TypeOK, RunState
<1>3. TypeOK'
  BY <1>0, <1>1, <1>2 DEF TypeOK, RunState
<1>4. BackendsKnown' /\ Running' /\ HasDatabase'
  <2>1. \/ run'.at = run.at /\ run'.new = run.new /\ run'.old = run.old
        \/ run.at \in HasSpare /\ run'.at \in HasSpare \cup {"stopped"}
    BY <1>2 DEF HasSpare, Waiting
  <2> QED
    BY <1>1, <2>1, BackendsKept
<1>5. run'.at \in InPass => run' = run
  BY <1>2 DEF InPass, BeforeCopy, AfterCopy
<1>6. PassCopies'
  BY <1>0, <1>1, <1>4, <1>5 DEF PassCopies, InPass
<1>7. DeletionIsDue'
  BY <1>1, <1>2, DeletionKept
<1>8. LastValidatedKept' /\ FetchIsSound'
  BY <1>0, <1>1 DEF LastValidatedKept, FetchIsSound, FetchFinds
<1> QED
  BY <1>3, <1>4, <1>6, <1>7, <1>8 DEF IInv

-----------------------------------------------------------------------------
(***************************************************************************)
(* The steps of a pass up to the new backend: the node store stays as it   *)
(* is but for what is copied.                                              *)
(***************************************************************************)
LEMMA PassStepInv ==
  ASSUME IInv, run.at \in HasSpare, run' \in RunState, run'.at \in HasSpare \cup {"stopped"},
         disk' \in [Backend -> SUBSET Node], \A b \in Backend : disk[b] \subseteq disk'[b],
         state' \in [writable : Names, archive : Names, lastRotated : 0 .. LastSeq],
         state'.writable = state.writable, state'.archive = state.archive,
         rows' \subseteq 1 .. LastSeq, newLedger_' \in {0, newLedger_}, healthy_' \in BOOLEAN,
         deleted' \in 0 .. Unlimited,
         UNCHANGED <<dirs, savedDelete, valid, writable, archive, fullBelow, stop_, canDelete_, fetch,
                     allowed, crashes>>,
         run'.at \in InPass => run'.ledger \in 1 .. valid,
         run'.at \in BeforeCopy => Contents[valid] \subseteq disk'[writable] \cup Contents[run'.ledger],
         run'.at = "copy" /\ healthy_' /\ ~stop_ => Contents[valid] \subseteq disk'[writable] \cup run'.todo,
         run'.at \in AfterCopy => Contents[valid] \subseteq disk'[writable],
         DeletionIsDue'
  PROVE  IInv'
<1>0. TypeOK /\ BackendsKnown /\ LastValidatedKept /\ PassCopies /\ FetchIsSound
  BY DEF IInv
<1>1. Running
  BY SpareIsRunning DEF Running
<1>2. TypeOK'
  <2>1. {savedDelete', canDelete_', allowed', deleted'} \subseteq 0 .. Unlimited
    BY <1>0, NumberTypes
  <2>2. newLedger_' \in 0 .. LastSeq
    BY <1>0, NumberTypes DEF TypeOK
  <2> QED
    BY <1>0, <2>1, <2>2 DEF TypeOK, RunState
<1>3. BackendsKnown' /\ Running' /\ HasDatabase'
  BY <1>1, BackendsKept
<1>4. LastValidatedKept'
  BY LastKept
<1>5. PassCopies'
  <2>1. disk[writable] \subseteq disk'[writable]
    BY <1>1, RunningFacts
  <2> QED
    BY <1>0, <1>1, <1>3, <2>1 DEF PassCopies
<1>6. FetchIsSound'
  BY <1>1, FetchKept, RunningFacts
<1> QED
  BY <1>2, <1>3, <1>4, <1>5, <1>6 DEF IInv

LEMMA WaitInv == IInv /\ waitForLedger => IInv'
<1> SUFFICES ASSUME IInv, waitForLedger PROVE IInv'
  OBVIOUS
<1>0. TypeOK
  BY DEF IInv
<1>1. /\ run.at = "loop" /\ healthy_' = TRUE
      /\ run' = [NotRunning EXCEPT !.at = IF stop_ THEN "stopped" ELSE "wait", !.lastRotated = run.lastRotated]
      /\ UNCHANGED <<disk, dirs, state, savedDelete, rows, valid, writable, archive, fullBelow, newLedger_,
                     stop_, canDelete_, fetch, allowed, deleted, crashes>>
  BY DEF waitForLedger, disks, history
<1>2. run' \in RunState /\ run'.at \in {"wait", "stopped"}
  <2>1. NotRunning \in RunState /\ run.lastRotated \in 0 .. LastSeq
    BY <1>0, OnlineDeleteAssumption DEF TypeOK, NotRunning, RunState, Names
  <2> QED
    BY <1>1, <2>1 DEF RunState
<1>3. run.at \in HasSpare /\ run'.at \in HasSpare \cup {"stopped"} /\ Running
  BY <1>1, <1>2 DEF HasSpare, Waiting, Running
<1>4. run'.at \notin InPass /\ run'.at \notin BeforeCopy \cup {"copy"} \cup AfterCopy
  BY <1>2 DEF InPass, BeforeCopy, AfterCopy
<1>5. DeletionIsDue'
  BY <1>1, <1>2, <1>3, DeletionKept
<1>6. disk' \in [Backend -> SUBSET Node] /\ rows' \subseteq 1 .. LastSeq /\ deleted' \in 0 .. Unlimited
      /\ state' \in [writable : Names, archive : Names, lastRotated : 0 .. LastSeq]
  BY <1>0, <1>1, NumberTypes DEF TypeOK
<1> QED
  BY <1>1, <1>2, <1>3, <1>4, <1>5, <1>6, PassStepInv

LEMMA TakeInv == IInv /\ takeLedger => IInv'
<1> SUFFICES ASSUME IInv, takeLedger PROVE IInv'
  OBVIOUS
<1>0. TypeOK
  BY DEF IInv
<1>1. /\ run.at = "awake" /\ newLedger_' = 0
      /\ run' = [run EXCEPT !.at = IF newLedger_ = 0 THEN "loop" ELSE "decide", !.ledger = newLedger_]
      /\ UNCHANGED <<disk, dirs, state, savedDelete, rows, valid, writable, archive, fullBelow,
                     stop_, healthy_, canDelete_, fetch, allowed, deleted, crashes>>
  BY DEF takeLedger, disks, history
<1>2. run' \in RunState /\ run'.ledger = newLedger_
      /\ run'.at = (IF newLedger_ = 0 THEN "loop" ELSE "decide")
  BY <1>0, <1>1 DEF TypeOK, RunState
<1>3. run.at \in HasSpare /\ run'.at \in HasSpare /\ Running
  BY <1>1, <1>2 DEF HasSpare, Waiting, BeforeCopy, Running
<1>4. run'.at \in InPass => run'.ledger = valid /\ valid \in 1 .. valid
  BY <1>0, <1>2, NumberTypes DEF InPass, BeforeCopy, AfterCopy, IInv, PassCopies
<1>5. run'.at \in InPass => run'.at \in BeforeCopy /\ run'.at # "copy" /\ run'.at \notin AfterCopy
  BY <1>2 DEF InPass, BeforeCopy, AfterCopy
<1>6. DeletionIsDue'
  BY <1>1, <1>2, <1>3, DeletionKept
<1>7. disk' \in [Backend -> SUBSET Node] /\ rows' \subseteq 1 .. LastSeq /\ deleted' \in 0 .. Unlimited
      /\ state' \in [writable : Names, archive : Names, lastRotated : 0 .. LastSeq] /\ healthy_' \in BOOLEAN
  BY <1>0, <1>1, NumberTypes DEF TypeOK
<1>8. BeforeCopy \subseteq InPass /\ "copy" \in InPass /\ AfterCopy \subseteq InPass
  BY DEF InPass
<1> QED
  BY <1>1, <1>2, <1>3, <1>4, <1>5, <1>6, <1>7, <1>8, PassStepInv

\* A step that ends with a health check.
LEMMA HealthStepInv ==
  ASSUME IInv, run.at \in HasSpare, NEW go \in RunState, go.at \in HasSpare \cap InPass, checkHealth(go),
         disk' \in [Backend -> SUBSET Node], \A b \in Backend : disk[b] \subseteq disk'[b],
         state' \in [writable : Names, archive : Names, lastRotated : 0 .. LastSeq],
         state'.writable = state.writable, state'.archive = state.archive,
         rows' \subseteq 1 .. LastSeq, deleted' \in 0 .. Unlimited,
         UNCHANGED <<dirs, savedDelete, valid, writable, archive, fullBelow, newLedger_, stop_, canDelete_,
                     fetch, allowed, crashes>>,
         go.ledger \in 1 .. valid,
         go.at \in BeforeCopy => Contents[valid] \subseteq disk'[writable] \cup Contents[go.ledger],
         go.at = "copy" => Contents[valid] \subseteq disk'[writable] \cup go.todo,
         healthy_ /\ ~stop_ /\ go.at \in AfterCopy => Contents[valid] \subseteq disk'[writable],
         RecentRowsKept', deleted' <= allowed,
         go.at \in {"clear", "batch"} => /\ go.ledger >= go.lastRotated + DeleteInterval
                                         /\ go.lastRotated - 1 <= allowed
  PROVE  IInv'
<1>1. /\ run' \in RunState /\ healthy_' \in BOOLEAN
      /\ \/ run' = go /\ healthy_' /\ healthy_ /\ ~stop_
         \/ run'.at = "loop"
         \/ run'.at = "stopped"
  BY HealthFacts
<1>2. "loop" \notin InPass /\ "stopped" \notin InPass /\ "loop" \in HasSpare
  BY DEF InPass, BeforeCopy, AfterCopy, HasSpare, Waiting
<1>3. BeforeCopy \subseteq InPass /\ "copy" \in InPass /\ AfterCopy \subseteq InPass
  BY DEF InPass
<1>4. run'.at \in HasSpare \cup {"stopped"} /\ (run'.at \in InPass => run' = go /\ healthy_ /\ ~stop_)
  BY <1>1, <1>2
<1>5. Running
  BY SpareIsRunning DEF Running
<1>6. DeletionIsDue'
  <2>1. run'.at \in {"clear", "batch"} => run' = go
    BY <1>1
  <2> QED
    BY <1>5, <2>1 DEF IInv, DeletionIsDue
<1> QED
  BY <1>1, <1>3, <1>4, <1>6, PassStepInv

(***************************************************************************)
(* The decision: a pass that goes on deletes rows that are old enough and  *)
(* that the operator lets go.                                              *)
(***************************************************************************)
LEMMA DecideInv == IInv /\ decideToRotate => IInv'
<1> SUFFICES ASSUME IInv, decideToRotate PROVE IInv'
  OBVIOUS
<1> DEFINE last == IF run.lastRotated = 0 THEN run.ledger ELSE run.lastRotated
<1>0. TypeOK /\ PassCopies /\ DeletionIsDue /\ run \in RunState
  BY DEF IInv, TypeOK, RunState
<1>1. /\ run.at = "decide"
      /\ state' = (IF run.lastRotated = 0 THEN [state EXCEPT !.lastRotated = last] ELSE state)
      /\ IF mayRotate(last)
         THEN checkHealth([run EXCEPT !.at = "clear", !.lastRotated = last])
         ELSE /\ run' = [run EXCEPT !.at = "loop", !.lastRotated = last]
              /\ UNCHANGED healthy_
      /\ UNCHANGED <<disk, dirs, savedDelete, rows, valid, writable, archive, fullBelow, newLedger_,
                     stop_, canDelete_, fetch, allowed, deleted, crashes>>
  BY DEF decideToRotate, history
<1>2. last \in 0 .. LastSeq
  BY <1>0 DEF RunState
<1> HIDE DEF last
<1>3. state' \in [writable : Names, archive : Names, lastRotated : 0 .. LastSeq]
      /\ state'.writable = state.writable /\ state'.archive = state.archive
  BY <1>0, <1>1, <1>2 DEF TypeOK
<1>4. run.at \in HasSpare /\ Running /\ run.at \in InPass /\ run.at \in BeforeCopy
  BY <1>1 DEF HasSpare, BeforeCopy, InPass, Running
<1>5. run.ledger \in 1 .. valid /\ Contents[valid] \subseteq disk[writable] \cup Contents[run.ledger]
  BY <1>0, <1>4 DEF PassCopies
<1>6. disk' \in [Backend -> SUBSET Node] /\ rows' \subseteq 1 .. LastSeq /\ deleted' \in 0 .. Unlimited
      /\ healthy_ \in BOOLEAN
  BY <1>0, <1>1, NumberTypes DEF TypeOK
<1>7. CASE mayRotate(last)
  <2>1. PICK go \in RunState : /\ go = [run EXCEPT !.at = "clear", !.lastRotated = last] /\ go.at = "clear"
                               /\ go.lastRotated = last /\ go.ledger = run.ledger
    <3> DEFINE g == [run EXCEPT !.at = "clear", !.lastRotated = last]
    <3>1. g \in RunState /\ g.at = "clear" /\ g.lastRotated = last /\ g.ledger = run.ledger
      BY <1>0, <1>2 DEF RunState
    <3> HIDE DEF g
    <3>2. g = [run EXCEPT !.at = "clear", !.lastRotated = last]
      BY DEF g
    <3> QED
      BY <3>1, <3>2
  <2>2. go.at \in HasSpare \cap InPass /\ go.at \in BeforeCopy /\ go.at # "copy" /\ go.at \notin AfterCopy
    BY <2>1 DEF HasSpare, BeforeCopy, InPass, AfterCopy
  <2>3. go.ledger >= go.lastRotated + DeleteInterval /\ go.lastRotated - 1 <= allowed
    <3>1. run.ledger >= last + DeleteInterval /\ canDelete_ >= last - 1
      BY <1>7 DEF mayRotate
    <3>2. canDelete_ \in Int /\ allowed \in Int /\ last \in Int
      BY <1>0, <1>2, NumberTypes
    <3>3. canDelete_ <= allowed
      BY <1>0, <1>4 DEF DeletionIsDue
    <3> QED
      BY <2>1, <3>1, <3>2, <3>3
  <2>4. RecentRowsKept' /\ deleted' <= allowed
    BY <1>0, <1>1 DEF DeletionIsDue, RecentRowsKept
  <2> QED
    BY <1>1, <1>3, <1>4, <1>5, <1>6, <1>7, <2>1, <2>2, <2>3, <2>4, HealthStepInv
<1>8. CASE ~mayRotate(last)
  <2>1. run' \in RunState /\ run'.at = "loop" /\ healthy_' \in BOOLEAN
    BY <1>0, <1>1, <1>2, <1>6, <1>8 DEF RunState
  <2>2. run'.at \in HasSpare /\ run'.at \notin InPass \cup BeforeCopy \cup {"copy"} \cup AfterCopy
    BY <2>1 DEF HasSpare, Waiting, InPass, BeforeCopy, AfterCopy
  <2>3. DeletionIsDue'
    BY <1>1, <1>4, <2>1, DeletionKept
  <2> QED
    BY <1>1, <1>3, <1>4, <1>6, <2>1, <2>2, <2>3, PassStepInv
<1> QED
  BY <1>7, <1>8

LEMMA ClearPriorInv == IInv /\ clearPrior => IInv'
<1> SUFFICES ASSUME IInv, clearPrior PROVE IInv'
  OBVIOUS
<1> DEFINE m == IF rows = {} THEN run.lastRotated ELSE Min(rows)
<1>0. TypeOK /\ PassCopies /\ DeletionIsDue /\ run \in RunState
  BY DEF IInv, TypeOK, RunState
<1>1. /\ run.at = "clear"
      /\ checkHealth([run EXCEPT !.at = "batch", !.min = m])
      /\ UNCHANGED <<disk, dirs, state, savedDelete, rows, valid, writable, archive, fullBelow, newLedger_,
                     stop_, canDelete_, fetch, allowed, deleted, crashes>>
  BY DEF clearPrior, disks, history
<1>2. m \in 0 .. LastSeq
  <2>1. rows \subseteq 1 .. LastSeq /\ rows \in SUBSET Nat /\ LastSeq \in Nat
    BY <1>0, NumberTypes DEF TypeOK
  <2>2. CASE rows = {}
    BY <1>0, <2>2 DEF RunState
  <2>3. CASE rows # {}
    <3>1. PICK r \in rows : r = Min(rows)
      BY <2>1, <2>3, MinIsLeast
    <3>2. r \in 0 .. LastSeq
      BY <2>1, <3>1
    <3> QED
      BY <2>3, <3>1, <3>2
  <2> QED
    BY <2>2, <2>3
<1> HIDE DEF m
<1>3. run.at \in HasSpare /\ run.at \in InPass /\ run.at \in BeforeCopy
  BY <1>1 DEF HasSpare, BeforeCopy, InPass
<1>4. run.ledger \in 1 .. valid /\ Contents[valid] \subseteq disk[writable] \cup Contents[run.ledger]
  BY <1>0, <1>3 DEF PassCopies
<1>5. disk' \in [Backend -> SUBSET Node] /\ rows' \subseteq 1 .. LastSeq /\ deleted' \in 0 .. Unlimited
      /\ state' \in [writable : Names, archive : Names, lastRotated : 0 .. LastSeq]
  BY <1>0, <1>1, NumberTypes DEF TypeOK
<1>6. PICK go \in RunState : /\ go = [run EXCEPT !.at = "batch", !.min = m] /\ go.at = "batch"
                             /\ go.lastRotated = run.lastRotated /\ go.ledger = run.ledger
  <2> DEFINE g == [run EXCEPT !.at = "batch", !.min = m]
  <2>1. g \in RunState /\ g.at = "batch" /\ g.lastRotated = run.lastRotated /\ g.ledger = run.ledger
    BY <1>0, <1>2 DEF RunState
  <2> HIDE DEF g
  <2>2. g = [run EXCEPT !.at = "batch", !.min = m]
    BY DEF g
  <2> QED
    BY <2>1, <2>2
<1>7. go.at \in HasSpare \cap InPass /\ go.at \in BeforeCopy /\ go.at # "copy" /\ go.at \notin AfterCopy
  BY <1>6 DEF HasSpare, BeforeCopy, InPass, AfterCopy
<1>8. /\ go.ledger >= go.lastRotated + DeleteInterval /\ go.lastRotated - 1 <= allowed
      /\ RecentRowsKept' /\ deleted' <= allowed
  BY <1>0, <1>1, <1>6 DEF DeletionIsDue, RecentRowsKept
<1> QED
  BY <1>1, <1>3, <1>4, <1>5, <1>6, <1>7, <1>8, HealthStepInv

(***************************************************************************)
(* clearSql: the rows of a batch are below lastRotated.                    *)
(***************************************************************************)
LEMMA ClearBatchInv == IInv /\ clearSqlBatch => IInv'
<1> SUFFICES ASSUME IInv, clearSqlBatch PROVE IInv'
  OBVIOUS
<1> DEFINE upto == Min({run.lastRotated, run.min + DeleteBatch})
<1>0. TypeOK /\ PassCopies /\ DeletionIsDue /\ run \in RunState
  BY DEF IInv, TypeOK, RunState
<1>1. /\ run.at = "batch"
      /\ rows' = {s \in rows : s >= upto}
      /\ deleted' = Max({deleted} \cup (rows \ rows'))
      /\ checkHealth([run EXCEPT !.min = upto])
      /\ UNCHANGED <<disk, dirs, state, savedDelete, valid, writable, archive, fullBelow,
                     newLedger_, stop_, canDelete_, fetch, allowed, crashes>>
  BY DEF clearSqlBatch
<1>2. upto \in 0 .. LastSeq /\ upto <= run.lastRotated
  <2>1. run.lastRotated \in 0 .. LastSeq /\ run.min \in 0 .. LastSeq
    BY <1>0 DEF RunState
  <2>2. DeleteBatch \in Nat /\ LastSeq \in Nat /\ run.lastRotated \in Nat /\ run.min + DeleteBatch \in Nat
    <3>1. DeleteBatch \in Nat /\ LastSeq \in Nat
      BY OnlineDeleteAssumption
    <3> QED
      BY <2>1, <3>1
  <2>3. PICK u \in {run.lastRotated, run.min + DeleteBatch} : u = upto /\ u <= run.lastRotated
    BY <2>2, MinIsLeast
  <2>4. u \in Nat /\ u <= run.lastRotated
    BY <2>2, <2>3
  <2> HIDE DEF upto
  <2> QED
    BY <2>1, <2>2, <2>3, <2>4
<1> HIDE DEF upto
<1>3. run.at \in HasSpare /\ run.at \in InPass /\ run.at \in BeforeCopy
  BY <1>1 DEF HasSpare, BeforeCopy, InPass
<1>4. run.ledger \in 1 .. valid /\ Contents[valid] \subseteq disk[writable] \cup Contents[run.ledger]
  BY <1>0, <1>3 DEF PassCopies
<1>n. /\ LastSeq \in Nat /\ valid \in 0 .. LastSeq /\ allowed \in 0 .. Unlimited /\ deleted \in 0 .. Unlimited
      /\ Unlimited \in Nat /\ DeleteInterval \in Nat /\ rows \subseteq 1 .. LastSeq
      /\ run.lastRotated \in 0 .. LastSeq
  BY <1>0, NumberTypes, OnlineDeleteAssumption DEF TypeOK, RunState
<1>d. run.ledger >= run.lastRotated + DeleteInterval /\ run.lastRotated - 1 <= allowed /\ deleted <= allowed
  BY <1>0, <1>1 DEF DeletionIsDue
<1>5. deleted' \in 0 .. Unlimited /\ deleted' <= allowed
  <2> DEFINE gone == {deleted} \cup (rows \ rows')
  <2>1. \A s \in gone : s \in 0 .. Unlimited /\ s <= allowed
    <3>1. \A s \in rows \ rows' : s \in 0 .. LastSeq /\ s < upto
      BY <1>1, <1>2, <1>n
    <3>2. \A s \in rows \ rows' : s \in 0 .. Unlimited /\ s <= allowed
      BY <1>2, <1>n, <1>d, <3>1 DEF Unlimited
    <3> QED
      BY <1>n, <1>d, <3>2
  <2>2. gone \in SUBSET Nat /\ gone # {} /\ allowed \in Nat
    <3>1. \A s \in gone : s \in Nat
      BY <1>n, <2>1
    <3>2. deleted \in gone
      OBVIOUS
    <3> HIDE DEF gone
    <3> QED
      BY <1>n, <3>1, <3>2
  <2>3. deleted' = Max(gone)
    BY <1>1
  <2> HIDE DEF gone
  <2>4. Max(gone) \in gone
    BY <2>1, <2>2, MaxIsGreatest
  <2> QED
    BY <2>1, <2>3, <2>4
<1>6. RecentRowsKept'
  <2> SUFFICES ASSUME NEW s \in 1 .. valid, s > valid - DeleteInterval
               PROVE  s \in rows'
    BY <1>1 DEF RecentRowsKept
  <2>1. s \in rows
    BY <1>0 DEF DeletionIsDue, RecentRowsKept
  <2>2. s >= upto
    BY <1>2, <1>4, <1>n, <1>d
  <2> QED
    BY <1>1, <2>1, <2>2
<1>7. disk' \in [Backend -> SUBSET Node] /\ rows' \subseteq 1 .. LastSeq
      /\ state' \in [writable : Names, archive : Names, lastRotated : 0 .. LastSeq]
  BY <1>0, <1>1 DEF TypeOK
<1>8. PICK go \in RunState : /\ go = [run EXCEPT !.min = upto] /\ go.at = "batch"
                             /\ go.lastRotated = run.lastRotated /\ go.ledger = run.ledger
  BY <1>0, <1>1, <1>2 DEF RunState
<1>9. go.at \in HasSpare \cap InPass /\ go.at \in BeforeCopy /\ go.at # "copy" /\ go.at \notin AfterCopy
  BY <1>8 DEF HasSpare, BeforeCopy, InPass, AfterCopy
<1> QED
  BY <1>1, <1>3, <1>4, <1>5, <1>6, <1>7, <1>8, <1>9, <1>d, HealthStepInv

LEMMA ClearDoneInv == IInv /\ clearSqlDone => IInv'
<1> SUFFICES ASSUME IInv, clearSqlDone PROVE IInv'
  OBVIOUS
<1>0. TypeOK /\ PassCopies /\ DeletionIsDue /\ run \in RunState
  BY DEF IInv, TypeOK, RunState
<1>1. /\ run.at = "batch"
      /\ checkHealth([run EXCEPT !.at = "copy", !.min = 0, !.todo = Contents[run.ledger]])
      /\ UNCHANGED <<disk, dirs, state, savedDelete, rows, valid, writable, archive, fullBelow, newLedger_,
                     stop_, canDelete_, fetch, allowed, deleted, crashes>>
  BY DEF clearSqlDone, disks, history
<1>2. run.at \in HasSpare /\ run.at \in InPass /\ run.at \in BeforeCopy
  BY <1>1 DEF HasSpare, BeforeCopy, InPass
<1>3. run.ledger \in 1 .. valid /\ Contents[valid] \subseteq disk[writable] \cup Contents[run.ledger]
  BY <1>0, <1>2 DEF PassCopies
<1>4. disk' \in [Backend -> SUBSET Node] /\ rows' \subseteq 1 .. LastSeq /\ deleted' \in 0 .. Unlimited
      /\ state' \in [writable : Names, archive : Names, lastRotated : 0 .. LastSeq]
  BY <1>0, <1>1, NumberTypes DEF TypeOK
<1>5. PICK go \in RunState : /\ go = [run EXCEPT !.at = "copy", !.min = 0, !.todo = Contents[run.ledger]]
                             /\ go.at = "copy" /\ go.ledger = run.ledger /\ go.todo = Contents[run.ledger]
  <2> DEFINE g == [run EXCEPT !.at = "copy", !.min = 0, !.todo = Contents[run.ledger]]
  <2>1. Contents[run.ledger] \subseteq Node /\ 0 \in 0 .. LastSeq
    <3>1. LastSeq \in Nat /\ valid \in 0 .. LastSeq /\ run.ledger \in 1 .. LastSeq
      BY <1>0, <1>3, NumberTypes
    <3>2. Contents \in [1 .. LastSeq -> SUBSET Node]
      BY OnlineDeleteAssumption
    <3> QED
      BY <3>1, <3>2
  <2>2. g \in RunState /\ g.at = "copy" /\ g.ledger = run.ledger /\ g.todo = Contents[run.ledger]
    BY <1>0, <2>1 DEF RunState
  <2> HIDE DEF g
  <2>3. g = [run EXCEPT !.at = "copy", !.min = 0, !.todo = Contents[run.ledger]]
    BY DEF g
  <2> QED
    BY <2>2, <2>3
<1>6. go.at \in HasSpare \cap InPass /\ go.at \notin BeforeCopy /\ go.at \notin AfterCopy
  BY <1>5 DEF HasSpare, BeforeCopy, InPass, AfterCopy
<1>7. RecentRowsKept' /\ deleted' <= allowed
  BY <1>0, <1>1 DEF DeletionIsDue, RecentRowsKept
<1> QED
  BY <1>1, <1>2, <1>3, <1>4, <1>5, <1>6, <1>7, HealthStepInv

(***************************************************************************)
(* copyNode: a node of the validated ledger that is taken off the list is  *)
(* in the writable backend; after an early end the health check fails.     *)
(***************************************************************************)
LEMMA CopyNodeInv ==
  ASSUME IInv, NEW n \in Node, copyNode(n)
  PROVE  IInv'
<1>0. TypeOK /\ PassCopies /\ LastValidatedKept /\ DeletionIsDue /\ run \in RunState
      /\ stop_ \in BOOLEAN /\ healthy_ \in BOOLEAN
  BY DEF IInv, TypeOK, RunState
<1>1. /\ run.at = "copy" /\ n \in run.todo /\ stored(writable, {n} \cap disk[archive])
      /\ UNCHANGED <<dirs, state, savedDelete, rows, valid, writable, archive, fullBelow, newLedger_,
                     stop_, canDelete_, fetch, allowed, deleted, crashes>>
  BY DEF copyNode, history
<1>2. PICK bad \in BOOLEAN :
        /\ healthy_' = IF stop_ THEN healthy_ ELSE health(bad)
        /\ run' = IF stop_ \/ ~healthy_' THEN [run EXCEPT !.todo = {}]
                                         ELSE [run EXCEPT !.todo = @ \ {n}]
  BY DEF copyNode
<1>3. run' \in RunState /\ run'.at = "copy" /\ run'.ledger = run.ledger
      /\ (healthy_' /\ ~stop_ => run'.todo = run.todo \ {n})
  <2>1. CASE stop_ \/ ~healthy_'
    BY <1>0, <1>1, <1>2, <2>1 DEF RunState
  <2>2. CASE ~(stop_ \/ ~healthy_')
    BY <1>0, <1>1, <1>2, <2>2 DEF RunState
  <2> QED
    BY <2>1, <2>2
<1>4. healthy_' \in BOOLEAN /\ (healthy_' => healthy_)
  BY <1>0, <1>2 DEF health
<1>5. run.at \in HasSpare /\ run.at \in InPass /\ Running /\ run.at \notin BeforeCopy /\ run.at \notin AfterCopy
  BY <1>1 DEF HasSpare, BeforeCopy, AfterCopy, InPass, Running
<1>6. /\ disk' \in [Backend -> SUBSET Node]
      /\ disk'[writable] = disk[writable] \cup ({n} \cap disk[archive])
      /\ \A b \in Backend : disk[b] \subseteq disk'[b]
  BY <1>1, <1>5, StoredFacts
<1>7. run.ledger \in 1 .. valid
  BY <1>0, <1>5 DEF PassCopies
<1>8. ASSUME healthy_', ~stop_
      PROVE  Contents[valid] \subseteq disk'[writable] \cup run'.todo
  <2>1. Contents[valid] \subseteq disk[writable] \cup run.todo
    BY <1>0, <1>1, <1>4, <1>8 DEF PassCopies
  <2>2. n \in Contents[valid] => n \in disk[writable] \cup disk[archive]
    <3>1. valid > 0
      BY <1>0, <1>7, NumberTypes
    <3> QED
      BY <1>0, <1>5, <3>1, RunningFacts DEF LastValidatedKept
  <2> QED
    BY <1>3, <1>6, <1>8, <2>1, <2>2
<1>9. DeletionIsDue'
  BY <1>1, <1>3, <1>5, DeletionKept
<1>10. state' \in [writable : Names, archive : Names, lastRotated : 0 .. LastSeq]
       /\ rows' \subseteq 1 .. LastSeq /\ deleted' \in 0 .. Unlimited
  BY <1>0, <1>1, NumberTypes DEF TypeOK
<1> QED
  BY <1>1, <1>3, <1>4, <1>5, <1>6, <1>7, <1>8, <1>9, <1>10, PassStepInv

LEMMA CopiedInv == IInv /\ copied => IInv'
<1> SUFFICES ASSUME IInv, copied PROVE IInv'
  OBVIOUS
<1>0. TypeOK /\ PassCopies /\ DeletionIsDue /\ run \in RunState
  BY DEF IInv, TypeOK, RunState
<1>1. /\ run.at = "copy" /\ run.todo = {} /\ checkHealth([run EXCEPT !.at = "freshen"])
      /\ UNCHANGED <<disk, dirs, state, savedDelete, rows, valid, writable, archive, fullBelow, newLedger_,
                     stop_, canDelete_, fetch, allowed, deleted, crashes>>
  BY DEF copied, disks, history
<1>2. run.at \in HasSpare /\ run.at \in InPass
  BY <1>1 DEF HasSpare, BeforeCopy, InPass
<1>3. run.ledger \in 1 .. valid /\ (healthy_ /\ ~stop_ => Contents[valid] \subseteq disk[writable])
  BY <1>0, <1>1, <1>2 DEF PassCopies
<1>4. disk' \in [Backend -> SUBSET Node] /\ rows' \subseteq 1 .. LastSeq /\ deleted' \in 0 .. Unlimited
      /\ state' \in [writable : Names, archive : Names, lastRotated : 0 .. LastSeq]
  BY <1>0, <1>1, NumberTypes DEF TypeOK
<1>5. PICK go \in RunState : go = [run EXCEPT !.at = "freshen"] /\ go.at = "freshen" /\ go.ledger = run.ledger
  <2> DEFINE g == [run EXCEPT !.at = "freshen"]
  <2>1. g \in RunState /\ g.at = "freshen" /\ g.ledger = run.ledger
    BY <1>0 DEF RunState
  <2> HIDE DEF g
  <2>2. g = [run EXCEPT !.at = "freshen"]
    BY DEF g
  <2> QED
    BY <2>1, <2>2
<1>6. go.at \in HasSpare \cap InPass /\ go.at \notin BeforeCopy /\ go.at # "copy"
  BY <1>5 DEF HasSpare, BeforeCopy, InPass, AfterCopy
<1>7. RecentRowsKept' /\ deleted' <= allowed
  BY <1>0, <1>1 DEF DeletionIsDue, RecentRowsKept
<1> QED
  BY <1>1, <1>2, <1>3, <1>4, <1>5, <1>6, <1>7, HealthStepInv

LEMMA FreshenInv == IInv /\ freshenCaches => IInv'
<1> SUFFICES ASSUME IInv, freshenCaches PROVE IInv'
  OBVIOUS
<1>0. TypeOK /\ PassCopies /\ DeletionIsDue /\ run \in RunState
  BY DEF IInv, TypeOK, RunState
<1>1. /\ run.at = "freshen" /\ checkHealth([run EXCEPT !.at = "make"])
      /\ UNCHANGED <<dirs, state, savedDelete, rows, valid, writable, archive, fullBelow, newLedger_,
                     stop_, canDelete_, fetch, allowed, deleted, crashes>>
  BY DEF freshenCaches, history
<1>2. run.at \in HasSpare /\ run.at \in InPass /\ run.at \in AfterCopy /\ Running
  BY <1>1 DEF HasSpare, BeforeCopy, AfterCopy, InPass, Running
<1>3. PICK cached \in SUBSET Node : stored(writable, cached)
  <2>1. {} \in SUBSET Node /\ disk[archive] \in SUBSET Node
    BY <1>0, <1>2, RunningFacts DEF TypeOK
  <2> QED
    BY <2>1 DEF freshenCaches
<1>4. /\ disk' \in [Backend -> SUBSET Node] /\ disk'[writable] = disk[writable] \cup cached
      /\ \A b \in Backend : disk[b] \subseteq disk'[b]
  BY <1>2, <1>3, StoredFacts
<1>5. run.ledger \in 1 .. valid /\ Contents[valid] \subseteq disk'[writable]
  BY <1>0, <1>2, <1>4 DEF PassCopies
<1>6. rows' \subseteq 1 .. LastSeq /\ deleted' \in 0 .. Unlimited
      /\ state' \in [writable : Names, archive : Names, lastRotated : 0 .. LastSeq]
  BY <1>0, <1>1, NumberTypes DEF TypeOK
<1>7. PICK go \in RunState : go = [run EXCEPT !.at = "make"] /\ go.at = "make" /\ go.ledger = run.ledger
  <2> DEFINE g == [run EXCEPT !.at = "make"]
  <2>1. g \in RunState /\ g.at = "make" /\ g.ledger = run.ledger
    BY <1>0 DEF RunState
  <2> HIDE DEF g
  <2>2. g = [run EXCEPT !.at = "make"]
    BY DEF g
  <2> QED
    BY <2>1, <2>2
<1>8. go.at \in HasSpare \cap InPass /\ go.at \notin BeforeCopy /\ go.at # "copy"
  BY <1>7 DEF HasSpare, BeforeCopy, InPass, AfterCopy
<1>9. RecentRowsKept' /\ deleted' <= allowed
  BY <1>0, <1>1 DEF DeletionIsDue, RecentRowsKept
<1> QED
  BY <1>1, <1>2, <1>4, <1>5, <1>6, <1>7, <1>8, <1>9, HealthStepInv

-----------------------------------------------------------------------------
(***************************************************************************)
(* makeBackendRotating: the new directory is none of the two in use, and   *)
(* unless the pass goes on to the rotation a name is left.                 *)
(***************************************************************************)
LEMMA MakeBackendInv == IInv /\ makeBackendRotating => IInv'
<1> SUFFICES ASSUME IInv, makeBackendRotating PROVE IInv'
  OBVIOUS
<1>0. /\ TypeOK /\ BackendsKnown /\ LastValidatedKept /\ PassCopies /\ FetchIsSound /\ DeletionIsDue
      /\ run \in RunState /\ healthy_ \in BOOLEAN
  BY DEF IInv, TypeOK, RunState
<1> DEFINE g == [run EXCEPT !.at = "rotate", !.new = fresh(dirs)]
<1>1. /\ run.at = "make" /\ Running /\ dirs' = dirs \cup {g.new} /\ fullBelow' = {}
      /\ IF Backend \ dirs' # {} THEN checkHealth(g) ELSE run' = g /\ UNCHANGED healthy_
      /\ UNCHANGED <<disk, state, savedDelete, rows, valid, writable, archive, newLedger_, stop_,
                     canDelete_, fetch, allowed, deleted, crashes>>
  BY DEF makeBackendRotating, history, Running
<1>2. Backend \ dirs # {}
  BY <1>0, <1>1 DEF BackendsKnown
<1>3. fresh(dirs) \in Backend /\ fresh(dirs) \notin dirs
  BY <1>2, FreshFacts
<1>4. g \in RunState /\ g.at = "rotate" /\ g.new = fresh(dirs) /\ g.ledger = run.ledger
  BY <1>0, <1>3 DEF RunState, Names
<1> HIDE DEF g
<1>5. /\ run' \in RunState /\ healthy_' \in BOOLEAN
      /\ \/ run' = g
         \/ run'.at \in {"loop", "stopped"} /\ Backend \ dirs' # {}
  <2>1. CASE Backend \ dirs' # {}
    <3>1. g.at \in InPass
      BY <1>4 DEF InPass, AfterCopy
    <3> QED
      BY <1>1, <1>4, <2>1, <3>1, HealthFacts
  <2>2. CASE Backend \ dirs' = {}
    BY <1>0, <1>1, <1>4, <2>2
  <2> QED
    BY <2>1, <2>2
<1>6. TypeOK'
  <2>1. dirs' \subseteq Backend /\ fullBelow' \subseteq Node
    BY <1>0, <1>1, <1>3, <1>4 DEF TypeOK
  <2> QED
    BY <1>0, <1>1, <1>5, <2>1 DEF TypeOK, RunState
<1>7. run'.at \in {"rotate", "loop", "stopped"} /\ Running'
  BY <1>4, <1>5 DEF Running
<1>8. BackendsKnown'
  <2>1. HasDatabase' /\ Named' = Named /\ Named \subseteq dirs
    BY <1>0, <1>1 DEF BackendsKnown, HasDatabase, Named
  <2>2. run'.at = "rotate" => run'.new \in dirs' \ Named'
    BY <1>1, <1>3, <1>4, <1>5, <2>1
  <2>3. run'.at \in HasSpare => Backend \ dirs' # {}
    BY <1>4, <1>5 DEF HasSpare, Waiting, BeforeCopy
  <2> QED
    BY <1>0, <1>1, <1>7, <2>1, <2>2, <2>3 DEF BackendsKnown, HasSpare, HasDatabase
<1>9. LastValidatedKept' /\ FetchIsSound'
  BY <1>0, <1>1 DEF LastValidatedKept, FetchIsSound, FetchFinds
<1>10. PassCopies'
  <2>1. run.at \in InPass /\ run.at \in AfterCopy
    BY <1>1 DEF InPass, AfterCopy
  <2>2. run.ledger \in 1 .. valid /\ Contents[valid] \subseteq disk[writable]
    BY <1>0, <2>1 DEF PassCopies
  <2>3. run'.at \in InPass => run' = g
    BY <1>5 DEF InPass, BeforeCopy, AfterCopy
  <2>4. run'.at \notin BeforeCopy /\ run'.at # "copy"
    BY <1>7 DEF BeforeCopy
  <2> QED
    BY <1>0, <1>1, <1>4, <2>2, <2>3, <2>4 DEF PassCopies, HasDatabase
<1>11. DeletionIsDue'
  BY <1>1, <1>7, DeletionKept
<1> QED
  BY <1>6, <1>8, <1>9, <1>10, <1>11 DEF IInv

(***************************************************************************)
(* The rotation: the validated ledger is in the writable backend, which    *)
(* becomes the archive, and so is every node a fetch still looks for.      *)
(***************************************************************************)
LEMMA RotateInv == IInv /\ rotateBackends => IInv'
<1> SUFFICES ASSUME IInv, rotateBackends PROVE IInv'
  OBVIOUS
<1>0. /\ TypeOK /\ BackendsKnown /\ LastValidatedKept /\ PassCopies /\ FetchIsSound /\ DeletionIsDue
      /\ run \in RunState
  BY DEF IInv, TypeOK, RunState
<1>1. /\ run.at = "rotate" /\ Running
      /\ state' = [writable |-> run.new, archive |-> writable, lastRotated |-> run.ledger]
      /\ fullBelow' = {} /\ writable' = run.new /\ archive' = writable
      /\ run' = [run EXCEPT !.at = "delete", !.lastRotated = run.ledger, !.new = NoBackend,
                            !.old = archive]
      /\ UNCHANGED <<disk, dirs, savedDelete, rows, valid, newLedger_, stop_, healthy_, canDelete_,
                     fetch, allowed, deleted, crashes>>
  BY DEF rotateBackends, history, Running
<1>2. /\ writable \in Backend /\ archive \in Backend /\ writable # archive
      /\ writable = state.writable /\ archive = state.archive
  BY <1>1, RunningFacts
<1>3. run.new \in Backend /\ run.new \in dirs /\ run.new # writable /\ run.new # archive
      /\ writable \in dirs /\ archive \in dirs
  BY <1>0, <1>1, <1>2 DEF BackendsKnown, Named, TypeOK
<1>4. run' \in RunState /\ run'.at = "delete" /\ run'.old = archive
  BY <1>0, <1>1, <1>2 DEF RunState, Names
<1>5. state' \in [writable : Names, archive : Names, lastRotated : 0 .. LastSeq]
      /\ state'.writable = run.new /\ state'.archive = writable
  BY <1>0, <1>1, <1>2, <1>3 DEF RunState, Names
<1>6. TypeOK'
  BY <1>0, <1>1, <1>2, <1>3, <1>4, <1>5 DEF TypeOK, RunState, Names
<1>7. HasDatabase' /\ Named' = {run.new, writable} /\ Running'
  BY <1>3, <1>4, <1>5, OnlineDeleteAssumption DEF HasDatabase, Named, Running
<1>8. BackendsKnown'
  <2>1. state'.archive # NoBackend
    BY <1>2, <1>5, OnlineDeleteAssumption
  <2>2. run'.old \in dirs' \ Named'
    BY <1>1, <1>2, <1>3, <1>4, <1>7
  <2>3. run'.at \notin HasSpare
    BY <1>4 DEF HasSpare, Waiting, BeforeCopy
  <2> QED
    BY <1>1, <1>3, <1>4, <1>5, <1>7, <2>1, <2>2, <2>3 DEF BackendsKnown, HasSpare
<1>9. Contents[valid] \subseteq disk[writable] /\ run.ledger \in 1 .. valid
  BY <1>0, <1>1 DEF PassCopies, AfterCopy, InPass
<1>10. LastValidatedKept'
  BY <1>1, <1>5, <1>9 DEF LastValidatedKept
<1>11. PassCopies'
  BY <1>0, <1>1, <1>4, <1>7 DEF PassCopies, InPass, BeforeCopy, AfterCopy
<1>12. FetchIsSound'
  BY <1>0, <1>1, <1>9 DEF FetchIsSound, FetchFinds
<1>13. DeletionIsDue'
  BY <1>1, <1>4, DeletionKept
<1> QED
  BY <1>6, <1>8, <1>10, <1>11, <1>12, <1>13 DEF IInv

\* The old archive goes, which nothing names.
LEMMA DeleteOldInv == IInv /\ deleteOldBackend => IInv'
<1> SUFFICES ASSUME IInv, deleteOldBackend PROVE IInv'
  OBVIOUS
<1>0. /\ TypeOK /\ BackendsKnown /\ LastValidatedKept /\ PassCopies /\ FetchIsSound /\ DeletionIsDue
      /\ run \in RunState
  BY DEF IInv, TypeOK, RunState
<1>1. /\ run.at = "delete" /\ Running
      /\ dirs' = dirs \ {run.old} /\ disk' = [disk EXCEPT ![run.old] = {}]
      /\ run' = [run EXCEPT !.at = "loop", !.old = NoBackend]
      /\ UNCHANGED <<state, savedDelete, rows, valid, writable, archive, fullBelow, newLedger_, stop_,
                     healthy_, canDelete_, fetch, allowed, deleted, crashes>>
  BY DEF deleteOldBackend, memory, history, Running
<1>2. /\ writable \in Backend /\ archive \in Backend
      /\ writable = state.writable /\ archive = state.archive
  BY <1>1, RunningFacts
<1>3. run.old \in dirs /\ run.old \in Backend /\ run.old # writable /\ run.old # archive
  BY <1>0, <1>1, <1>2 DEF BackendsKnown, Named, TypeOK
<1>4. run' \in RunState /\ run'.at = "loop" /\ Running'
  BY <1>0, <1>1 DEF RunState, Names, Running
<1>5. disk' \in [Backend -> SUBSET Node] /\ disk'[writable] = disk[writable] /\ disk'[archive] = disk[archive]
  BY <1>0, <1>1, <1>2, <1>3 DEF TypeOK
<1>6. TypeOK'
  BY <1>0, <1>1, <1>4, <1>5 DEF TypeOK, RunState
<1>7. BackendsKnown'
  <2>1. HasDatabase' /\ HasDatabase /\ Named' = Named
    BY <1>0, <1>1 DEF BackendsKnown, HasDatabase, Named
  <2>2. Named \subseteq dirs' /\ Backend \ dirs' # {}
    BY <1>0, <1>1, <1>2, <1>3, <2>1 DEF BackendsKnown, Named
  <2> QED
    BY <1>0, <1>1, <1>4, <2>1, <2>2 DEF BackendsKnown
<1>8. LastValidatedKept'
  BY <1>0, <1>1, <1>2, <1>5 DEF LastValidatedKept
<1>9. PassCopies'
  BY <1>0, <1>1, <1>4, <1>5 DEF PassCopies, HasDatabase, InPass, BeforeCopy, AfterCopy
<1>10. FetchIsSound'
  BY <1>0, <1>1, <1>5 DEF FetchIsSound, FetchFinds
<1>11. DeletionIsDue'
  BY <1>1, <1>4, DeletionKept
<1> QED
  BY <1>6, <1>7, <1>8, <1>9, <1>10, <1>11 DEF IInv

(***************************************************************************)
(* The inductive invariant of online deletion: every step of the pass, of  *)
(* the server beside it, every crash and every start preserves it.         *)
(***************************************************************************)
THEOREM DeleteInvariance == Spec => []IInv
<1>1. IInv /\ [Next]_vars => IInv'
  <2> SUFFICES ASSUME IInv, [Next]_vars PROVE IInv'
    OBVIOUS
  <2>1. CASE Start
    BY <2>1, DbPathsInv, MakeDatabaseInv DEF Start
  <2>2. CASE Pass
    BY <2>2, WaitInv, TakeInv, DecideInv, ClearPriorInv, ClearBatchInv, ClearDoneInv, CopyNodeInv,
       CopiedInv, FreshenInv, MakeBackendInv, RotateInv, DeleteOldInv DEF Pass
  <2>3. CASE crash \/ buildLedger \/ acquireLedger \/ fetchSecond \/ onStop
    BY <2>3, CrashInv, BuildInv, FetchSecondInv, OnStopInv
  <2>4. CASE (\E n \in Node : fetchFirst(n)) \/ (\E s \in 1 .. LastSeq : setCanDelete(s))
    BY <2>4, FetchFirstInv, SetCanDeleteInv
  <2>5. CASE UNCHANGED vars
    BY <2>5, UnchangedInv
  <2> QED
    BY <2>1, <2>2, <2>3, <2>4, <2>5 DEF Next
<1> QED
  BY <1>1, InitInv, PTL DEF Spec

(***************************************************************************)
(* Whatever step of a pass the server is at or dies at, and however the    *)
(* ledgers come in, the nodes of the last validated one are in the two     *)
(* backends that state_db_ names.                                          *)
(***************************************************************************)
THEOREM LastValidatedIsKept == Spec => []LastValidatedKept
<1>1. IInv => LastValidatedKept
  BY DEF IInv
<1> QED
  BY <1>1, DeleteInvariance, PTL

(***************************************************************************)
(* dbPaths never refuses to start: no crash between the steps of a         *)
(* rotation leaves a state that names a missing directory.                 *)
(***************************************************************************)
THEOREM StartNeverFailsHolds == Spec => []StartNeverFails
<1>1. IInv => StartNeverFails
  BY DEF IInv, BackendsKnown, StartNeverFails
<1> QED
  BY <1>1, DeleteInvariance, PTL

(***************************************************************************)
(* A pass deletes neither a recent row nor one that the operator protects. *)
(***************************************************************************)
THEOREM DeletesOnlyWhatItMay == Spec => []DeletesWhatItMay
<1>1. IInv => DeletesWhatItMay
  BY DEF IInv, DeletionIsDue, DeletesWhatItMay, AdvisoryRespected
<1> QED
  BY <1>1, DeleteInvariance, PTL

(***************************************************************************)
(* fetchFrom finds what is in the validated ledger, although the backends  *)
(* may be rotated between its two look-ups.                                *)
(***************************************************************************)
THEOREM FetchAlwaysFinds == Spec => []FetchFinds
<1>1. IInv => FetchFinds
  BY DEF IInv, FetchIsSound
<1> QED
  BY <1>1, DeleteInvariance, PTL
=============================================================================
