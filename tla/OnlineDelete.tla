---------------------------- MODULE OnlineDelete ----------------------------
(***************************************************************************)
(* Online deletion: SHAMapStoreImp's thread, the rotating node store and   *)
(* the saved state that ties them together over a restart.                 *)
(*                                                                         *)
(* The node store writes to one backend and reads from two.  Every         *)
(* deleteInterval ledgers the thread deletes the old ledgers' rows, copies *)
(* the last validated ledger to the writable backend, makes that one the   *)
(* archive, and deletes the old archive.  All the while ledgers are built, *)
(* acquired and fetched from, the server may stop, and it may die between  *)
(* any two steps.                                                          *)
(*                                                                         *)
(* A ledger is the set of nodes of its state map; the tree above them, the *)
(* in-memory caches and the tables other than Ledgers are left out.  A     *)
(* ledger that arrives is validated at once and is stored between two      *)
(* steps of the thread: an acquisition that begins before the caches are   *)
(* cleared and ends after that is left out.                                *)
(***************************************************************************)
EXTENDS Integers, FiniteSetsExt

CONSTANTS
  Node,            \* SHAMap nodes, named by their hashes
  LastSeq,         \* bound: ledgers 1 .. LastSeq are validated
  Contents,        \* Contents[s]: the nodes of ledger s
  Backend,         \* names of backend directories
  NoBackend,       \* no directory
  DeleteInterval,  \* online_delete
  DeleteBatch,     \* delete_batch
  AdvisoryDelete,  \* advisory_delete
  MaxCrashes       \* bound: times the server dies

ASSUME OnlineDeleteAssumption ==
  /\ LastSeq \in Nat /\ Contents \in [1 .. LastSeq -> SUBSET Node]
  /\ NoBackend \notin Backend
  /\ \A a, b \in Backend \cup {NoBackend} : \E c \in Backend : c \notin {a, b}
  /\ DeleteInterval \in Nat \ {0} /\ DeleteBatch \in Nat \ {0}
  /\ AdvisoryDelete \in BOOLEAN /\ MaxCrashes \in Nat

Unlimited == LastSeq + 1

VARIABLES
  disk,          \* disk[b]: the nodes in directory b
  dirs,          \* the directories that exist
  state,         \* state_db_: [writable, archive, lastRotated]
  savedDelete,   \* state_db_: CanDeleteSeq
  rows,          \* the Ledgers table
  valid,         \* sequence of the last validated ledger, 0 for none
  writable,      \* writableBackend_
  archive,       \* archiveBackend_
  fullBelow,     \* FullBelowCache
  newLedger_,    \* the ledger onLedgerClosed left, or 0
  stop_,         \* the server is stopping
  healthy_,      \* false once a step of this pass was skipped
  canDelete_,    \* the ledger up to which the operator lets us delete
  run,           \* the thread: [at, ledger, lastRotated, todo, min, new, old]
  fetch,         \* a fetch under way in another thread
  allowed,       \* history: the highest canDelete_ so far
  deleted,       \* history: the highest row deleted
  crashes        \* times the server died

disks  == <<disk, dirs, state, savedDelete, rows>>
memory == <<writable, archive, fullBelow, newLedger_, stop_, healthy_, canDelete_>>
history == <<allowed, deleted, crashes>>
vars == <<disks, valid, memory, run, fetch, history>>

NotRunning == [at |-> "down", ledger |-> 0, lastRotated |-> 0, todo |-> {}, min |-> 0,
               new |-> NoBackend, old |-> NoBackend]
NoFetch == [at |-> "idle", n |-> {}, live |-> TRUE]

Init ==
  /\ disk = [b \in Backend |-> {}] /\ dirs = {}
  /\ state = [writable |-> NoBackend, archive |-> NoBackend, lastRotated |-> 0]
  /\ savedDelete = 0 /\ rows = {} /\ valid = 0
  /\ writable = NoBackend /\ archive = NoBackend /\ fullBelow = {}
  /\ newLedger_ = 0 /\ stop_ = FALSE /\ healthy_ = TRUE /\ canDelete_ = Unlimited
  /\ run = NotRunning /\ fetch = NoFetch
  /\ allowed = 0 /\ deleted = 0 /\ crashes = 0

Running == run.at \notin {"down", "open", "error"}
Goto(at) == run' = [run EXCEPT !.at = at]

-----------------------------------------------------------------------------
(***************************************************************************)
(* The server starts.  dbPaths removes the directories that the state does *)
(* not name and refuses to start if one it names is missing; makeDatabase  *)
(* opens the two backends and, the first time, saves their names.          *)
(***************************************************************************)
dbPaths ==
  LET named == {state.writable, state.archive} \ {NoBackend}
  IN  /\ run.at = "down" /\ ~stop_
      /\ dirs' = dirs \cap named
      /\ disk' = [b \in Backend |-> IF b \in named THEN disk[b] ELSE {}]
      /\ Goto(IF named \subseteq dirs THEN "open" ELSE "error")
      /\ UNCHANGED <<state, savedDelete, rows, valid, memory, fetch, history>>

\* A directory name that is not in use (unique_path).
fresh(used) == CHOOSE b \in Backend : b \notin used

makeDatabase ==
  LET first == state.writable = NoBackend
      w == IF first THEN fresh(dirs) ELSE state.writable
      a == IF first THEN fresh(dirs \cup {w}) ELSE state.archive
  IN  /\ run.at = "open"
      /\ dirs' = dirs \cup {w, a} /\ writable' = w /\ archive' = a
      /\ state' = [state EXCEPT !.writable = w, !.archive = a]
      /\ run' = [run EXCEPT !.at = "loop", !.lastRotated = state.lastRotated]
      /\ canDelete_' = IF AdvisoryDelete THEN savedDelete ELSE Unlimited
      /\ allowed' = Max({allowed, canDelete_'})
      /\ UNCHANGED <<disk, savedDelete, rows, valid, fullBelow, newLedger_, stop_, healthy_, fetch,
                     deleted, crashes>>

\* The server dies; what is on disk stays.
crash ==
  /\ run.at # "down" /\ run.at # "error" /\ crashes < MaxCrashes
  /\ crashes' = crashes + 1
  /\ writable' = NoBackend /\ archive' = NoBackend /\ fullBelow' = {}
  /\ newLedger_' = 0 /\ stop_' = FALSE /\ healthy_' = TRUE /\ canDelete_' = Unlimited
  /\ run' = NotRunning /\ fetch' = NoFetch
  /\ UNCHANGED <<disks, valid, allowed, deleted>>

-----------------------------------------------------------------------------
(***************************************************************************)
(* The rest of the server.  The next ledger is validated: built from the   *)
(* one before it, so that its new nodes are stored, or acquired, so that   *)
(* every node not known to be in the store is fetched or stored.           *)
(***************************************************************************)
stored(b, nodes) == disk' = [disk EXCEPT ![b] = @ \cup nodes]

onLedgerClosed(s) ==
  /\ valid' = s /\ rows' = rows \cup {s} /\ newLedger_' = s
  /\ fetch' = [fetch EXCEPT !.live = @ /\ fetch.n \subseteq Contents[s]]
  /\ run' = IF run.at = "wait" THEN [run EXCEPT !.at = "awake"] ELSE run

buildLedger ==
  /\ Running /\ valid < LastSeq
  /\ stored(writable, Contents[valid + 1] \ IF valid = 0 THEN {} ELSE Contents[valid])
  /\ onLedgerClosed(valid + 1)
  /\ UNCHANGED <<dirs, state, savedDelete, writable, archive, fullBelow, stop_, healthy_,
                 canDelete_, history>>

acquireLedger ==
  /\ Running /\ valid < LastSeq
  /\ stored(writable, Contents[valid + 1] \ fullBelow)
  /\ fullBelow' = fullBelow \cup Contents[valid + 1]
  /\ onLedgerClosed(valid + 1)
  /\ UNCHANGED <<dirs, state, savedDelete, writable, archive, stop_, healthy_, canDelete_, history>>

(***************************************************************************)
(* DatabaseRotatingImp::fetchFrom looks in the writable backend and then,  *)
(* maybe after a rotation, in the archive; what it finds there it copies.  *)
(* "missed" records that it did not find a node that was in the validated  *)
(* ledger all the while.                                                   *)
(***************************************************************************)
\* Mutant: the archive is looked in first.
fetchFirst_Archive(n) ==
  /\ Running /\ fetch.at = "idle" /\ valid > 0 /\ n \in Contents[valid]
  /\ fetch' = IF n \in disk[archive] THEN NoFetch ELSE [NoFetch EXCEPT !.at = "second", !.n = {n}]
  /\ UNCHANGED <<disks, valid, memory, run, history>>

fetchFirst(n) ==
  /\ Running /\ fetch.at = "idle" /\ valid > 0 /\ n \in Contents[valid]
  /\ fetch' = IF n \in disk[writable] THEN NoFetch ELSE [NoFetch EXCEPT !.at = "second", !.n = {n}]
  /\ UNCHANGED <<disks, valid, memory, run, history>>

fetchSecond ==
  /\ fetch.at = "second"
  /\ IF fetch.n \subseteq disk[archive]
     THEN stored(writable, fetch.n) /\ fetch' = NoFetch
     ELSE /\ fetch' = IF fetch.live THEN [fetch EXCEPT !.at = "missed"] ELSE NoFetch
          /\ UNCHANGED disk
  /\ UNCHANGED <<dirs, state, savedDelete, rows, valid, memory, run, history>>

\* The operator's can_delete command.
setCanDelete(s) ==
  /\ Running
  /\ savedDelete' = s /\ canDelete_' = IF AdvisoryDelete THEN s ELSE canDelete_
  /\ allowed' = Max({allowed, canDelete_'})
  /\ UNCHANGED <<disk, dirs, state, rows, valid, writable, archive, fullBelow, newLedger_, stop_,
                 healthy_, run, fetch, deleted, crashes>>

onStop ==
  /\ Running /\ ~stop_
  /\ stop_' = TRUE
  /\ run' = IF run.at = "wait" THEN [run EXCEPT !.at = "awake"] ELSE run
  /\ UNCHANGED <<disks, valid, writable, archive, fullBelow, newLedger_, healthy_, canDelete_,
                 fetch, history>>

-----------------------------------------------------------------------------
(***************************************************************************)
(* SHAMapStoreImp::health, called between the steps of a pass: the thread  *)
(* stops, goes on at "next", or gives the pass up.  Once unhealthy it      *)
(* stays so until the next pass.                                           *)
(***************************************************************************)
health(bad) == healthy_ /\ ~bad

checkHealth(go) ==
  \/ stop_ /\ run' = [go EXCEPT !.at = "stopped"] /\ UNCHANGED healthy_
  \/ /\ ~stop_
     /\ \E bad \in BOOLEAN :
          /\ healthy_' = health(bad)
          /\ run' = IF healthy_' THEN go ELSE [go EXCEPT !.at = "loop"]

(***************************************************************************)
(* The loop of run(): wait for a ledger.  A notification that comes while  *)
(* the thread is busy is lost, the ledger itself is not.                   *)
(***************************************************************************)
\* Mutant: the thread does not look whether the server is stopping before it waits.
waitForLedger_NoStop ==
  /\ run.at = "loop"
  /\ healthy_' = TRUE
  /\ run' = [NotRunning EXCEPT !.at = "wait", !.lastRotated = run.lastRotated]
  /\ UNCHANGED <<disks, valid, writable, archive, fullBelow, newLedger_, stop_, canDelete_, fetch,
                 history>>

waitForLedger ==
  /\ run.at = "loop"
  /\ healthy_' = TRUE
  /\ run' = [NotRunning EXCEPT !.at = IF stop_ THEN "stopped" ELSE "wait",
                               !.lastRotated = run.lastRotated]
  /\ UNCHANGED <<disks, valid, writable, archive, fullBelow, newLedger_, stop_, canDelete_, fetch,
                 history>>

takeLedger ==
  /\ run.at = "awake"
  /\ newLedger_' = 0
  /\ run' = [run EXCEPT !.at = IF newLedger_ = 0 THEN "loop" ELSE "decide", !.ledger = newLedger_]
  /\ UNCHANGED <<disks, valid, writable, archive, fullBelow, stop_, healthy_, canDelete_, fetch,
                 history>>

\* Mutant: it rotates as often as it can.
mayRotate_NoInterval(last) == canDelete_ >= last - 1

mayRotate(last) == run.ledger >= last + DeleteInterval /\ canDelete_ >= last - 1

decideToRotate ==
  LET last == IF run.lastRotated = 0 THEN run.ledger ELSE run.lastRotated
  IN  /\ run.at = "decide"
      /\ state' = IF run.lastRotated = 0 THEN [state EXCEPT !.lastRotated = last] ELSE state
      /\ IF mayRotate(last)
         THEN checkHealth([run EXCEPT !.at = "clear", !.lastRotated = last])
         ELSE /\ run' = [run EXCEPT !.at = "loop", !.lastRotated = last]
              /\ UNCHANGED healthy_
      /\ UNCHANGED <<disk, dirs, savedDelete, rows, valid, writable, archive, fullBelow, newLedger_,
                     stop_, canDelete_, fetch, history>>

(***************************************************************************)
(* clearPrior: the rows below lastRotated go in batches (clearSql).        *)
(***************************************************************************)
clearPrior ==
  /\ run.at = "clear"
  /\ checkHealth([run EXCEPT !.at = "batch",
                             !.min = IF rows = {} THEN run.lastRotated ELSE Min(rows)])
  /\ UNCHANGED <<disks, valid, writable, archive, fullBelow, newLedger_, stop_, canDelete_, fetch,
                 history>>

clearSqlBatch ==
  LET upto == Min({run.lastRotated, run.min + DeleteBatch})
  IN  /\ run.at = "batch" /\ run.min < run.lastRotated
      /\ rows' = {s \in rows : s >= upto}
      /\ deleted' = Max({deleted} \cup (rows \ rows'))
      /\ checkHealth([run EXCEPT !.min = upto])
      /\ UNCHANGED <<disk, dirs, state, savedDelete, valid, writable, archive, fullBelow,
                     newLedger_, stop_, canDelete_, fetch, allowed, crashes>>

clearSqlDone ==
  /\ run.at = "batch" /\ run.min >= run.lastRotated
  /\ checkHealth([run EXCEPT !.at = "copy", !.min = 0, !.todo = Contents[run.ledger]])
  /\ UNCHANGED <<disks, valid, writable, archive, fullBelow, newLedger_, stop_, canDelete_, fetch,
                 history>>

(***************************************************************************)
(* The ledger's nodes are fetched one by one, which copies what is only in *)
(* the archive; copyNode gives up when the server is unhealthy.            *)
(***************************************************************************)
copyNode(n) ==
  /\ run.at = "copy" /\ n \in run.todo
  /\ stored(writable, {n} \cap disk[archive])
  /\ \E bad \in BOOLEAN :
       /\ healthy_' = IF stop_ THEN healthy_ ELSE health(bad)
       /\ run' = IF stop_ \/ ~healthy_' THEN [run EXCEPT !.todo = {}]
                                        ELSE [run EXCEPT !.todo = @ \ {n}]
  /\ UNCHANGED <<dirs, state, savedDelete, rows, valid, writable, archive, fullBelow, newLedger_,
                 stop_, canDelete_, fetch, history>>

copied ==
  /\ run.at = "copy" /\ run.todo = {}
  /\ checkHealth([run EXCEPT !.at = "freshen"])
  /\ UNCHANGED <<disks, valid, writable, archive, fullBelow, newLedger_, stop_, canDelete_, fetch,
                 history>>

\* The nodes of the caches are fetched too, whichever they are.
freshenCaches ==
  /\ run.at = "freshen"
  /\ \E cached \in {{}, disk[archive]} : stored(writable, cached)
  /\ checkHealth([run EXCEPT !.at = "make"])
  /\ UNCHANGED <<dirs, state, savedDelete, rows, valid, writable, archive, fullBelow, newLedger_,
                 stop_, canDelete_, fetch, history>>

(***************************************************************************)
(* A new backend is made and the full-below cache cleared.  If the pass is *)
(* given up now, the new directory stays until the next start; the model   *)
(* stops that when directory names run out.                                *)
(***************************************************************************)
makeBackendRotating ==
  LET go == [run EXCEPT !.at = "rotate", !.new = fresh(dirs)]
  IN  /\ run.at = "make"
      /\ dirs' = dirs \cup {go.new}
      /\ fullBelow' = {}
      /\ IF Backend \ dirs' # {} THEN checkHealth(go) ELSE run' = go /\ UNCHANGED healthy_
      /\ UNCHANGED <<disk, state, savedDelete, rows, valid, writable, archive, newLedger_, stop_,
                     canDelete_, fetch, history>>

(***************************************************************************)
(* The rotation, under the node store's mutex: the state is saved, the     *)
(* caches cleared again and the backends swapped.                          *)
(***************************************************************************)
\* Mutant: the state is not saved.
rotateBackends_NotSaved ==
  /\ run.at = "rotate"
  /\ fullBelow' = {}
  /\ writable' = run.new /\ archive' = writable
  /\ run' = [run EXCEPT !.at = "delete", !.lastRotated = run.ledger, !.new = NoBackend,
                        !.old = archive]
  /\ UNCHANGED <<disks, valid, newLedger_, stop_, healthy_, canDelete_, fetch, history>>

\* Mutant: the full-below cache is not cleared again.
rotateBackends_KeepsCache ==
  /\ run.at = "rotate"
  /\ state' = [writable |-> run.new, archive |-> writable, lastRotated |-> run.ledger]
  /\ writable' = run.new /\ archive' = writable
  /\ run' = [run EXCEPT !.at = "delete", !.lastRotated = run.ledger, !.new = NoBackend,
                        !.old = archive]
  /\ UNCHANGED <<disk, dirs, savedDelete, rows, valid, fullBelow, newLedger_, stop_, healthy_,
                 canDelete_, fetch, history>>

rotateBackends ==
  /\ run.at = "rotate"
  /\ state' = [writable |-> run.new, archive |-> writable, lastRotated |-> run.ledger]
  /\ fullBelow' = {}
  /\ writable' = run.new /\ archive' = writable
  /\ run' = [run EXCEPT !.at = "delete", !.lastRotated = run.ledger, !.new = NoBackend,
                        !.old = archive]
  /\ UNCHANGED <<disk, dirs, savedDelete, rows, valid, newLedger_, stop_, healthy_, canDelete_,
                 fetch, history>>

deleteOldBackend ==
  /\ run.at = "delete"
  /\ dirs' = dirs \ {run.old} /\ disk' = [disk EXCEPT ![run.old] = {}]
  /\ run' = [run EXCEPT !.at = "loop", !.old = NoBackend]
  /\ UNCHANGED <<state, savedDelete, rows, valid, memory, fetch, history>>

-----------------------------------------------------------------------------
Pass ==
  \/ waitForLedger \/ takeLedger \/ decideToRotate
  \/ clearPrior \/ clearSqlBatch \/ clearSqlDone
  \/ \E n \in Node : copyNode(n)
  \/ copied \/ freshenCaches \/ makeBackendRotating \/ rotateBackends \/ deleteOldBackend

Start == dbPaths \/ makeDatabase

Next ==
  \/ Start \/ crash \/ Pass
  \/ buildLedger \/ acquireLedger
  \/ (\E n \in Node : fetchFirst(n)) \/ fetchSecond
  \/ (\E s \in 1 .. LastSeq : setCanDelete(s)) \/ onStop

Spec == Init /\ [][Next]_vars

\* The thread runs.
FairSpec == Spec /\ WF_vars(Pass)

-----------------------------------------------------------------------------
Names == Backend \cup {NoBackend}

\* The state's types.
TypeOK ==
  /\ disk \in [Backend -> SUBSET Node] /\ dirs \subseteq Backend
  /\ state \in [writable : Names, archive : Names, lastRotated : 0 .. LastSeq]
  /\ rows \subseteq 1 .. LastSeq /\ valid \in 0 .. LastSeq
  /\ writable \in Names /\ archive \in Names /\ fullBelow \subseteq Node
  /\ newLedger_ \in 0 .. LastSeq /\ stop_ \in BOOLEAN /\ healthy_ \in BOOLEAN
  /\ {savedDelete, canDelete_, allowed, deleted} \subseteq 0 .. Unlimited
  /\ run \in [at : {"down", "error", "open", "loop", "wait", "awake", "decide", "clear", "batch",
                    "copy", "freshen", "make", "rotate", "delete", "stopped"},
               ledger : 0 .. LastSeq, lastRotated : 0 .. LastSeq, todo : SUBSET Node,
               min : 0 .. LastSeq, new : Names, old : Names]
  /\ fetch \in [at : {"idle", "second", "missed"}, n : SUBSET Node, live : BOOLEAN]
  /\ crashes \in 0 .. MaxCrashes

(***************************************************************************)
(* Every node of the last validated ledger is in one of the two backends   *)
(* that the state database names, whatever step of a pass the server is at *)
(* or dies at, and however the ledger came in.                             *)
(***************************************************************************)
LastValidatedKept ==
  valid > 0 => Contents[valid] \subseteq disk[state.writable] \cup disk[state.archive]

(***************************************************************************)
(* No crash leaves a state database that names a missing directory, so     *)
(* that dbPaths refuses to start.                                          *)
(***************************************************************************)
StartNeverFails == run.at # "error"

(***************************************************************************)
(* "Maintain at least this number of ledger records online"                *)
(* (doc/radar-example.cfg): the rows of the last DeleteInterval ledgers    *)
(* are never deleted.                                                      *)
(***************************************************************************)
RecentRowsKept == \A s \in 1 .. valid : s > valid - DeleteInterval => s \in rows

(***************************************************************************)
(* With advisory_delete nothing is deleted beyond what the operator has    *)
(* allowed, also not after a restart.                                      *)
(***************************************************************************)
AdvisoryRespected == AdvisoryDelete => deleted <= allowed

(***************************************************************************)
(* A pass (clearPrior) deletes only what it may: neither a recent row nor  *)
(* one that the operator protects, whatever a crash or a failed health     *)
(* check interrupted before.                                               *)
(***************************************************************************)
DeletesWhatItMay == RecentRowsKept /\ AdvisoryRespected

(***************************************************************************)
(* A fetch of a node of the validated ledger finds it, although the        *)
(* backends may be rotated between its two look-ups.                       *)
(***************************************************************************)
FetchFinds == fetch.at # "missed"

(***************************************************************************)
(* The thread stops when it is told to, wherever it is and whether or not  *)
(* it hears the notification.                                              *)
(***************************************************************************)
StopsWhenTold == stop_ ~> run.at \in {"stopped", "down"}
=============================================================================
