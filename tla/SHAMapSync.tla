----------------------------- MODULE SHAMapSync -----------------------------
(***************************************************************************)
(* Acquiring SHAMaps: what of a tree is in the node store, what is in      *)
(* memory, and which subtrees are believed to be whole.                    *)
(*                                                                         *)
(* getMissingNodes walks a tree and lists the nodes to ask peers for.  It  *)
(* does not descend below a node that is known to be full below: one that  *)
(* is in the full-below cache, whose object in memory is marked, or that   *)
(* is an inner node read from the database ("found in db, set as full").   *)
(* The last rests on the order of writes: an inner node that is not a root *)
(* is to be stored only when all that is below it has been.  Two things    *)
(* break that order: a fetch pack, whose nodes are stored as they are      *)
(* taken, and a walk without a filter, which marks nodes and stores none.  *)
(*                                                                         *)
(* Several maps that share nodes are acquired at once, each by any number  *)
(* of threads; the server builds ledgers of its own, caches expire,        *)
(* acquisitions are swept, and the server may die between any two steps.   *)
(* Peers may send any node of the tree at any time, asked for or not.  The *)
(* generation of the full-below cache, which only online deletion changes, *)
(* is left out; the limits on the nodes listed and on the reads deferred   *)
(* at once may be reached at any time.                                     *)
(***************************************************************************)

CONSTANTS
  Node,         \* SHAMap nodes, named by their hashes
  Leaf,         \* the ones that are not inner nodes
  Kids,         \* Kids[n]: the children of node n
  Below,        \* Below[n]: all the nodes below node n
  Map,          \* the maps that are acquired
  Root,         \* Root[m]: the root node of map m
  Walker,       \* threads that look for missing nodes
  Of,           \* Of[t]: the map that thread t walks
  Own,          \* nodes of the ledgers this server builds itself
  PackNode,     \* nodes that come in fetch packs or in replies that are too late
  Filters       \* whether getMissingNodes is called with a filter

Roots == {Root[m] : m \in Map}

ASSUME TreeAssumption ==
  /\ Leaf \subseteq Node /\ Own \subseteq Node /\ PackNode \subseteq Node
  /\ Kids \in [Node -> SUBSET Node] /\ Below \in [Node -> SUBSET Node]
  /\ \A n \in Leaf : Kids[n] = {}
  /\ \A n \in Node : Below[n] = Kids[n] \cup UNION {Below[k] : k \in Kids[n]}
  /\ \A n \in Node : n \notin Below[n]
  /\ Root \in [Map -> Node \ Leaf]
  /\ \A n \in Node : Kids[n] \cap Roots = {}
  /\ Of \in [Walker -> Map]
  /\ Filters \subseteq BOOLEAN

VARIABLES
  db,         \* the node store
  cache,      \* the nodes that only the tree node cache holds in memory
  fullBelow,  \* the full-below cache
  full,       \* the nodes whose objects are marked full below
  pack,       \* the fetch pack cache
  hooked,     \* hooked[m]: the nodes linked into map m
  status,     \* status[m]: "synching" until the map is known to be whole
  walk,       \* walk[t]: thread t's call of getMissingNodes
  excused     \* history: nodes that were passed over when they were not stored, see Accounted

memory == <<cache, fullBelow, full, pack>>
vars == <<db, memory, hooked, status, walk, excused>>

(***************************************************************************)
(* A walk: the inner nodes entered and not yet left, the children looked   *)
(* at in this round, the ones of them not known to be full, the reads that *)
(* were deferred, the nodes that such reads did not find in this or an     *)
(* earlier round, and whether any node is on the list to ask peers for.    *)
(***************************************************************************)
Walk == [at : {"idle", "walk"}, filter : BOOLEAN, open : SUBSET Node, seen : SUBSET Node,
         part : SUBSET Node, deferred : SUBSET Node, missing : SUBSET Node, listed : BOOLEAN]
NoWalk == [at |-> "idle", filter |-> TRUE, open |-> {}, seen |-> {}, part |-> {},
           deferred |-> {}, missing |-> {}, listed |-> FALSE]

Init ==
  /\ db = {} /\ cache = {} /\ fullBelow = {} /\ full = {} /\ pack = {}
  /\ hooked = [m \in Map |-> {}] /\ status = [m \in Map |-> "synching"]
  /\ walk = [t \in Walker |-> NoWalk]
  /\ excused = {}

linked == UNION {hooked[m] : m \in Map}

\* The nodes with an object in memory: the cache finds one while anybody holds it.
mem == cache \cup linked

\* Nodes are linked into map m.
Hook(m, nodes) ==
  hooked' = [hooked EXCEPT ![m] = @ \cup nodes] /\ cache' = cache \ nodes

belowOf(nodes) == UNION {Below[n] : n \in nodes}

\* Nodes are taken out of the fetch pack and stored, whatever is below them.
checkFilter(taken) ==
  /\ db' = db \cup taken
  /\ pack' = pack \ taken
  /\ excused' = excused \cup (belowOf(taken \ (db \cup Roots)) \ db)

-----------------------------------------------------------------------------
(***************************************************************************)
(* A map's root is found locally or comes from a peer, and is stored then. *)
(***************************************************************************)
fetchRoot(m) ==
  /\ status[m] = "synching" /\ Root[m] \notin hooked[m]
  /\ Root[m] \in mem \cup db \cup pack
  /\ Hook(m, {Root[m]})
  /\ checkFilter({Root[m]} \ (mem \cup db))
  /\ UNCHANGED <<fullBelow, full, status, walk>>

addRootNode(m) ==
  /\ status[m] = "synching" /\ Root[m] \notin hooked[m]
  /\ Hook(m, {Root[m]})
  /\ db' = db \cup {Root[m]}
  /\ UNCHANGED <<fullBelow, full, pack, status, walk, excused>>

-----------------------------------------------------------------------------
(***************************************************************************)
(* getMissingNodes: rounds of a depth-first walk from the root.  A child   *)
(* that is neither known to be full nor in memory is taken from the fetch  *)
(* pack or from the node store's own cache, or its read is deferred to the *)
(* end of the round.                                                       *)
(***************************************************************************)
getMissingNodes(t, filter) ==
  LET m == Of[t]
  IN  /\ status[m] = "synching" /\ Root[m] \in hooked[m] /\ walk[t].at = "idle"
      /\ IF Root[m] \in full
         THEN status' = [status EXCEPT ![m] = "done"] /\ UNCHANGED walk
         ELSE /\ walk' = [walk EXCEPT ![t] = [NoWalk EXCEPT !.at = "walk", !.filter = filter,
                                                            !.open = {Root[m]}]]
              /\ UNCHANGED status
      /\ UNCHANGED <<db, memory, hooked, excused>>

\* The walk looks at child c of node n, the innermost it has entered.
AtChild(t, n, c) ==
  /\ walk[t].at = "walk" /\ n \in walk[t].open /\ Kids[n] \cap walk[t].open = {}
  /\ c \in Kids[n] \ walk[t].seen

\* The children that the walk need not look for: missing ones and full ones.
Known(t) == walk[t].missing \cup fullBelow

\* What the filter of the walk has.
packed(t) == IF walk[t].filter THEN pack ELSE {}

skipChild(t, n, c) ==
  /\ AtChild(t, n, c) /\ c \in Known(t)
  /\ walk' = [walk EXCEPT ![t].seen = @ \cup {c},
                          ![t].part = IF c \in walk[t].missing THEN @ \cup {c} ELSE @]
  /\ UNCHANGED <<db, memory, hooked, status, excused>>

loadChild(t, n, c) ==
  /\ AtChild(t, n, c) /\ c \notin Known(t)
  /\ c \in mem \cup db \cup packed(t)
  /\ Hook(Of[t], {c})
  /\ checkFilter(({c} \cap packed(t)) \ mem)
  /\ walk' = [walk EXCEPT ![t].seen = @ \cup {c},
                          ![t].open = IF c \in Leaf \cup full THEN @ ELSE @ \cup {c}]
  /\ UNCHANGED <<fullBelow, full, status>>

\* The node store remembers that it does not have the node.
missChild(t, n, c) ==
  /\ AtChild(t, n, c) /\ c \notin Known(t)
  /\ c \notin mem \cup db \cup packed(t)
  /\ walk' = [walk EXCEPT ![t].seen = @ \cup {c}, ![t].part = @ \cup {c}, ![t].listed = TRUE]
  /\ UNCHANGED <<db, memory, hooked, status, excused>>

\* Mutant: a parent is not told that the read of a child is pending.
deferRead_Forgets(t, n, c) ==
  /\ AtChild(t, n, c) /\ c \notin Known(t)
  /\ c \notin mem \cup packed(t)
  /\ walk' = [walk EXCEPT ![t].seen = @ \cup {c}, ![t].deferred = @ \cup {c}]
  /\ UNCHANGED <<db, memory, hooked, status, excused>>

deferRead(t, n, c) ==
  /\ AtChild(t, n, c) /\ c \notin Known(t)
  /\ c \notin mem \cup packed(t)
  /\ walk' = [walk EXCEPT ![t].seen = @ \cup {c}, ![t].part = @ \cup {c},
                          ![t].deferred = @ \cup {c}]
  /\ UNCHANGED <<db, memory, hooked, status, excused>>

\* The walk leaves node n; if all below it is there, n is marked, and stored by the filter.
leaveNode(t, n) ==
  /\ walk[t].at = "walk" /\ n \in walk[t].open /\ Kids[n] \cap walk[t].open = {}
  /\ Kids[n] \subseteq walk[t].seen
  /\ IF Kids[n] \cap walk[t].part = {}
     THEN /\ full' = full \cup {n} /\ fullBelow' = fullBelow \cup {n}
          /\ db' = IF walk[t].filter THEN db \cup {n} ELSE db
          /\ excused' = IF walk[t].filter THEN excused ELSE excused \cup ({n} \ db)
          /\ walk' = [walk EXCEPT ![t].open = @ \ {n}]
     ELSE /\ walk' = [walk EXCEPT ![t].open = @ \ {n}, ![t].part = @ \cup {n}]
          /\ UNCHANGED <<full, fullBelow, db, excused>>
  /\ UNCHANGED <<cache, pack, hooked, status>>

(***************************************************************************)
(* The deferred reads are done and the next round begins.  An inner node   *)
(* that only the database has is marked full below.  A round also ends,    *)
(* with nodes still open, when more reads are deferred than may be.        *)
(***************************************************************************)
deferredReads(t) ==
  LET w == walk[t]
      found == w.deferred \cap (mem \cup db \cup packed(t))
      inDb == (w.deferred \cap db) \ (mem \cup Leaf)
      absent == w.deferred \ found
  IN  /\ w.at = "walk" /\ w.deferred # {}
      /\ Hook(Of[t], found)
      /\ checkFilter(found \ (mem \cup db))
      /\ full' = full \cup inDb /\ fullBelow' = fullBelow \cup inDb
      /\ walk' = [walk EXCEPT ![t] = [w EXCEPT !.open = {Root[Of[t]]}, !.seen = {}, !.part = {},
                                               !.deferred = {}, !.missing = @ \cup absent,
                                               !.listed = @ \/ absent # {}]]
      /\ UNCHANGED status

\* Mutant: only the reads that were deferred count as missing.
endWalk_Deferred(t) ==
  LET w == walk[t]
  IN  /\ w.at = "walk" /\ w.open = {} /\ w.deferred = {}
      /\ walk' = [walk EXCEPT ![t] = NoWalk]
      /\ status' = IF w.missing = {} THEN [status EXCEPT ![Of[t]] = "done"] ELSE status
      /\ UNCHANGED <<db, memory, hooked, excused>>

\* No read is deferred: if no node is to be asked for the map is whole.
endWalk(t) ==
  LET w == walk[t]
  IN  /\ w.at = "walk" /\ w.open = {} /\ w.deferred = {}
      /\ walk' = [walk EXCEPT ![t] = NoWalk]
      /\ status' = IF w.listed THEN status ELSE [status EXCEPT ![Of[t]] = "done"]
      /\ UNCHANGED <<db, memory, hooked, excused>>

\* As many nodes are listed as may be asked for at once: the walk is given up.
enough(t) ==
  /\ walk[t].at = "walk" /\ walk[t].listed
  /\ walk' = [walk EXCEPT ![t] = NoWalk]
  /\ UNCHANGED <<db, memory, hooked, status, excused>>

-----------------------------------------------------------------------------
(***************************************************************************)
(* A peer sends nodes.  addKnownNode walks to a node's place, from a node  *)
(* p that is linked to its child n and on, as long as nothing on the way   *)
(* is full.  A child that is here is linked on the way; where none is, the *)
(* node that was sent is linked if it belongs there, and stored if it is a *)
(* leaf.                                                                   *)
(***************************************************************************)
above(m, n) == {p \in hooked[m] : n \in Below[p]}

\* The node is stored now, not when the tree below it is there.
kept(n) == {n} \cap Leaf

addKnownNode(m, p, n) ==
  /\ status[m] = "synching" /\ p \in hooked[m] /\ n \in Kids[p] \ hooked[m]
  /\ (above(m, p) \cup {p}) \cap full = {}
  /\ ((above(m, p) \ {Root[m]}) \cup ({p} \ {Root[m]}) \cup {n}) \cap fullBelow = {}
  /\ Hook(m, {n})
  /\ IF n \in mem \cup db \cup pack
     THEN checkFilter({n} \ (mem \cup db))
     ELSE db' = db \cup kept(n) /\ UNCHANGED <<pack, excused>>
  /\ UNCHANGED <<fullBelow, full, status, walk>>

\* A fetch pack comes, or the answer to an acquisition that has been swept.
addFetchPack(n) ==
  /\ n \in PackNode \ pack
  /\ pack' = pack \cup {n}
  /\ UNCHANGED <<db, cache, fullBelow, full, hooked, status, walk, excused>>

\* A ledger built here is flushed: walkSubTree writes a node after its children.
writeNode(n) ==
  /\ n \in Own \ db /\ Kids[n] \subseteq db
  /\ db' = db \cup {n} /\ cache' = cache \cup ({n} \ linked)
  /\ UNCHANGED <<fullBelow, full, pack, hooked, status, walk, excused>>

-----------------------------------------------------------------------------
\* Objects that nobody holds any more are gone, and their marks with them.
sweepCache(n) ==
  /\ n \in cache
  /\ cache' = cache \ {n} /\ full' = full \ {n}
  /\ UNCHANGED <<db, fullBelow, pack, hooked, status, walk, excused>>

sweepFullBelow(n) ==
  /\ n \in fullBelow
  /\ fullBelow' = fullBelow \ {n}
  /\ UNCHANGED <<db, cache, full, pack, hooked, status, walk, excused>>

(***************************************************************************)
(* The acquisition is swept, or the ledger it gave is released; it may     *)
(* start anew.  The cache holds its nodes until they are swept.            *)
(***************************************************************************)
drop(m) ==
  /\ \A t \in Walker : Of[t] = m => walk[t].at = "idle"
  /\ hooked[m] # {}
  /\ hooked' = [hooked EXCEPT ![m] = {}]
  /\ LET loose == {n \in hooked[m] : \A o \in Map \ {m} : n \notin hooked[o]}
     IN  cache' = cache \cup loose
  /\ status' = [status EXCEPT ![m] = "synching"]
  /\ UNCHANGED <<db, fullBelow, full, pack, walk, excused>>

crash ==
  /\ cache' = {} /\ fullBelow' = {} /\ full' = {} /\ pack' = {}
  /\ hooked' = [m \in Map |-> {}] /\ status' = [m \in Map |-> "synching"]
  /\ walk' = [t \in Walker |-> NoWalk]
  /\ UNCHANGED <<db, excused>>

-----------------------------------------------------------------------------
WalkStep(t) ==
  \/ \E n \in walk[t].open :
       \/ \E c \in Kids[n] : \/ skipChild(t, n, c) \/ loadChild(t, n, c)
                             \/ missChild(t, n, c) \/ deferRead(t, n, c)
       \/ leaveNode(t, n)
  \/ deferredReads(t) \/ enough(t) \/ endWalk(t)

MapStep(m) ==
  \/ fetchRoot(m) \/ addRootNode(m)
  \/ \E p \in hooked[m] : \E n \in Kids[p] : addKnownNode(m, p, n)
  \/ drop(m)

Next ==
  \/ \E m \in Map : MapStep(m)
  \/ \E t \in Walker : WalkStep(t) \/ \E filter \in Filters : getMissingNodes(t, filter)
  \/ \E n \in Node : addFetchPack(n) \/ writeNode(n) \/ sweepCache(n) \/ sweepFullBelow(n)
  \/ crash

Spec == Init /\ [][Next]_vars

-----------------------------------------------------------------------------
\* The state's types.
TypeOK ==
  /\ db \subseteq Node /\ cache \subseteq Node /\ fullBelow \subseteq Node /\ full \subseteq Node
  /\ pack \subseteq Node
  /\ hooked \in [Map -> SUBSET Node] /\ status \in [Map -> {"synching", "done"}]
  /\ walk \in [Walker -> Walk]
  /\ excused \subseteq Node

(***************************************************************************)
(* "Remembers which tree keys have all descendants resident"               *)
(* (FullBelowCache.h): all that is below a node in the full-below cache,   *)
(* or one marked full, is in the node store.                               *)
(***************************************************************************)
FullBelowIsResident == \A n \in fullBelow \cup full : Below[n] \subseteq db

(***************************************************************************)
(* The nodes that are in the store, or whose absence has one of the two    *)
(* known causes: a walk without a filter found the node whole and did not  *)
(* store it, or a node above it was stored straight from a fetch pack when *)
(* it was not there.                                                       *)
(***************************************************************************)
Accounted == db \cup excused

(***************************************************************************)
(* The full-below cache and the marks of the objects, which every walk     *)
(* trusts, are wrong about a missing node for these two causes only,       *)
(* whatever walks, replies, sweeps and crashes come between.               *)
(***************************************************************************)
FullBelowIsAccounted == \A n \in fullBelow \cup full : Below[n] \subseteq Accounted

(***************************************************************************)
(* What "found in db, set as full" rests on: below an inner node in the    *)
(* node store nothing is missing for another cause.  Roots are stored      *)
(* before all that is below them; a walk starts at them and never reads    *)
(* them in this way.                                                       *)
(***************************************************************************)
StoredIsFull == \A n \in db \ (Leaf \cup Roots) : Below[n] \subseteq Accounted

(***************************************************************************)
(* When an acquisition says that the map is complete, no node of it is     *)
(* missing in the node store for another cause.                            *)
(***************************************************************************)
CompleteIsWhole == \A m \in Map : status[m] = "done" => Below[Root[m]] \subseteq Accounted

(***************************************************************************)
(* The node store can be relied on, by the walks that find an inner node   *)
(* there and by the ledgers that are built on a complete map, after any    *)
(* crash, sweep or expiry, for trees that share nodes and for several      *)
(* threads on one tree; a fetch pack with inner nodes and a walk without a *)
(* filter are the only things that make it unreliable.                     *)
(***************************************************************************)
StoreIsWhole == StoredIsFull /\ CompleteIsWhole
=============================================================================
