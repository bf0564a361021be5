-------------------------- MODULE SHAMapSyncProofs --------------------------
(***************************************************************************)
(* Proofs about the acquisition of SHAMaps, for every forest of trees, any *)
(* number of maps that share nodes and of threads that walk them, with and *)
(* without filters, for any nodes in fetch packs, and any order of walks,  *)
(* replies, sweeps and crashes.                                            *)
(***************************************************************************)
EXTENDS SHAMapSync, TLAPS

\* Node c and all that is below it are accounted for.
Whole(c) == c \in Accounted /\ Below[c] \subseteq Accounted

(***************************************************************************)
(* What memory holds: marked nodes are accounted for themselves, and every *)
(* leaf with an object is stored.                                          *)
(***************************************************************************)
MemoryIsStored ==
  /\ fullBelow \cup full \subseteq Accounted
  /\ mem \cap Leaf \subseteq db

(***************************************************************************)
(* A walk under way: a child it has looked at and is not inside of is      *)
(* whole or was noted as partial; the root is the same; and a partial node *)
(* has its reason, a node on the list or a pending read.                   *)
(***************************************************************************)
WalkIsSound(t) ==
  LET w == walk[t]
      r == Root[Of[t]]
  IN  w.at = "walk" =>
        /\ \A c \in w.seen : c \in w.part \cup w.open \/ Whole(c)
        /\ r \in w.part \cup w.open \/ Below[r] \subseteq Accounted
        /\ w.part # {} => w.deferred # {} \/ w.listed
        /\ w.missing # {} => w.listed
        /\ w.deferred \cap Roots = {}

IInv ==
  /\ TypeOK /\ StoredIsFull /\ FullBelowIsAccounted /\ CompleteIsWhole
  /\ MemoryIsStored
  /\ \A t \in Walker : WalkIsSound(t)

-----------------------------------------------------------------------------
(***************************************************************************)
(* Facts about trees: leaves have nothing below them, children are never   *)
(* roots, and what is below a node is its children and what is below them. *)
(***************************************************************************)
LEMMA TreeFacts ==
  /\ \A n \in Leaf : n \in Node /\ Below[n] = {}
  /\ \A n \in Node : Kids[n] \subseteq Node /\ Kids[n] \cap Roots = {}
  /\ \A n \in Node : Below[n] \subseteq Node
  /\ \A m \in Map : Root[m] \in Node /\ Root[m] \notin Leaf /\ Root[m] \in Roots
  /\ \A n \in Node : \A D : (\A k \in Kids[n] : k \in D /\ Below[k] \subseteq D) => Below[n] \subseteq D
<1>1. ASSUME NEW n \in Leaf
      PROVE  n \in Node /\ Below[n] = {}
  <2>1. n \in Node /\ Kids[n] = {} /\ Below[n] = Kids[n] \cup UNION {Below[k] : k \in Kids[n]}
    BY TreeAssumption
  <2>2. \A x : x \notin Below[n]
    BY <2>1
  <2> QED
    BY <2>1, <2>2
<1>2. \A n \in Node : Kids[n] \subseteq Node /\ Kids[n] \cap Roots = {} /\ Below[n] \subseteq Node
  BY TreeAssumption
<1>3. \A m \in Map : Root[m] \in Node /\ Root[m] \notin Leaf /\ Root[m] \in Roots
  BY TreeAssumption DEF Roots
<1>4. ASSUME NEW n \in Node, NEW D, \A k \in Kids[n] : k \in D /\ Below[k] \subseteq D
      PROVE  Below[n] \subseteq D
  <2>1. Below[n] = Kids[n] \cup UNION {Below[k] : k \in Kids[n]}
    BY TreeAssumption
  <2> QED
    BY <1>4, <2>1
<1> QED
  BY <1>1, <1>2, <1>3, <1>4

LEMMA WalkerFacts == \A t \in Walker : Of[t] \in Map /\ Root[Of[t]] \in Node /\ Root[Of[t]] \in Roots
  BY TreeAssumption, TreeFacts

(***************************************************************************)
(* What every action leaves to show: the store and the excuses only grow;  *)
(* a new node of the store, a new mark and a new complete map have nothing *)
(* below them that is not accounted for; a new leaf is stored; and the     *)
(* walk that moves stays sound.                                            *)
(***************************************************************************)
LEMMA StepKept ==
  ASSUME IInv, TypeOK', db \subseteq db', excused \subseteq excused',
         \A n \in db' \ db : n \in Leaf \cup Roots \/ Below[n] \subseteq Accounted',
         \A n \in fullBelow' \cup full' :
           n \in fullBelow \cup full \/ (n \in Accounted' /\ Below[n] \subseteq Accounted'),
         \A m \in Map : status'[m] = "done" =>
           status[m] = "done" \/ Below[Root[m]] \subseteq Accounted',
         \A n \in mem' \cap Leaf : n \in mem \cup db',
         \A t \in Walker : walk'[t] = walk[t] \/ WalkIsSound(t)'
  PROVE  IInv'
<1>1. Accounted \subseteq Accounted'
  BY DEF Accounted
<1>2. StoredIsFull' /\ FullBelowIsAccounted' /\ CompleteIsWhole'
  BY <1>1 DEF IInv, StoredIsFull, FullBelowIsAccounted, CompleteIsWhole
<1>3. MemoryIsStored'
  BY <1>1 DEF IInv, MemoryIsStored
<1>4. \A t \in Walker : WalkIsSound(t)'
  <2> SUFFICES ASSUME NEW t \in Walker, walk'[t] = walk[t] PROVE WalkIsSound(t)'
    OBVIOUS
  <2>1. WalkIsSound(t)
    BY DEF IInv
  <2>2. \A c : Whole(c) => Whole(c)'
    BY <1>1 DEF Whole
  <2> QED
    BY <1>1, <2>1, <2>2 DEF WalkIsSound
<1> QED
  BY <1>2, <1>3, <1>4 DEF IInv

(***************************************************************************)
(* Linking nodes into a map changes what memory holds by these nodes only. *)
(***************************************************************************)
LEMMA HookMemory ==
  ASSUME TypeOK, NEW m \in Map, NEW nodes \in SUBSET Node, Hook(m, nodes)
  PROVE  /\ mem' = mem \cup nodes
         /\ hooked' \in [Map -> SUBSET Node]
         /\ cache' \subseteq Node
<1>1. /\ hooked' \in [Map -> SUBSET Node] /\ cache' \subseteq Node
      /\ hooked'[m] = hooked[m] \cup nodes
      /\ \A o \in Map \ {m} : hooked'[o] = hooked[o]
      /\ cache' = cache \ nodes
  BY DEF TypeOK, Hook
<1>2. linked' = linked \cup nodes
  <2>1. \A x : x \in linked <=> \E o \in Map : x \in hooked[o]
    BY DEF linked
  <2>2. \A x : x \in linked' <=> \E o \in Map : x \in hooked'[o]
    BY DEF linked
  <2> QED
    BY <1>1, <2>1, <2>2
<1> QED
  BY <1>1, <1>2 DEF mem

(***************************************************************************)
(* What is taken from a fetch pack is stored, and what is missing below it *)
(* is excused then.                                                        *)
(***************************************************************************)
LEMMA CheckFilterFacts ==
  ASSUME TypeOK, NEW taken \in SUBSET Node, checkFilter(taken)
  PROVE  /\ db' = db \cup taken /\ db' \subseteq Node /\ pack' \subseteq Node
         /\ excused \subseteq excused' /\ excused' \subseteq Node
         /\ \A n \in db' \ db : n \in Leaf \cup Roots \/ Below[n] \subseteq Accounted'
<1>1. /\ db' = db \cup taken /\ pack' = pack \ taken
      /\ excused' = excused \cup (belowOf(taken \ (db \cup Roots)) \ db)
  BY DEF checkFilter
<1>2. belowOf(taken \ (db \cup Roots)) \subseteq Node
  BY TreeFacts DEF belowOf
<1>3. \A n \in taken \ (db \cup Roots) : Below[n] \subseteq belowOf(taken \ (db \cup Roots))
  BY DEF belowOf
<1>4. \A n \in taken \ (db \cup Roots) : Below[n] \subseteq db' \cup excused'
  BY <1>1, <1>3
<1> QED
  BY <1>1, <1>2, <1>4 DEF TypeOK, Accounted

-----------------------------------------------------------------------------
(***************************************************************************)
(* A server that starts with an empty store.                               *)
(***************************************************************************)
LEMMA InitInv == Init => IInv
<1> SUFFICES ASSUME Init PROVE IInv
  OBVIOUS
<1>1. TypeOK
  BY DEF Init, TypeOK, Walk, NoWalk
<1>2. StoredIsFull /\ FullBelowIsAccounted /\ CompleteIsWhole
  BY DEF Init, StoredIsFull, FullBelowIsAccounted, CompleteIsWhole
<1>3. MemoryIsStored
  BY DEF Init, MemoryIsStored, mem, linked
<1>4. \A t \in Walker : WalkIsSound(t)
  BY DEF Init, WalkIsSound, NoWalk
<1> QED
  BY <1>1, <1>2, <1>3, <1>4 DEF IInv

(***************************************************************************)
(* fetchRoot and addRootNode: the root may be stored with nothing below.   *)
(***************************************************************************)
LEMMA RootInv ==
  ASSUME IInv, NEW m \in Map, fetchRoot(m) \/ addRootNode(m)
  PROVE  IInv'
<1>1. Hook(m, {Root[m]}) /\ UNCHANGED <<fullBelow, full, status, walk>>
  BY DEF fetchRoot, addRootNode
<1>2. Root[m] \in Node /\ Root[m] \notin Leaf /\ Root[m] \in Roots
  BY TreeFacts
<1>3. TypeOK
  BY DEF IInv
<1>4. /\ mem' = mem \cup {Root[m]}
      /\ hooked' \in [Map -> SUBSET Node] /\ cache' \subseteq Node
  BY <1>1, <1>2, <1>3, HookMemory
<1>5. /\ db \subseteq db' /\ db' \subseteq db \cup {Root[m]} /\ db' \subseteq Node /\ pack' \subseteq Node
      /\ excused \subseteq excused' /\ excused' \subseteq Node
  <2>1. CASE fetchRoot(m)
    <3>1. checkFilter({Root[m]} \ (mem \cup db)) /\ {Root[m]} \ (mem \cup db) \in SUBSET Node
      BY <1>2, <2>1 DEF fetchRoot
    <3> QED
      BY <1>3, <3>1, CheckFilterFacts
  <2>2. CASE addRootNode(m)
    BY <1>2, <1>3, <2>2 DEF addRootNode, TypeOK
  <2> QED
    BY <2>1, <2>2
<1>6. TypeOK'
  BY <1>1, <1>3, <1>4, <1>5 DEF TypeOK
<1> QED
  BY <1>1, <1>2, <1>4, <1>5, <1>6, StepKept

(***************************************************************************)
(* A walk begins at the root, or finds the root marked: then all below the *)
(* root is accounted for and the map is complete.                          *)
(***************************************************************************)
LEMMA BeginInv ==
  ASSUME IInv, NEW t \in Walker, NEW filter \in Filters, getMissingNodes(t, filter)
  PROVE  IInv'
<1> DEFINE m == Of[t]
<1>0. UNCHANGED <<db, cache, fullBelow, full, pack, hooked, excused>>
  BY DEF getMissingNodes, memory
<1>1. filter \in BOOLEAN /\ TypeOK /\ m \in Map /\ Root[m] \in Node
  BY TreeAssumption, WalkerFacts DEF IInv
<1>2. mem' = mem /\ Accounted' = Accounted
  BY <1>0 DEF mem, linked, Accounted
<1>3. CASE Root[m] \in full
  <2>1. status' = [status EXCEPT ![m] = "done"] /\ walk' = walk
    BY <1>3 DEF getMissingNodes
  <2>2. TypeOK'
    BY <1>0, <1>1, <2>1 DEF TypeOK
  <2>3. Below[Root[m]] \subseteq Accounted
    BY <1>3 DEF IInv, FullBelowIsAccounted
  <2>4. \A o \in Map : status'[o] = "done" => status[o] = "done" \/ Below[Root[o]] \subseteq Accounted'
    BY <1>1, <1>2, <2>1, <2>3 DEF TypeOK
  <2> QED
    BY <1>0, <1>2, <2>1, <2>2, <2>4, StepKept
<1>4. CASE Root[m] \notin full
  <2> DEFINE v == [NoWalk EXCEPT !.at = "walk", !.filter = filter, !.open = {Root[m]}]
  <2>1. walk' = [walk EXCEPT ![t] = v] /\ status' = status
    BY <1>4 DEF getMissingNodes
  <2>2. v \in Walk /\ v.open = {Root[m]} /\ v.seen = {} /\ v.part = {} /\ v.deferred = {} /\ v.missing = {}
    BY <1>1 DEF Walk, NoWalk
  <2> HIDE DEF v
  <2>3. TypeOK' /\ walk'[t] = v /\ \A u \in Walker \ {t} : walk'[u] = walk[u]
    BY <1>0, <1>1, <2>1, <2>2 DEF TypeOK
  <2>4. WalkIsSound(t)'
    BY <2>2, <2>3 DEF WalkIsSound
  <2> QED
    BY <1>0, <1>2, <2>1, <2>3, <2>4, StepKept
<1> QED
  BY <1>3, <1>4

-----------------------------------------------------------------------------
(***************************************************************************)
(* A child is found in the full-below cache, or is on the list.            *)
(***************************************************************************)
LEMMA SkipChildInv ==
  ASSUME IInv, NEW t \in Walker, NEW n \in walk[t].open, NEW c \in Kids[n], skipChild(t, n, c)
  PROVE  IInv'
<1> DEFINE w == walk[t]
           v == [w EXCEPT !.seen = @ \cup {c},
                          !.part = IF c \in w.missing THEN @ \cup {c} ELSE @]
<1>0. UNCHANGED <<db, cache, fullBelow, full, pack, hooked, status, excused>>
  BY DEF skipChild, memory
<1>1. TypeOK /\ w \in Walk /\ n \in Node /\ c \in Node /\ w.at = "walk" /\ WalkIsSound(t)
  BY TreeFacts DEF IInv, TypeOK, Walk, skipChild, AtChild
<1>2. walk' = [walk EXCEPT ![t] = v]
  BY <1>1 DEF skipChild, TypeOK
<1>3. /\ v \in Walk
      /\ v.at = w.at /\ v.open = w.open /\ v.deferred = w.deferred /\ v.listed = w.listed
      /\ v.missing = w.missing /\ v.seen = w.seen \cup {c}
      /\ v.part = IF c \in w.missing THEN w.part \cup {c} ELSE w.part
  BY <1>1 DEF Walk
<1> HIDE DEF v
<1>4. TypeOK' /\ walk'[t] = v /\ \A u \in Walker \ {t} : walk'[u] = walk[u]
  BY <1>0, <1>1, <1>2, <1>3 DEF TypeOK
<1>5. mem' = mem /\ Accounted' = Accounted
  BY <1>0 DEF mem, linked, Accounted
<1>6. c \in w.missing \/ Whole(c)
  BY DEF skipChild, Known, IInv, FullBelowIsAccounted, MemoryIsStored, Whole
<1>7. WalkIsSound(t)'
  <2>1. \A x : Whole(x)' <=> Whole(x)
    BY <1>5 DEF Whole
  <2> QED
    BY <1>1, <1>3, <1>4, <1>5, <1>6, <2>1 DEF WalkIsSound
<1> QED
  BY <1>0, <1>4, <1>5, <1>7, StepKept

(***************************************************************************)
(* A child is taken from memory, the store or a pack.  What is not entered *)
(* is a leaf, stored by now, or marked.                                    *)
(***************************************************************************)
LEMMA LoadChildInv ==
  ASSUME IInv, NEW t \in Walker, NEW n \in walk[t].open, NEW c \in Kids[n], loadChild(t, n, c)
  PROVE  IInv'
<1> DEFINE w == walk[t]
           v == [w EXCEPT !.seen = @ \cup {c},
                          !.open = IF c \in Leaf \cup full THEN @ ELSE @ \cup {c}]
<1>0. /\ UNCHANGED <<fullBelow, full, status>>
      /\ Hook(Of[t], {c}) /\ checkFilter(({c} \cap packed(t)) \ mem)
      /\ c \in mem \cup db \cup packed(t)
  BY DEF loadChild
<1>1. /\ TypeOK /\ w \in Walk /\ n \in Node /\ c \in Node /\ w.at = "walk" /\ WalkIsSound(t)
      /\ Of[t] \in Map
  BY TreeFacts, WalkerFacts DEF IInv, TypeOK, Walk, loadChild, AtChild
<1>2. walk' = [walk EXCEPT ![t] = v]
  BY <1>1 DEF loadChild, TypeOK
<1>3. /\ v \in Walk
      /\ v.at = w.at /\ v.part = w.part /\ v.deferred = w.deferred /\ v.listed = w.listed
      /\ v.missing = w.missing /\ v.seen = w.seen \cup {c}
      /\ v.open = IF c \in Leaf \cup full THEN w.open ELSE w.open \cup {c}
  BY <1>1 DEF Walk
<1> HIDE DEF v
<1>4. mem' = mem \cup {c} /\ hooked' \in [Map -> SUBSET Node] /\ cache' \subseteq Node
  BY <1>0, <1>1, HookMemory
<1>5. /\ db' = db \cup (({c} \cap packed(t)) \ mem) /\ db' \subseteq Node /\ pack' \subseteq Node
      /\ excused \subseteq excused' /\ excused' \subseteq Node
      /\ \A x \in db' \ db : x \in Leaf \cup Roots \/ Below[x] \subseteq Accounted'
  <2>1. ({c} \cap packed(t)) \ mem \in SUBSET Node
    BY <1>1
  <2> QED
    BY <1>0, <1>1, <2>1, CheckFilterFacts
<1>6. TypeOK' /\ walk'[t] = v /\ \A u \in Walker \ {t} : walk'[u] = walk[u]
  BY <1>0, <1>1, <1>2, <1>3, <1>4, <1>5 DEF TypeOK
<1>7. Accounted \subseteq Accounted' /\ c \in mem \cup db'
  BY <1>0, <1>5 DEF Accounted
<1>8. c \in Leaf \cup full => Whole(c)'
  <2>1. CASE c \in full
    BY <1>7, <2>1 DEF IInv, MemoryIsStored, FullBelowIsAccounted, Whole
  <2>2. CASE c \in Leaf
    <3>1. c \in db' /\ Below[c] = {}
      BY <1>5, <1>7, <2>2, TreeFacts DEF IInv, MemoryIsStored
    <3> QED
      BY <3>1 DEF Whole, Accounted
  <2> QED
    BY <2>1, <2>2
<1>9. WalkIsSound(t)'
  <2>1. \A x : Whole(x) => Whole(x)'
    BY <1>7 DEF Whole
  <2> QED
    BY <1>1, <1>3, <1>6, <1>7, <1>8, <2>1 DEF WalkIsSound
<1>10. \A x \in mem' \cap Leaf : x \in mem \cup db'
  BY <1>4, <1>7
<1> QED
  BY <1>0, <1>5, <1>6, <1>9, <1>10, StepKept

(***************************************************************************)
(* A child is not here, or its read is deferred: it is noted as partial.   *)
(***************************************************************************)
LEMMA PendingChildInv ==
  ASSUME IInv, NEW t \in Walker, NEW n \in walk[t].open, NEW c \in Kids[n],
         missChild(t, n, c) \/ deferRead(t, n, c)
  PROVE  IInv'
<1> DEFINE w == walk[t]
<1>0. UNCHANGED <<db, cache, fullBelow, full, pack, hooked, status, excused>>
  BY DEF missChild, deferRead, memory
<1>1. /\ TypeOK /\ w \in Walk /\ n \in Node /\ c \in Node /\ c \notin Roots
      /\ w.at = "walk" /\ WalkIsSound(t)
  BY TreeFacts DEF IInv, TypeOK, Walk, missChild, deferRead, AtChild
<1>2. PICK v \in Walk :
        /\ walk' = [walk EXCEPT ![t] = v]
        /\ v.at = w.at /\ v.open = w.open /\ v.missing = w.missing
        /\ v.seen = w.seen \cup {c} /\ v.part = w.part \cup {c}
        /\ v.deferred \in {w.deferred, w.deferred \cup {c}} /\ (w.listed => v.listed)
        /\ v.deferred # {} \/ v.listed
  <2>1. CASE missChild(t, n, c)
    <3> DEFINE v == [w EXCEPT !.seen = @ \cup {c}, !.part = @ \cup {c}, !.listed = TRUE]
    <3>1. walk' = [walk EXCEPT ![t] = v]
      BY <1>1, <2>1 DEF missChild, TypeOK
    <3>2. /\ v \in Walk /\ v.at = w.at /\ v.open = w.open /\ v.missing = w.missing
          /\ v.seen = w.seen \cup {c} /\ v.part = w.part \cup {c}
          /\ v.deferred = w.deferred /\ v.listed
      BY <1>1 DEF Walk
    <3> HIDE DEF v
    <3> QED
      BY <3>1, <3>2
  <2>2. CASE deferRead(t, n, c)
    <3> DEFINE v == [w EXCEPT !.seen = @ \cup {c}, !.part = @ \cup {c}, !.deferred = @ \cup {c}]
    <3>1. walk' = [walk EXCEPT ![t] = v]
      BY <1>1, <2>2 DEF deferRead, TypeOK
    <3>2. /\ v \in Walk /\ v.at = w.at /\ v.open = w.open /\ v.missing = w.missing
          /\ v.seen = w.seen \cup {c} /\ v.part = w.part \cup {c}
          /\ v.deferred = w.deferred \cup {c} /\ v.listed = w.listed
      BY <1>1 DEF Walk
    <3> HIDE DEF v
    <3> QED
      BY <3>1, <3>2
  <2> QED
    BY <2>1, <2>2
<1>3. TypeOK' /\ walk'[t] = v /\ \A u \in Walker \ {t} : walk'[u] = walk[u]
  BY <1>0, <1>1, <1>2 DEF TypeOK
<1>4. mem' = mem /\ Accounted' = Accounted
  BY <1>0 DEF mem, linked, Accounted
<1>5. WalkIsSound(t)'
  <2>1. \A x : Whole(x)' <=> Whole(x)
    BY <1>4 DEF Whole
  <2>2. v.deferred \cap Roots = {}
    BY <1>1, <1>2 DEF WalkIsSound
  <2> QED
    BY <1>1, <1>2, <1>3, <1>4, <2>1, <2>2 DEF WalkIsSound
<1> QED
  BY <1>0, <1>3, <1>4, <1>5, StepKept

(***************************************************************************)
(* The walk leaves a node none of whose children is partial: all of them   *)
(* are whole, so it may be marked and stored.                              *)
(***************************************************************************)
LEMMA LeaveNodeInv ==
  ASSUME IInv, NEW t \in Walker, NEW n \in walk[t].open, leaveNode(t, n)
  PROVE  IInv'
<1> DEFINE w == walk[t]
<1>0. /\ UNCHANGED <<cache, pack, hooked, status>>
      /\ Kids[n] \subseteq w.seen /\ Kids[n] \cap w.open = {}
  BY DEF leaveNode
<1>1. TypeOK /\ w \in Walk /\ n \in Node /\ w.at = "walk" /\ WalkIsSound(t)
  BY DEF IInv, TypeOK, Walk, leaveNode
<1>2. mem' = mem
  BY <1>0 DEF mem, linked
<1>3. CASE Kids[n] \cap w.part = {}
  <2> DEFINE v == [w EXCEPT !.open = @ \ {n}]
  <2>1. /\ full' = full \cup {n} /\ fullBelow' = fullBelow \cup {n}
        /\ db' = IF w.filter THEN db \cup {n} ELSE db
        /\ excused' = IF w.filter THEN excused ELSE excused \cup ({n} \ db)
        /\ walk' = [walk EXCEPT ![t] = v]
    BY <1>1, <1>3 DEF leaveNode, TypeOK
  <2>2. Below[n] \subseteq Accounted
    <3>1. \A k \in Kids[n] : Whole(k)
      BY <1>0, <1>1, <1>3 DEF WalkIsSound
    <3> QED
      BY <1>1, <3>1, TreeFacts DEF Whole
  <2>3. /\ v \in Walk /\ v.at = w.at /\ v.part = w.part /\ v.deferred = w.deferred
        /\ v.missing = w.missing /\ v.seen = w.seen /\ v.open = w.open \ {n} /\ v.listed = w.listed
    BY <1>1 DEF Walk
  <2> HIDE DEF v
  <2>4. TypeOK' /\ walk'[t] = v /\ \A u \in Walker \ {t} : walk'[u] = walk[u]
    BY <1>0, <1>1, <2>1, <2>3 DEF TypeOK
  <2>5. /\ db \subseteq db' /\ db' \subseteq db \cup {n} /\ excused \subseteq excused'
        /\ Accounted \subseteq Accounted' /\ n \in Accounted'
    BY <2>1 DEF Accounted
  <2>6. WalkIsSound(t)'
    <3>1. Whole(n)' /\ \A x : Whole(x) => Whole(x)'
      BY <2>2, <2>5 DEF Whole
    <3> QED
      BY <1>1, <2>2, <2>3, <2>4, <2>5, <3>1 DEF WalkIsSound
  <2> QED
    BY <1>0, <1>2, <2>1, <2>2, <2>4, <2>5, <2>6, StepKept
<1>4. CASE Kids[n] \cap w.part # {}
  <2> DEFINE v == [w EXCEPT !.open = @ \ {n}, !.part = @ \cup {n}]
  <2>1. UNCHANGED <<full, fullBelow, db, excused>> /\ walk' = [walk EXCEPT ![t] = v]
    BY <1>1, <1>4 DEF leaveNode, TypeOK
  <2>2. /\ v \in Walk /\ v.at = w.at /\ v.part = w.part \cup {n} /\ v.deferred = w.deferred
        /\ v.missing = w.missing /\ v.seen = w.seen /\ v.open = w.open \ {n} /\ v.listed = w.listed
    BY <1>1 DEF Walk
  <2> HIDE DEF v
  <2>3. TypeOK' /\ walk'[t] = v /\ \A u \in Walker \ {t} : walk'[u] = walk[u]
    BY <1>0, <1>1, <2>1, <2>2 DEF TypeOK
  <2>4. Accounted' = Accounted
    BY <2>1 DEF Accounted
  <2>5. WalkIsSound(t)'
    <3>1. \A x : Whole(x)' <=> Whole(x)
      BY <2>4 DEF Whole
    <3> QED
      BY <1>1, <1>4, <2>2, <2>3, <2>4, <3>1 DEF WalkIsSound
  <2> QED
    BY <1>0, <1>2, <2>1, <2>3, <2>5, StepKept
<1> QED
  BY <1>3, <1>4

(***************************************************************************)
(* The deferred reads are done.  An inner node that is found in the store  *)
(* is no root, so what is below it is accounted for: it may be marked.     *)
(***************************************************************************)
LEMMA DeferredReadsInv ==
  ASSUME IInv, NEW t \in Walker, deferredReads(t)
  PROVE  IInv'
<1> DEFINE w == walk[t]
           m == Of[t]
           found == w.deferred \cap (mem \cup db \cup packed(t))
           inDb == (w.deferred \cap db) \ (mem \cup Leaf)
           absent == w.deferred \ found
           v == [w EXCEPT !.open = {Root[m]}, !.seen = {}, !.part = {}, !.deferred = {},
                          !.missing = @ \cup absent, !.listed = @ \/ absent # {}]
<1>0. /\ Hook(m, found) /\ checkFilter(found \ (mem \cup db))
      /\ full' = full \cup inDb /\ fullBelow' = fullBelow \cup inDb
      /\ walk' = [walk EXCEPT ![t] = v]
      /\ UNCHANGED status
  BY DEF deferredReads
<1>1. /\ TypeOK /\ w \in Walk /\ w.at = "walk" /\ WalkIsSound(t)
      /\ w.deferred \subseteq Node /\ w.missing \subseteq Node /\ m \in Map /\ Root[m] \in Node
  BY WalkerFacts DEF IInv, TypeOK, Walk, deferredReads
<1>2. found \in SUBSET Node /\ inDb \subseteq Node /\ absent \in SUBSET Node /\ inDb \subseteq found
  BY <1>1
<1>f. found \ (mem \cup db) \in SUBSET Node
  BY <1>2
<1> HIDE DEF found, absent
<1>3. /\ v \in Walk /\ v.open = {Root[m]} /\ v.seen = {} /\ v.part = {} /\ v.deferred = {}
      /\ v.missing = w.missing \cup absent /\ v.listed = (w.listed \/ absent # {})
  <2>1. /\ w.missing \cup absent \in SUBSET Node /\ {Root[m]} \in SUBSET Node
        /\ {} \in SUBSET Node /\ (w.listed \/ absent # {}) \in BOOLEAN
    BY <1>1, <1>2
  <2> QED
    BY <1>1, <2>1 DEF Walk
<1> HIDE DEF v
<1>4. mem' = mem \cup found /\ hooked' \in [Map -> SUBSET Node] /\ cache' \subseteq Node
  BY <1>0, <1>1, <1>2, HookMemory
<1>5. /\ db' = db \cup (found \ (mem \cup db)) /\ db' \subseteq Node /\ pack' \subseteq Node
      /\ excused \subseteq excused' /\ excused' \subseteq Node
      /\ \A x \in db' \ db : x \in Leaf \cup Roots \/ Below[x] \subseteq Accounted'
  BY <1>0, <1>1, <1>f, CheckFilterFacts
<1>6. TypeOK' /\ walk'[t] = v /\ \A u \in Walker \ {t} : walk'[u] = walk[u]
  BY <1>0, <1>1, <1>2, <1>3, <1>4, <1>5 DEF TypeOK
<1>7. \A x \in fullBelow' \cup full' :
        x \in fullBelow \cup full \/ (x \in Accounted' /\ Below[x] \subseteq Accounted')
  <2>1. ASSUME NEW x \in inDb
        PROVE  x \in Accounted' /\ Below[x] \subseteq Accounted'
    <3>1. x \in db \ (Leaf \cup Roots)
      BY <1>1 DEF WalkIsSound
    <3>2. Below[x] \subseteq Accounted
      BY <3>1 DEF IInv, StoredIsFull
    <3> QED
      BY <1>5, <3>1, <3>2 DEF Accounted
  <2> QED
    BY <1>0, <2>1
<1>8. WalkIsSound(t)'
  BY <1>1, <1>3, <1>6 DEF WalkIsSound
<1>9. \A x \in mem' \cap Leaf : x \in mem \cup db'
  BY <1>4, <1>5
<1> QED
  BY <1>0, <1>5, <1>6, <1>7, <1>8, <1>9, StepKept

(***************************************************************************)
(* The walk ends.  Nothing is listed and nothing deferred, so nothing is   *)
(* partial; the root was left, so all below it is accounted for.           *)
(***************************************************************************)
LEMMA EndWalkInv ==
  ASSUME IInv, NEW t \in Walker, endWalk(t) \/ enough(t)
  PROVE  IInv'
<1> DEFINE w == walk[t]
           m == Of[t]
<1>0. /\ UNCHANGED <<db, cache, fullBelow, full, pack, hooked, excused>>
      /\ walk' = [walk EXCEPT ![t] = NoWalk]
      /\ status' = status \/ status' = [status EXCEPT ![m] = "done"]
  BY DEF endWalk, enough, memory
<1>1. TypeOK /\ w \in Walk /\ WalkIsSound(t) /\ m \in Map
  BY WalkerFacts DEF IInv, TypeOK
<1>2. NoWalk \in Walk /\ NoWalk.at = "idle"
  BY DEF Walk, NoWalk
<1>3. TypeOK' /\ walk'[t] = NoWalk /\ \A u \in Walker \ {t} : walk'[u] = walk[u]
  BY <1>0, <1>1, <1>2 DEF TypeOK
<1>4. mem' = mem /\ Accounted' = Accounted
  BY <1>0 DEF mem, linked, Accounted
<1>5. \A o \in Map : status'[o] = "done" => status[o] = "done" \/ Below[Root[o]] \subseteq Accounted'
  <2>1. CASE status' = status
    BY <2>1
  <2>2. CASE status' # status
    <3>1. w.at = "walk" /\ w.open = {} /\ w.deferred = {} /\ ~w.listed
      BY <2>2 DEF endWalk, enough
    <3>2. Below[Root[m]] \subseteq Accounted
      BY <1>1, <3>1 DEF WalkIsSound
    <3> QED
      BY <1>0, <1>1, <1>4, <3>2 DEF TypeOK
  <2> QED
    BY <2>1, <2>2
<1>6. WalkIsSound(t)'
  BY <1>2, <1>3 DEF WalkIsSound
<1> QED
  BY <1>0, <1>3, <1>4, <1>5, <1>6, StepKept

-----------------------------------------------------------------------------
(***************************************************************************)
(* A reply: a leaf is stored when it is linked, an inner node is not.      *)
(***************************************************************************)
LEMMA AddKnownNodeInv ==
  ASSUME IInv, NEW m \in Map, NEW p \in hooked[m], NEW n \in Kids[p], addKnownNode(m, p, n)
  PROVE  IInv'
<1>0. UNCHANGED <<fullBelow, full, status, walk>> /\ Hook(m, {n})
  BY DEF addKnownNode
<1>1. TypeOK /\ n \in Node /\ {n} \ (mem \cup db) \in SUBSET Node
  BY TreeFacts DEF IInv, TypeOK
<1>2. mem' = mem \cup {n} /\ hooked' \in [Map -> SUBSET Node] /\ cache' \subseteq Node
  BY <1>0, <1>1, HookMemory
<1>3. /\ db \subseteq db' /\ db' \subseteq Node /\ pack' \subseteq Node
      /\ excused \subseteq excused' /\ excused' \subseteq Node
      /\ (\A x \in db' \ db : x \in Leaf \cup Roots \/ Below[x] \subseteq Accounted')
      /\ (n \in Leaf => n \in mem \cup db')
  <2>1. CASE n \in mem \cup db \cup pack
    <3>1. checkFilter({n} \ (mem \cup db))
      BY <2>1 DEF addKnownNode
    <3>2. /\ db' = db \cup ({n} \ (mem \cup db)) /\ db' \subseteq Node /\ pack' \subseteq Node
          /\ excused \subseteq excused' /\ excused' \subseteq Node
          /\ \A x \in db' \ db : x \in Leaf \cup Roots \/ Below[x] \subseteq Accounted'
      BY <1>1, <3>1, CheckFilterFacts
    <3> QED
      BY <3>2
  <2>2. CASE n \notin mem \cup db \cup pack
    BY <1>1, <2>2 DEF addKnownNode, kept, TypeOK
  <2> QED
    BY <2>1, <2>2
<1>4. TypeOK'
  BY <1>0, <1>1, <1>2, <1>3 DEF TypeOK
<1>5. \A x \in mem' \cap Leaf : x \in mem \cup db'
  BY <1>2, <1>3
<1> QED
  BY <1>0, <1>3, <1>4, <1>5, StepKept

(***************************************************************************)
(* Fetch packs, ledgers of our own, and what expires.                      *)
(***************************************************************************)
LEMMA NodeStepInv ==
  ASSUME IInv, NEW n \in Node,
         addFetchPack(n) \/ writeNode(n) \/ sweepCache(n) \/ sweepFullBelow(n)
  PROVE  IInv'
<1>1. TypeOK /\ UNCHANGED <<hooked, status, walk, excused>>
  BY DEF IInv, addFetchPack, writeNode, sweepCache, sweepFullBelow
<1>2. PICK new \in SUBSET {n} :
         /\ db' = db \cup new
         /\ new # {} => Below[n] \subseteq Accounted
         /\ mem' \subseteq mem \cup new
  <2>1. linked' = linked
    BY <1>1 DEF linked
  <2>2. CASE writeNode(n)
    <3>1. \A k \in Kids[n] : k \in Accounted /\ Below[k] \subseteq Accounted
      BY <2>2, TreeFacts DEF writeNode, IInv, StoredIsFull, Accounted
    <3>2. Below[n] \subseteq Accounted
      BY <3>1, TreeFacts
    <3>3. db' = db \cup {n} /\ mem' \subseteq mem \cup {n}
      BY <2>1, <2>2 DEF writeNode, mem
    <3> QED
      BY <3>2, <3>3
  <2>3. CASE ~writeNode(n)
    <3>1. db' = db \cup {} /\ mem' \subseteq mem \cup {}
      BY <2>1, <2>3 DEF addFetchPack, sweepCache, sweepFullBelow, mem
    <3> QED
      BY <3>1
  <2> QED
    BY <2>2, <2>3
<1>3. TypeOK' /\ db \subseteq db' /\ Accounted \subseteq Accounted'
  <2>1. TypeOK'
    BY <1>1, <1>2 DEF TypeOK, addFetchPack, writeNode, sweepCache, sweepFullBelow
  <2> QED
    BY <1>1, <1>2, <2>1 DEF Accounted
<1>4. fullBelow' \subseteq fullBelow /\ full' \subseteq full
  BY DEF addFetchPack, writeNode, sweepCache, sweepFullBelow
<1>5. \A x \in db' \ db : x \in Leaf \cup Roots \/ Below[x] \subseteq Accounted'
  BY <1>2, <1>3
<1> QED
  BY <1>1, <1>2, <1>3, <1>4, <1>5, StepKept

LEMMA DropInv ==
  ASSUME IInv, NEW m \in Map, drop(m)
  PROVE  IInv'
<1>1. /\ TypeOK
      /\ hooked' = [hooked EXCEPT ![m] = {}]
      /\ status' = [status EXCEPT ![m] = "synching"]
      /\ cache' \subseteq cache \cup hooked[m]
      /\ UNCHANGED <<db, fullBelow, full, pack, walk, excused>>
  BY DEF IInv, drop
<1>2. mem' \subseteq mem
  <2>1. \A x \in linked' : x \in linked
    BY <1>1 DEF linked, TypeOK
  <2>2. hooked[m] \subseteq linked
    BY DEF linked
  <2> QED
    BY <1>1, <2>1, <2>2 DEF mem
<1>3. TypeOK' /\ \A o \in Map : status'[o] = "done" => status[o] = "done"
  BY <1>1 DEF TypeOK
<1> QED
  BY <1>1, <1>2, <1>3, StepKept

\* The server dies: the store stays as it is, and nothing else does.
LEMMA CrashInv ==
  ASSUME IInv, crash
  PROVE  IInv'
<1>1. TypeOK'
  BY DEF IInv, crash, TypeOK, Walk, NoWalk
<1>2. /\ UNCHANGED <<db, excused>> /\ fullBelow' = {} /\ full' = {}
      /\ \A m \in Map : status'[m] = "synching"
  BY DEF crash
<1>3. mem' = {}
  BY DEF crash, mem, linked
<1>4. \A t \in Walker : WalkIsSound(t)'
  BY DEF crash, WalkIsSound, NoWalk
<1> QED
  BY <1>1, <1>2, <1>3, <1>4, StepKept

-----------------------------------------------------------------------------
LEMMA NextInv ==
  ASSUME IInv, [Next]_vars
  PROVE  IInv'
<1>1. ASSUME NEW m \in Map, MapStep(m)
      PROVE  IInv'
  BY <1>1, RootInv, AddKnownNodeInv, DropInv DEF MapStep
<1>2. ASSUME NEW t \in Walker, WalkStep(t)
      PROVE  IInv'
  BY <1>2, SkipChildInv, LoadChildInv, PendingChildInv, LeaveNodeInv, DeferredReadsInv, EndWalkInv
  DEF WalkStep
<1>3. CASE UNCHANGED vars
  <2>1. UNCHANGED <<db, cache, fullBelow, full, pack, hooked, status, walk, excused>>
    BY <1>3 DEF vars, memory
  <2>2. TypeOK' /\ mem' = mem
    BY <2>1 DEF IInv, TypeOK, mem, linked
  <2> QED
    BY <2>1, <2>2, StepKept
<1> QED
  BY <1>1, <1>2, <1>3, BeginInv, NodeStepInv, CrashInv DEF Next

(***************************************************************************)
(* The inductive invariant of getMissingNodes, addKnownNode, checkFilter   *)
(* and the caches holds in every reachable state.                          *)
(***************************************************************************)
THEOREM SyncInvariance == Spec => []IInv
<1>1. IInv /\ [Next]_vars => IInv'
  BY NextInv
<1> QED
  BY <1>1, InitInv, PTL DEF Spec

(***************************************************************************)
(* For every forest, the full-below cache and the marks of nodes are wrong *)
(* about a missing node only when it was excused: a node above it came out *)
(* of a fetch pack, or a walk without a filter passed it over.             *)
(***************************************************************************)
THEOREM FullBelowHolds == Spec => []FullBelowIsAccounted
<1>1. IInv => FullBelowIsAccounted
  BY DEF IInv
<1> QED
  BY <1>1, SyncInvariance, PTL

(***************************************************************************)
(* What getMissingNodes relies on ("found in db, set as full", for inner   *)
(* nodes other than roots) and what it promises (a complete map is stored) *)
(* fail for these two causes only, for every forest and at every moment at *)
(* which the server may die.                                               *)
(***************************************************************************)
THEOREM StoreStaysWhole == Spec => []StoreIsWhole
<1>1. IInv => StoreIsWhole
  BY DEF IInv, StoreIsWhole
<1> QED
  BY <1>1, SyncInvariance, PTL
=============================================================================
