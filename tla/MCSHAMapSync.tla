---------------------------- MODULE MCSHAMapSync ----------------------------
(***************************************************************************)
(* A tree for SHAMapSync, with an inner node a below the root and two      *)
(* leaves below a, that two threads walk at once.  Nodes that other trees  *)
(* have too are the ones in the cache or written by this server.           *)
(***************************************************************************)
EXTENDS SHAMapSync, TLC

CONSTANTS m1, r1, a, i, j, t1, t2

MCKids == [n \in Node |-> CASE n = r1 -> {a} [] n = a -> {i, j} [] OTHER -> {}]
MCBelow == [n \in Node |-> CASE n = r1 -> {a, i, j} [] n = a -> {i, j} [] OTHER -> {}]
MCRoot == [m \in Map |-> r1]
MCOf == [t \in Walker |-> m1]

\* The threads, and the leaves, may be exchanged.
MCSymmetry == {p @@ q : p \in Permutations({i, j}), q \in Permutations({t1, t2})}
=============================================================================
