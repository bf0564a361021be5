----------------------------- MODULE MCJobQueue -----------------------------
(***************************************************************************)
(* A small job queue: a limited type that is skipped on stop, and an       *)
(* unlimited type of lower priority that is not, so that a thread woken    *)
(* for the second has to pass over jobs of the first.                      *)
(***************************************************************************)
EXTENDS JobQueue, TLC

MCLimit == [t \in JobType |-> IF t = 2 THEN 1 ELSE MaxJobs + 1]
Symmetry == Permutations(Worker)
=============================================================================
