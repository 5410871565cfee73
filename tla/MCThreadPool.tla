---------------------------- MODULE MCThreadPool ----------------------------
(* Small instances of the pool for TLC.  Workers, and tasks, are           *)
(* interchangeable.                                                        *)
EXTENDS ThreadPoolRefinement, TLC

Interchangeable == Permutations(Workers) \cup Permutations(Tasks)
=============================================================================
