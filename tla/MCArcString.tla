---------------------------- MODULE MCArcString -----------------------------
(* Threads, handles and control blocks are interchangeable.                *)
EXTENDS ArcString, TLC
Interchangeable == Permutations(Threads) \cup Permutations(Handles) \cup Permutations(Reps)
=============================================================================
