---------------------------- MODULE MCRingBuffer ----------------------------
EXTENDS RingBufferRefinement, TLC
Interchangeable == Permutations(Buffers) \cup Permutations(Blocks) \cup Permutations(Values)
=============================================================================
