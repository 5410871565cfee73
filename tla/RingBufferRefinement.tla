------------------------ MODULE RingBufferRefinement ------------------------
(***************************************************************************)
(* The ring buffer implements the bounded sequences of AbstractDeque: what *)
(* operator[] and at() read, from 0 to size() - 1, is the sequence.        *)
(***************************************************************************)
EXTENDS RingBuffer

Elements(b) == [i \in 1 .. buf[b].count |-> slots[buf[b].data][Slot(b, i - 1)]]

Abstract == INSTANCE AbstractDeque WITH
    deque <- [b \in Buffers |-> [elems |-> Elements(b), cap |-> buf[b].max]]

(* Every operation does to the indexed elements what it would do to a      *)
(* plain sequence, wherever first_ stands in the block: a full buffer      *)
(* drops its oldest element for a new one, and a move takes the elements   *)
(* along in order.                                                         *)
ImplementsDeque == Abstract!Spec

=============================================================================
