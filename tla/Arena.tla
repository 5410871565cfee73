------------------------------- MODULE Arena -------------------------------
(***************************************************************************)
(* clst::Arena: a block of memory from which aligned pieces are cut off at *)
(* the front, never to be given back one by one.                           *)
(***************************************************************************)
EXTENDS Integers, Sequences

CONSTANTS
    AddressSpace,   \* number of values of uintptr_t
    Alignments,     \* the alignments that clients ask for
    MaxBlocks       \* bound on the number of successful allocations

(* "alignment is 2^N" (arena.hpp:27), and so is the number of addresses:   *)
(* what is used of it is that the one divides the other.                   *)
ProperAlignments ==
    /\ AddressSpace \in Nat \ {0}
    /\ Alignments \subseteq Nat \ {0}
    /\ \A alignment \in Alignments : AddressSpace % alignment = 0

PtrdiffMax == AddressSpace \div 2 - 1
Addresses == 0 .. AddressSpace - 1

(* What a client may ask for: a size to which any padding can be added     *)
(* without overflow of ptrdiff_t.                                          *)
Requests ==
    UNION {[size : 0 .. PtrdiffMax - alignment + 1, alignment : {alignment}] :
            alignment \in Alignments}

VARIABLES
    cur,        \* cur_
    end,        \* end_
    begin,      \* the address that the constructor was given
    blocks      \* the pieces handed out, in order: [at, size, alignment]

vars == <<cur, end, begin, blocks>>

Init ==
    /\ begin \in Addresses /\ end \in Addresses
    /\ begin <= end /\ end - begin <= PtrdiffMax
    /\ cur = begin /\ blocks = <<>>

(* MUTANT of Pad: how far cur is past the boundary, not how far the next   *)
(* boundary is.                                                            *)
PadBackwards(alignment) == cur % alignment

(* -cur_ & (alignment - 1), on unsigned integers: the negation wraps       *)
(* around, and the mask takes the remainder by a power of two.             *)
Pad(alignment) == ((AddressSpace - cur) % AddressSpace) % alignment

(* Otherwise allocate() returns null and changes nothing.                  *)
Fits(size, alignment) == ~(end - cur < Pad(alignment) + size)

Allocate(size, alignment) ==
    /\ Fits(size, alignment)
    /\ LET p == cur + Pad(alignment) IN
        /\ blocks' = Append(blocks, [at |-> p, size |-> size, alignment |-> alignment])
        /\ cur' = p + size
    /\ UNCHANGED <<end, begin>>

Next ==
    /\ Len(blocks) < MaxBlocks
    /\ \E r \in Requests : Allocate(r.size, r.alignment)

Spec == Init /\ [][Next]_vars

-----------------------------------------------------------------------------
(* What allocate() hands out lies inside the arena, is aligned as asked,   *)
(* and never overlaps what was handed out before, across any sequence of   *)
(* requests and wherever the arena begins.                                 *)
BlocksAreApart ==
    /\ begin <= cur /\ cur <= end
    /\ \A i \in 1 .. Len(blocks) :
        /\ blocks[i].at % blocks[i].alignment = 0
        /\ begin <= blocks[i].at /\ blocks[i].at + blocks[i].size <= cur
        /\ \A j \in 1 .. i - 1 : blocks[j].at + blocks[j].size <= blocks[i].at

=============================================================================
