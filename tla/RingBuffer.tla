----------------------------- MODULE RingBuffer -----------------------------
(***************************************************************************)
(* clst::RingBuffer<T> (clst/clst/ring_buffer.hpp): a fixed-capacity deque *)
(* in a block of raw slots, in which elements are constructed and          *)
(* destroyed by hand, and whose block passes from one object to another by *)
(* move.  The module has several buffer objects and the blocks they own.   *)
(***************************************************************************)
EXTENDS Naturals, Sequences, FiniteSets

CONSTANTS
    Buffers,    \* the RingBuffer objects
    Blocks,     \* the blocks the allocator hands out
    Capacities, \* the capacities the constructor is called with
    Values,     \* the elements
    Raw,        \* a slot without an element
    Null,       \* the null pointer
    ClearUpTo,  \* a buffer is cleared, destroyed or assigned to only while it
                \* holds at most this many elements
    MayThrow    \* constructing an element may throw

ASSUME RingBufferAssumption ==
    /\ Capacities \subseteq Nat \ {0}
    /\ Raw \notin Values /\ Null \notin Blocks
    /\ ClearUpTo \in Nat /\ MayThrow \in BOOLEAN

VARIABLES
    buf,        \* the members of each object
    slots       \* the allocated blocks, each with its slots

vars == <<buf, slots>>

(* An object that does not exist, and one that was moved from.             *)
Nothing == [life |-> "none", data |-> Null, first |-> 0, count |-> 0, max |-> 0]
Moved == [Nothing EXCEPT !.life = "live"]

Live(b) == buf[b].life = "live"
Full(b) == buf[b].count = buf[b].max

(* The slot of element i of b.                                             *)
Slot(b, i) == (buf[b].first + i) % buf[b].max

(* b's block with an element constructed in slot k.                        *)
Put(b, k, v) == [slots EXCEPT ![buf[b].data][k] = v]

Init ==
    /\ buf = [b \in Buffers |-> Nothing]
    /\ slots = <<>>

-----------------------------------------------------------------------------
Construct(b) ==
    /\ ~Live(b)
    /\ \E d \in Blocks \ DOMAIN slots, m \in Capacities :
          /\ buf' = [buf EXCEPT ![b] = [life |-> "live", data |-> d,
                                        first |-> 0, count |-> 0, max |-> m]]
          /\ slots' = [e \in DOMAIN slots \cup {d} |->
                          IF e = d THEN [k \in 0 .. m - 1 |-> Raw] ELSE slots[e]]

Push(b, v) ==
    /\ Live(b) /\ ~Full(b)
    /\ slots' = Put(b, Slot(b, buf[b].count), v)
    /\ buf' = [buf EXCEPT ![b].count = @ + 1]

(* MUTANT of Overwrite: the newest element makes room.                     *)
OverwriteNewest(b, v) ==
    /\ Live(b) /\ Full(b) /\ buf[b].max > 0
    /\ slots' = Put(b, Slot(b, buf[b].count - 1), v)
    /\ UNCHANGED buf

(* push_overwrite() and emplace() on a full buffer: pop() makes room.      *)
Overwrite(b, v) ==
    /\ Live(b) /\ Full(b) /\ buf[b].max > 0
    /\ slots' = [slots EXCEPT ![buf[b].data][buf[b].first] = Raw,
                              ![buf[b].data][Slot(b, buf[b].count)] = v]
    /\ buf' = [buf EXCEPT ![b].first = (@ + 1) % buf[b].max]

Pop(b) ==
    /\ Live(b) /\ buf[b].count > 0
    /\ slots' = Put(b, buf[b].first, Raw)
    /\ buf' = [buf EXCEPT ![b].first = (@ + 1) % buf[b].max, ![b].count = @ - 1]

(* The constructor of the new element throws after the pop().              *)
OverwriteThrow(b) == MayThrow /\ Full(b) /\ Pop(b)

(* MUTANT of PopBack: the element is not destroyed.                        *)
PopBackKeeping(b) ==
    /\ Live(b) /\ buf[b].count > 0
    /\ buf' = [buf EXCEPT ![b].count = @ - 1]
    /\ UNCHANGED slots

PopBack(b) ==
    /\ Live(b) /\ buf[b].count > 0
    /\ slots' = Put(b, Slot(b, buf[b].count - 1), Raw)
    /\ buf' = [buf EXCEPT ![b].count = @ - 1]

(* The loop of clear() compares its index with first_ + count_ while it    *)
(* decrements count_: the index and the bound meet half way, after this    *)
(* many of the n elements.                                                 *)
Destroyed(n) == (n + 1) \div 2

(* b's block after clear().                                                *)
ClearedSlots(b) ==
    [slots EXCEPT ![buf[b].data] =
        [k \in DOMAIN @ |->
            IF \E i \in 0 .. Destroyed(buf[b].count) - 1 : k = Slot(b, i) THEN Raw ELSE @[k]]]

MayClear(b) == Live(b) /\ buf[b].count <= ClearUpTo

Clear(b) ==
    /\ MayClear(b) /\ buf[b].data # Null
    /\ slots' = ClearedSlots(b)
    /\ buf' = [buf EXCEPT ![b].count = @ - Destroyed(@)]

(* clear(), then deallocate(): the elements still in the block are lost.   *)
Freed(b) == [d \in DOMAIN slots \ {buf[b].data} |-> slots[d]]

Destroy(b) ==
    /\ MayClear(b)
    /\ slots' = Freed(b)
    /\ buf' = [buf EXCEPT ![b] = Nothing]

MoveConstruct(b, rhs) ==
    /\ ~Live(b) /\ Live(rhs)
    /\ buf' = [buf EXCEPT ![b] = buf[rhs], ![rhs] = Moved]
    /\ UNCHANGED slots

(* MUTANT of MoveAssign: rhs keeps its pointer.                            *)
MoveAssignShared(b, rhs) ==
    /\ MayClear(b) /\ Live(rhs) /\ b # rhs
    /\ slots' = Freed(b)
    /\ buf' = [buf EXCEPT ![b] = buf[rhs]]

(* An assignment to itself leaves b moved from, and its block freed.       *)
MoveAssign(b, rhs) ==
    /\ MayClear(b) /\ Live(rhs)
    /\ slots' = Freed(b)
    /\ buf' = [buf EXCEPT ![b] = buf[rhs], ![rhs] = Moved]

Next ==
    \E b \in Buffers :
        \/ Construct(b) \/ Destroy(b) \/ Clear(b)
        \/ Pop(b) \/ PopBack(b) \/ OverwriteThrow(b)
        \/ \E v \in Values : Push(b, v) \/ Overwrite(b, v)
        \/ \E rhs \in Buffers : MoveConstruct(b, rhs) \/ MoveAssign(b, rhs)

Spec == Init /\ [][Next]_vars

-----------------------------------------------------------------------------
(* Properties                                                              *)

(* Types; an object never holds more than its capacity.                    *)
TypeOK ==
    /\ DOMAIN slots \subseteq Blocks
    /\ \A b \in Buffers :
          /\ buf[b].life \in {"none", "live"}
          /\ buf[b].data \in DOMAIN slots \cup {Null}
          /\ buf[b].count \in 0 .. buf[b].max
          /\ buf[b].first \in Nat

(* Every allocated block has exactly one owner: moves neither share a      *)
(* block, which would be freed twice, nor lose one.                        *)
OneOwner ==
    \A d \in DOMAIN slots : Cardinality({b \in Buffers : Live(b) /\ buf[b].data = d}) = 1

(* The slots of a block that hold an element are those of the elements     *)
(* 0 .. size()-1, no more and no less, around the end of the block too:    *)
(* nothing is destroyed twice, overwritten undestroyed, or read raw.       *)
WindowIsLive ==
    \A b \in Buffers :
        buf[b].data # Null =>
            {k \in 0 .. buf[b].max - 1 : slots[buf[b].data][k] # Raw} =
                {Slot(b, i) : i \in 0 .. buf[b].count - 1}

(* "pop() noexcept { // UB if empty" (ring_buffer.hpp:103): a pop() of a   *)
(* buffer that is not empty destroys an element that exists.               *)
PopFindsAnElement ==
    \A b \in Buffers : buf[b].count > 0 => slots[buf[b].data][buf[b].first] # Raw

=============================================================================
