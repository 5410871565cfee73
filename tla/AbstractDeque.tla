--------------------------- MODULE AbstractDeque ----------------------------
(***************************************************************************)
(* What clst::RingBuffer promises: objects that hold a sequence of at most *)
(* capacity() elements, with no slots, blocks or indices.                  *)
(***************************************************************************)
EXTENDS Naturals, Sequences

CONSTANTS Buffers, Values, Capacities

VARIABLE deque      \* deque[b]: the elements and the capacity of object b

vars == <<deque>>

Empty == [elems |-> <<>>, cap |-> 0]

Init == deque = [b \in Buffers |-> Empty]

Becomes(b, s) == deque' = [deque EXCEPT ![b].elems = s]

Full(b) == Len(deque[b].elems) = deque[b].cap

PushBack(b, v) == ~Full(b) /\ Becomes(b, Append(deque[b].elems, v))

(* A push on a full buffer drops the oldest element.                       *)
Overwrite(b, v) ==
    /\ Full(b) /\ deque[b].cap > 0
    /\ Becomes(b, Append(Tail(deque[b].elems), v))

PopFront(b) == deque[b].elems # <<>> /\ Becomes(b, Tail(deque[b].elems))

PopBack(b) ==
    /\ deque[b].elems # <<>>
    /\ Becomes(b, SubSeq(deque[b].elems, 1, Len(deque[b].elems) - 1))

Clear(b) == Becomes(b, <<>>)

(* A fresh object, or none.                                                *)
Renew(b) == \E c \in Capacities \cup {0} : deque' = [deque EXCEPT ![b] = [elems |-> <<>>, cap |-> c]]

(* b takes over what c holds, in order.                                    *)
Take(b, c) == deque' = [deque EXCEPT ![b] = deque[c], ![c] = Empty]

Next ==
    \E b \in Buffers :
        \/ \E v \in Values : PushBack(b, v) \/ Overwrite(b, v)
        \/ PopFront(b) \/ PopBack(b) \/ Clear(b) \/ Renew(b)
        \/ \E c \in Buffers : Take(b, c)

Spec == Init /\ [][Next]_vars

=============================================================================
