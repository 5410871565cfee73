-------------------------- MODULE RingBufferProofs --------------------------
(***************************************************************************)
(* Proofs about RingBuffer and RingBufferRefinement, for any number of     *)
(* objects and blocks, any capacities and any elements.                    *)
(***************************************************************************)
EXTENDS RingBufferRefinement, FiniteSetTheorems, SequenceTheorems, TLAPS

-----------------------------------------------------------------------------
(* Indices around the end of the block.                                    *)

(* An index computation of the code wraps around at most once.             *)
LEMMA Wrap ==
    ASSUME NEW m \in Nat \ {0}, NEW f \in 0 .. m - 1, NEW i \in 0 .. m
    PROVE  (f + i) % m = IF f + i < m THEN f + i ELSE f + i - m
<1>. QED OBVIOUS

(* Slot k is among the c slots from f on, in a block of m slots.           *)
InWindow(f, c, m, k) == (IF f <= k THEN k - f ELSE k + m - f) < c

LEMMA WindowIsOfSlots ==
    ASSUME NEW m \in Nat \ {0}, NEW f \in 0 .. m - 1, NEW c \in 0 .. m, NEW k \in 0 .. m - 1
    PROVE  (\E i \in 0 .. c - 1 : k = (f + i) % m) <=> InWindow(f, c, m, k)
<1>1. ASSUME NEW i \in 0 .. c - 1, k = (f + i) % m PROVE InWindow(f, c, m, k)
  <2>1. i \in 0 .. m
    OBVIOUS
  <2>2. (f + i) % m = IF f + i < m THEN f + i ELSE f + i - m
    BY <2>1, Wrap
  <2>. QED BY <1>1, <2>2 DEF InWindow
<1>2. ASSUME InWindow(f, c, m, k) PROVE \E i \in 0 .. c - 1 : k = (f + i) % m
  <2>. DEFINE i == IF f <= k THEN k - f ELSE k + m - f
  <2>1. i \in 0 .. c - 1
    BY <1>2 DEF InWindow
  <2>2. k = (f + i) % m
    BY <2>1, Wrap
  <2>. QED BY <2>1, <2>2
<1>. QED BY <1>1, <1>2

-----------------------------------------------------------------------------
(* Ownership.                                                              *)

Objects ==
    [life : {"none", "live"}, data : Blocks \cup {Null}, first : Nat, count : Nat, max : Nat]

Contents == UNION {[0 .. m - 1 -> Values \cup {Raw}] : m \in Nat}

Typed ==
    /\ buf \in [Buffers -> Objects]
    /\ DOMAIN slots \subseteq Blocks
    /\ slots \in [DOMAIN slots -> Contents]

(* An object with a block: its members fit the block.                      *)
Fits(b) ==
    /\ Live(b) /\ buf[b].data \in DOMAIN slots /\ buf[b].max > 0
    /\ buf[b].first < buf[b].max /\ buf[b].count <= buf[b].max
    /\ slots[buf[b].data] \in [0 .. buf[b].max - 1 -> Values \cup {Raw}]

Shaped == \A b \in Buffers : buf[b] = Nothing \/ buf[b] = Moved \/ Fits(b)

(* Every block has an owner, and not two.                                  *)
Owned ==
    /\ \A d \in DOMAIN slots : \E b \in Buffers : buf[b].data = d
    /\ \A b, c \in Buffers : b # c /\ buf[b].data # Null => buf[b].data # buf[c].data

Sound == Typed /\ Shaped /\ Owned

(* An operation inside the block of b: it leaves b with the block, and     *)
(* members that fit it.                                                    *)
Works(b, block) ==
    /\ Fits(b)
    /\ buf' \in [Buffers -> Objects]
    /\ \A a \in Buffers \ {b} : buf'[a] = buf[a]
    /\ buf'[b].life = "live" /\ buf'[b].data = buf[b].data /\ buf'[b].max = buf[b].max
    /\ buf'[b].first < buf[b].max /\ buf'[b].count <= buf[b].max
    /\ block \in [0 .. buf[b].max - 1 -> Values \cup {Raw}]
    /\ slots' = [slots EXCEPT ![buf[b].data] = block]

LEMMA WorksOn ==
    ASSUME Sound, NEW b \in Buffers, NEW block, Works(b, block)
    PROVE  /\ DOMAIN slots' = DOMAIN slots
           /\ slots'[buf[b].data] = block
           /\ \A a \in Buffers \ {b} :
                 buf[a].data \in DOMAIN slots => slots'[buf[a].data] = slots[buf[a].data]
<1>1. \A a \in Buffers \ {b} : buf[a].data # buf[b].data
  BY RingBufferAssumption DEF Works, Sound, Owned, Typed, Fits
<1>. QED BY <1>1 DEF Works, Sound, Typed, Fits

LEMMA WorkKeeps ==
    ASSUME Sound, NEW b \in Buffers, NEW block, Works(b, block)
    PROVE  Sound'
<1>1. Typed'
  <2>1. block \in Contents
    BY DEF Works, Fits, Contents, Sound, Typed, Objects
  <2>2. slots' \in [DOMAIN slots -> Contents]
    BY <2>1 DEF Works, Sound, Typed
  <2>. QED BY <2>2 DEF Works, Sound, Typed
<1>2. Shaped'
  <2>1. Fits(b)'
    BY WorksOn DEF Works, Fits, Live
  <2>2. ASSUME NEW a \in Buffers \ {b}, Fits(a) PROVE Fits(a)'
    BY <2>2, WorksOn DEF Works, Fits, Live
  <2>3. \A a \in Buffers \ {b} : buf'[a] = buf[a]
    BY DEF Works
  <2>. QED BY <2>1, <2>2, <2>3 DEF Sound, Shaped
<1>3. Owned'
  BY WorksOn DEF Works, Sound, Owned
<1>. QED BY <1>1, <1>2, <1>3 DEF Sound

-----------------------------------------------------------------------------
(* What each operation does inside the block: the new contents, and the    *)
(* new members, without remainders.                                        *)

Contains(b) == slots[buf[b].data]
With(b, k, v) == [Contains(b) EXCEPT ![k] = v]

(* The slot i places after first_.                                         *)
After(b, i) == IF buf[b].first + i < buf[b].max THEN buf[b].first + i
                                               ELSE buf[b].first + i - buf[b].max

LEMMA SlotIsAfter ==
    ASSUME Sound, NEW b \in Buffers, Fits(b), NEW i \in 0 .. buf[b].max
    PROVE  Slot(b, i) = After(b, i) /\ After(b, i) \in 0 .. buf[b].max - 1
<1>1. buf[b].max \in Nat \ {0} /\ buf[b].first \in 0 .. buf[b].max - 1
  BY DEF Sound, Typed, Objects, Fits
<1>2. (buf[b].first + i) % buf[b].max = After(b, i)
  BY <1>1, Wrap DEF After
<1>3. After(b, i) \in 0 .. buf[b].max - 1
  BY <1>1 DEF After
<1>. QED BY <1>2, <1>3 DEF Slot

LEMMA NextIsAfter ==
    ASSUME Sound, NEW b \in Buffers, Fits(b)
    PROVE  (buf[b].first + 1) % buf[b].max = After(b, 1) /\ After(b, 1) \in 0 .. buf[b].max - 1
<1>1. 1 \in 0 .. buf[b].max
  BY DEF Sound, Typed, Objects, Fits
<1>. QED BY <1>1, SlotIsAfter DEF Slot

(* The members of b after an operation that sets first_, count_ or both.   *)
LEMMA MembersOf ==
    ASSUME Sound, NEW b \in Buffers, Fits(b),
           NEW f \in 0 .. buf[b].max - 1, NEW c \in 0 .. buf[b].max,
           \/ buf' = [buf EXCEPT ![b].first = f, ![b].count = c]
           \/ buf' = [buf EXCEPT ![b].first = f] /\ c = buf[b].count
           \/ buf' = [buf EXCEPT ![b].count = c] /\ f = buf[b].first
    PROVE  /\ buf' \in [Buffers -> Objects]
           /\ \A a \in Buffers \ {b} : buf'[a] = buf[a]
           /\ buf'[b].life = "live" /\ buf'[b].data = buf[b].data /\ buf'[b].max = buf[b].max
           /\ buf'[b].first = f /\ buf'[b].count = c
           /\ buf'[b].first < buf[b].max /\ buf'[b].count <= buf[b].max
<1>1. buf \in [Buffers -> Objects] /\ buf[b].max \in Nat /\ f \in Nat /\ c \in Nat
      /\ f < buf[b].max /\ c <= buf[b].max /\ buf[b].life = "live"
  BY DEF Sound, Typed, Objects, Fits, Live
<1>2. CASE buf' = [buf EXCEPT ![b].first = f, ![b].count = c]
  <2>. DEFINE new == [buf[b] EXCEPT !.first = f, !.count = c]
  <2>1. new \in Objects /\ new.first = f /\ new.count = c /\ new.life = "live"
        /\ new.data = buf[b].data /\ new.max = buf[b].max
    BY <1>1 DEF Objects
  <2>2. buf' = [buf EXCEPT ![b] = new]
    BY <1>1, <1>2
  <2>3. buf' \in [Buffers -> Objects] /\ buf'[b] = new
        /\ \A a \in Buffers \ {b} : buf'[a] = buf[a]
    BY <1>1, <2>1, <2>2
  <2>. HIDE DEF new
  <2>. QED BY <1>1, <2>1, <2>3
<1>3. CASE buf' = [buf EXCEPT ![b].first = f] /\ c = buf[b].count
  BY <1>1, <1>3 DEF Objects
<1>4. CASE buf' = [buf EXCEPT ![b].count = c] /\ f = buf[b].first
  BY <1>1, <1>4 DEF Objects
<1>. QED BY <1>2, <1>3, <1>4

(* An object that holds something, or has room for something, has a block. *)
LEMMA InUseFits ==
    ASSUME Sound, NEW b \in Buffers, Live(b), buf[b].count > 0 \/ ~Full(b) \/ buf[b].max > 0
                                             \/ buf[b].data # Null
    PROVE  Fits(b)
<1>. QED BY DEF Sound, Shaped, Nothing, Moved, Full

LEMMA Ranges ==
    ASSUME Sound, NEW b \in Buffers, Fits(b)
    PROVE  /\ buf[b].max \in Nat \ {0} /\ buf[b].count \in 0 .. buf[b].max
           /\ buf[b].first \in 0 .. buf[b].max - 1
<1>. QED BY DEF Sound, Typed, Objects, Fits

(* One slot is set, and first_, count_ or both.                            *)
LEMMA PutWorks ==
    ASSUME Sound, NEW b \in Buffers, Fits(b),
           NEW f \in 0 .. buf[b].max - 1, NEW c \in 0 .. buf[b].max,
           NEW k \in 0 .. buf[b].max - 1, NEW v, v \in Values \/ v = Raw,
           slots' = [slots EXCEPT ![buf[b].data] = With(b, k, v)],
           \/ buf' = [buf EXCEPT ![b].first = f, ![b].count = c]
           \/ buf' = [buf EXCEPT ![b].first = f] /\ c = buf[b].count
           \/ buf' = [buf EXCEPT ![b].count = c] /\ f = buf[b].first
    PROVE  Works(b, With(b, k, v)) /\ buf'[b].first = f /\ buf'[b].count = c
<1>1. With(b, k, v) \in [0 .. buf[b].max - 1 -> Values \cup {Raw}]
  BY DEF Fits, With, Contains
<1>. QED BY <1>1, MembersOf DEF Works

LEMMA PutIsWith ==
    ASSUME Sound, NEW b \in Buffers, Fits(b), NEW k, NEW v
    PROVE  Put(b, k, v) = [slots EXCEPT ![buf[b].data] = With(b, k, v)]
<1>. QED BY DEF Put, With, Contains, Fits, Sound, Typed

LEMMA PushWorks ==
    ASSUME Sound, NEW b \in Buffers, NEW v \in Values, Push(b, v)
    PROVE  /\ Works(b, With(b, After(b, buf[b].count), v))
           /\ buf[b].count < buf[b].max
           /\ buf'[b].first = buf[b].first /\ buf'[b].count = buf[b].count + 1
<1>1. Fits(b) /\ buf[b].count # buf[b].max
  BY InUseFits DEF Push, Full
<1>2. buf[b].count \in 0 .. buf[b].max - 1 /\ buf[b].count + 1 \in 0 .. buf[b].max
      /\ buf[b].first \in 0 .. buf[b].max - 1
  BY <1>1, Ranges
<1>3. Slot(b, buf[b].count) = After(b, buf[b].count)
      /\ After(b, buf[b].count) \in 0 .. buf[b].max - 1
  BY <1>1, SlotIsAfter, Ranges
<1>4. slots' = [slots EXCEPT ![buf[b].data] = With(b, After(b, buf[b].count), v)]
  BY <1>1, <1>3, PutIsWith DEF Push
<1>5. buf' = [buf EXCEPT ![b].count = buf[b].count + 1]
  BY DEF Push
<1>6. buf[b].count < buf[b].max
  BY <1>1, <1>2, Ranges
<1>7. Works(b, With(b, After(b, buf[b].count), v))
      /\ buf'[b].first = buf[b].first /\ buf'[b].count = buf[b].count + 1
  BY <1>1, <1>2, <1>3, <1>4, <1>5, PutWorks
<1>. QED BY <1>6, <1>7

LEMMA PopWorks ==
    ASSUME Sound, NEW b \in Buffers, Pop(b)
    PROVE  /\ Works(b, With(b, buf[b].first, Raw))
           /\ buf[b].count > 0
           /\ buf'[b].first = After(b, 1) /\ buf'[b].count = buf[b].count - 1
<1>1. Fits(b) /\ buf[b].count > 0
  BY InUseFits DEF Pop
<1>2. buf[b].count - 1 \in 0 .. buf[b].max /\ buf[b].first \in 0 .. buf[b].max - 1
  BY <1>1, Ranges
<1>3. (buf[b].first + 1) % buf[b].max = After(b, 1) /\ After(b, 1) \in 0 .. buf[b].max - 1
  BY <1>1, NextIsAfter
<1>4. slots' = [slots EXCEPT ![buf[b].data] = With(b, buf[b].first, Raw)]
  BY <1>1, PutIsWith DEF Pop
<1>5. buf' = [buf EXCEPT ![b].first = After(b, 1), ![b].count = buf[b].count - 1]
  <2>1. buf' = [buf EXCEPT ![b].first = (@ + 1) % buf[b].max, ![b].count = @ - 1]
    BY DEF Pop
  <2>. QED BY <1>3, <2>1 DEF Sound, Typed, Objects
<1>6. Works(b, With(b, buf[b].first, Raw))
      /\ buf'[b].first = After(b, 1) /\ buf'[b].count = buf[b].count - 1
  BY <1>1, <1>2, <1>3, <1>4, <1>5, PutWorks
<1>. QED BY <1>1, <1>6

LEMMA PopBackWorks ==
    ASSUME Sound, NEW b \in Buffers, PopBack(b)
    PROVE  /\ Works(b, With(b, After(b, buf[b].count - 1), Raw))
           /\ buf[b].count > 0
           /\ buf'[b].first = buf[b].first /\ buf'[b].count = buf[b].count - 1
<1>1. Fits(b) /\ buf[b].count > 0
  BY InUseFits DEF PopBack
<1>2. buf[b].count - 1 \in 0 .. buf[b].max /\ buf[b].first \in 0 .. buf[b].max - 1
  BY <1>1, Ranges
<1>3. Slot(b, buf[b].count - 1) = After(b, buf[b].count - 1)
      /\ After(b, buf[b].count - 1) \in 0 .. buf[b].max - 1
  BY <1>1, <1>2, SlotIsAfter
<1>4. slots' = [slots EXCEPT ![buf[b].data] = With(b, After(b, buf[b].count - 1), Raw)]
  BY <1>1, <1>3, PutIsWith DEF PopBack
<1>5. buf' = [buf EXCEPT ![b].count = buf[b].count - 1]
  BY DEF PopBack
<1>6. Works(b, With(b, After(b, buf[b].count - 1), Raw))
      /\ buf'[b].first = buf[b].first /\ buf'[b].count = buf[b].count - 1
  BY <1>1, <1>2, <1>3, <1>4, <1>5, PutWorks
<1>. QED BY <1>1, <1>6

(* The slot that pop() frees is the one that the new element takes.        *)
LEMMA OverwriteWorks ==
    ASSUME Sound, NEW b \in Buffers, NEW v \in Values, Overwrite(b, v)
    PROVE  /\ Works(b, With(b, buf[b].first, v))
           /\ buf[b].count = buf[b].max
           /\ buf'[b].first = After(b, 1) /\ buf'[b].count = buf[b].count
<1>1. Fits(b) /\ buf[b].count = buf[b].max
  BY InUseFits DEF Overwrite, Full
<1>2. buf[b].count \in 0 .. buf[b].max /\ buf[b].first \in 0 .. buf[b].max - 1
  BY <1>1, Ranges
<1>3. (buf[b].first + 1) % buf[b].max = After(b, 1) /\ After(b, 1) \in 0 .. buf[b].max - 1
  BY <1>1, NextIsAfter
<1>4. Slot(b, buf[b].count) = buf[b].first
  <2>1. Slot(b, buf[b].count) = After(b, buf[b].count)
    BY <1>1, <1>2, SlotIsAfter
  <2>. QED BY <1>1, <1>2, Ranges, <2>1 DEF After
<1>5. slots' = [slots EXCEPT ![buf[b].data] = With(b, buf[b].first, v)]
  BY <1>1, <1>4 DEF Overwrite, With, Contains, Fits, Sound, Typed
<1>6. buf' = [buf EXCEPT ![b].first = After(b, 1)]
  BY <1>3 DEF Overwrite
<1>7. Works(b, With(b, buf[b].first, v))
      /\ buf'[b].first = After(b, 1) /\ buf'[b].count = buf[b].count
  BY <1>1, <1>2, <1>3, <1>5, <1>6, PutWorks
<1>. QED BY <1>1, <1>7

Cleared(b) ==
    [k \in 0 .. buf[b].max - 1 |->
        IF InWindow(buf[b].first, Destroyed(buf[b].count), buf[b].max, k) THEN Raw ELSE Contains(b)[k]]

LEMMA ClearWorks ==
    ASSUME Sound, NEW b \in Buffers, Clear(b)
    PROVE  /\ Works(b, Cleared(b))
           /\ buf'[b].first = buf[b].first
           /\ buf'[b].count = buf[b].count - Destroyed(buf[b].count)
<1>1. Fits(b)
  BY InUseFits DEF Clear, MayClear
<1>2. buf[b].max \in Nat \ {0} /\ buf[b].first \in 0 .. buf[b].max - 1
      /\ Destroyed(buf[b].count) \in 0 .. buf[b].max
      /\ buf[b].count - Destroyed(buf[b].count) \in 0 .. buf[b].max
  BY <1>1, Ranges DEF Destroyed
<1>3. Cleared(b) \in [0 .. buf[b].max - 1 -> Values \cup {Raw}]
  BY <1>1 DEF Cleared, Fits, Contains
<1>4. slots' = [slots EXCEPT ![buf[b].data] = Cleared(b)]
  <2>1. \A k \in 0 .. buf[b].max - 1 :
          (\E i \in 0 .. Destroyed(buf[b].count) - 1 : k = Slot(b, i))
            <=> InWindow(buf[b].first, Destroyed(buf[b].count), buf[b].max, k)
    BY <1>2, WindowIsOfSlots DEF Slot
  <2>2. DOMAIN Contains(b) = 0 .. buf[b].max - 1
    BY <1>1 DEF Fits, Contains
  <2>3. Cleared(b) =
          [k \in DOMAIN slots[buf[b].data] |->
             IF \E i \in 0 .. Destroyed(buf[b].count) - 1 : k = Slot(b, i)
             THEN Raw ELSE slots[buf[b].data][k]]
    BY <2>1, <2>2 DEF Cleared, Contains
  <2>. QED BY <2>3 DEF Clear, ClearedSlots
<1>5. buf' = [buf EXCEPT ![b].count = buf[b].count - Destroyed(buf[b].count)]
  BY DEF Clear
<1>6. PICK c \in 0 .. buf[b].max : c = buf[b].count - Destroyed(buf[b].count)
  BY <1>2
<1>7. buf' = [buf EXCEPT ![b].count = c]
  BY <1>5, <1>6
<1>8. /\ buf' \in [Buffers -> Objects]
      /\ \A a \in Buffers \ {b} : buf'[a] = buf[a]
      /\ buf'[b].life = "live" /\ buf'[b].data = buf[b].data /\ buf'[b].max = buf[b].max
      /\ buf'[b].first = buf[b].first /\ buf'[b].count = c
  BY <1>1, <1>7 DEF Sound, Typed, Objects, Fits, Live
<1>9. buf'[b].first < buf[b].max /\ buf'[b].count <= buf[b].max
  BY <1>2, <1>8
<1>10. Works(b, Cleared(b))
  BY <1>1, <1>3, <1>4, <1>8, <1>9 DEF Works
<1>11. buf'[b].count = buf[b].count - Destroyed(buf[b].count)
  BY <1>6, <1>8
<1>. QED BY <1>8, <1>10, <1>11

-----------------------------------------------------------------------------
(* Blocks come, go, and change hands.                                      *)

LEMMA ConstructKeeps ==
    ASSUME Sound, NEW b \in Buffers, Construct(b)
    PROVE  Sound'
<1>. USE RingBufferAssumption
<1>1. PICK d \in Blocks \ DOMAIN slots, m \in Capacities :
        /\ buf' = [buf EXCEPT ![b] = [life |-> "live", data |-> d, first |-> 0, count |-> 0,
                                      max |-> m]]
        /\ slots' = [e \in DOMAIN slots \cup {d} |->
                        IF e = d THEN [k \in 0 .. m - 1 |-> Raw] ELSE slots[e]]
  BY DEF Construct
<1>2. m \in Nat \ {0} /\ d # Null
  OBVIOUS
<1>3. buf[b] = Nothing
  BY DEF Construct, Sound, Shaped, Moved, Nothing, Live, Fits
<1>4. /\ buf'[b].life = "live" /\ buf'[b].data = d /\ buf'[b].first = 0
      /\ buf'[b].count = 0 /\ buf'[b].max = m
      /\ \A a \in Buffers \ {b} : buf'[a] = buf[a]
  BY <1>1 DEF Sound, Typed
<1>5. /\ DOMAIN slots' = DOMAIN slots \cup {d}
      /\ slots'[d] = [k \in 0 .. m - 1 |-> Raw]
      /\ \A e \in DOMAIN slots : slots'[e] = slots[e]
  BY <1>1
<1>6. Typed'
  <2>1. buf' \in [Buffers -> Objects]
    BY <1>1, <1>2 DEF Sound, Typed, Objects
  <2>2. [k \in 0 .. m - 1 |-> Raw] \in Contents
    BY <1>2 DEF Contents
  <2>3. slots' \in [DOMAIN slots \cup {d} -> Contents]
    BY <1>1, <2>2 DEF Sound, Typed
  <2>. QED BY <1>5, <2>1, <2>3 DEF Sound, Typed
<1>7. Shaped'
  <2>1. Fits(b)'
    BY <1>2, <1>4, <1>5 DEF Fits, Live
  <2>2. ASSUME NEW a \in Buffers \ {b}, Fits(a) PROVE Fits(a)'
    BY <1>4, <1>5, <2>2 DEF Fits, Live
  <2>. QED BY <1>4, <2>1, <2>2 DEF Sound, Shaped
<1>8. Owned'
  <2>1. \A e \in DOMAIN slots' : \E a \in Buffers : buf'[a].data = e
    BY <1>3, <1>4, <1>5 DEF Sound, Owned, Typed, Nothing
  <2>2. \A a \in Buffers : buf[a].data \in DOMAIN slots \cup {Null}
    BY DEF Sound, Shaped, Nothing, Moved, Fits
  <2>. QED BY <1>3, <1>4, <2>1, <2>2 DEF Sound, Owned
<1>. QED BY <1>6, <1>7, <1>8 DEF Sound

(* b gives back its block, if any, and is left with none, like an object   *)
(* that was moved from or does not exist.                                  *)
LEMMA FreeKeeps ==
    ASSUME Sound, NEW b \in Buffers, slots' = Freed(b),
           buf' = [buf EXCEPT ![b] = Nothing] \/ buf' = [buf EXCEPT ![b] = Moved]
    PROVE  Sound'
<1>. USE RingBufferAssumption
<1>1. /\ DOMAIN slots' = DOMAIN slots \ {buf[b].data}
      /\ \A e \in DOMAIN slots' : slots'[e] = slots[e]
      /\ slots' \in [DOMAIN slots' -> Contents]
  BY DEF Freed, Sound, Typed
<1>2. /\ buf'[b] \in {Nothing, Moved} /\ buf'[b].data = Null
      /\ \A a \in Buffers \ {b} : buf'[a] = buf[a]
      /\ buf' \in [Buffers -> Objects]
  BY DEF Sound, Typed, Nothing, Moved, Objects
<1>3. Typed'
  BY <1>1, <1>2 DEF Sound, Typed
<1>4. Shaped'
  <2>1. ASSUME NEW a \in Buffers \ {b}, Fits(a) PROVE Fits(a)'
    BY <1>1, <1>2, <2>1 DEF Fits, Live, Sound, Owned, Typed
  <2>. QED BY <1>2, <2>1 DEF Sound, Shaped
<1>5. Owned'
  BY <1>1, <1>2 DEF Sound, Owned
<1>. QED BY <1>3, <1>4, <1>5 DEF Sound

(* b takes over what another object has, after giving back its own block.  *)
LEMMA TakeKeeps ==
    ASSUME Sound, NEW b \in Buffers, NEW rhs \in Buffers, b # rhs, slots' = Freed(b),
           buf' = [buf EXCEPT ![b] = buf[rhs], ![rhs] = Moved]
    PROVE  Sound'
<1>. USE RingBufferAssumption
<1>1. /\ DOMAIN slots' = DOMAIN slots \ {buf[b].data}
      /\ \A e \in DOMAIN slots' : slots'[e] = slots[e]
      /\ slots' \in [DOMAIN slots' -> Contents]
  BY DEF Freed, Sound, Typed
<1>2. /\ buf'[b] = buf[rhs] /\ buf'[rhs] = Moved /\ buf'[rhs].data = Null
      /\ \A a \in Buffers \ {b, rhs} : buf'[a] = buf[a]
      /\ buf' \in [Buffers -> Objects]
  BY DEF Sound, Typed, Nothing, Moved, Objects
<1>3. Typed'
  BY <1>1, <1>2 DEF Sound, Typed
<1>4. Shaped'
  <2>1. ASSUME NEW a \in Buffers \ {b, rhs}, Fits(a) PROVE Fits(a)'
    BY <1>1, <1>2, <2>1 DEF Fits, Live, Sound, Owned, Typed
  <2>2. Fits(rhs) => Fits(b)'
    BY <1>1, <1>2 DEF Fits, Live, Sound, Owned, Typed
  <2>. QED BY <1>2, <2>1, <2>2 DEF Sound, Shaped
<1>5. Owned'
  BY <1>1, <1>2 DEF Sound, Owned
<1>. QED BY <1>3, <1>4, <1>5 DEF Sound

LEMMA MoveConstructTakes ==
    ASSUME Sound, NEW b \in Buffers, NEW rhs \in Buffers, MoveConstruct(b, rhs)
    PROVE  b # rhs /\ buf[b] = Nothing /\ slots' = Freed(b)
<1>1. buf[b] = Nothing /\ b # rhs
  BY DEF MoveConstruct, Sound, Shaped, Moved, Nothing, Live, Fits
<1>2. Freed(b) = slots
  BY <1>1, RingBufferAssumption DEF Freed, Sound, Typed, Nothing
<1>. QED BY <1>1, <1>2 DEF MoveConstruct

LEMMA SelfMoveFrees ==
    ASSUME Sound, NEW b \in Buffers, MoveAssign(b, b)
    PROVE  slots' = Freed(b) /\ buf' = [buf EXCEPT ![b] = Moved]
<1>. QED BY DEF MoveAssign, Sound, Typed

(* The steps, by what they do to blocks.                                   *)
LEMMA Steps ==
    ASSUME [Next]_vars
    PROVE  \/ \E b \in Buffers : Construct(b) \/ Destroy(b)
           \/ \E b, rhs \in Buffers : MoveConstruct(b, rhs) \/ MoveAssign(b, rhs)
           \/ \E b \in Buffers : Pop(b) \/ PopBack(b) \/ Clear(b)
           \/ \E b \in Buffers, v \in Values : Push(b, v) \/ Overwrite(b, v)
           \/ UNCHANGED vars
<1>. QED BY DEF Next, OverwriteThrow

LEMMA SoundStep ==
    ASSUME Sound, [Next]_vars
    PROVE  Sound'
<1>1. ASSUME NEW b \in Buffers, Construct(b) \/ Destroy(b) PROVE Sound'
  BY <1>1, ConstructKeeps, FreeKeeps DEF Destroy
<1>2. ASSUME NEW b \in Buffers, NEW rhs \in Buffers, MoveConstruct(b, rhs) PROVE Sound'
  BY <1>2, MoveConstructTakes, TakeKeeps DEF MoveConstruct
<1>3. ASSUME NEW b \in Buffers, NEW rhs \in Buffers, MoveAssign(b, rhs) PROVE Sound'
  <2>1. CASE b = rhs
    BY <1>3, <2>1, SelfMoveFrees, FreeKeeps
  <2>2. CASE b # rhs
    BY <1>3, <2>2, TakeKeeps DEF MoveAssign
  <2>. QED BY <2>1, <2>2
<1>4. ASSUME NEW b \in Buffers, Pop(b) \/ PopBack(b) \/ Clear(b) PROVE Sound'
  BY <1>4, PopWorks, PopBackWorks, ClearWorks, WorkKeeps
<1>5. ASSUME NEW b \in Buffers, NEW v \in Values, Push(b, v) \/ Overwrite(b, v) PROVE Sound'
  BY <1>5, PushWorks, OverwriteWorks, WorkKeeps
<1>6. CASE UNCHANGED vars
  BY <1>6 DEF vars, Sound, Typed, Shaped, Owned, Fits, Live
<1>. QED BY <1>1, <1>2, <1>3, <1>4, <1>5, <1>6, Steps

LEMMA SoundInit ==
    ASSUME Init
    PROVE  Sound
<1>1. DOMAIN slots = {} /\ slots \in [{} -> Contents]
  BY DEF Init
<1>. QED BY <1>1 DEF Init, Sound, Typed, Shaped, Owned, Nothing, Objects

-----------------------------------------------------------------------------
(* Ownership, for every size of element and of pushes, pops and moves.     *)

(* In every reachable state the members are of their types, no more        *)
(* elements are counted than the capacity, and a data_ pointer is null or  *)
(* points to an allocated block (ring_buffer.hpp:27-64).                   *)
THEOREM TypeCorrect == Spec => []TypeOK
<1>1. Sound => TypeOK
  BY RingBufferAssumption DEF Sound, Typed, Shaped, Fits, Objects, Nothing, Moved, TypeOK
<1>. QED BY <1>1, SoundInit, SoundStep, PTL DEF Spec

(* Every block that is allocated belongs to one object, whatever is        *)
(* constructed, destroyed, and moved, an assignment to itself included: no *)
(* block is deallocated twice, and none is forgotten                       *)
(* (ring_buffer.hpp:27-64).  It does not depend on ClearUpTo.              *)
THEOREM OneOwnerAlways == Spec => []OneOwner
<1>1. ASSUME Sound PROVE OneOwner
  <2>1. SUFFICES ASSUME NEW d \in DOMAIN slots
                 PROVE  Cardinality({b \in Buffers : Live(b) /\ buf[b].data = d}) = 1
    BY DEF OneOwner
  <2>2. PICK o \in Buffers : buf[o].data = d
    BY <1>1 DEF Sound, Owned
  <2>3. d # Null
    BY <1>1, RingBufferAssumption DEF Sound, Typed
  <2>4. Live(o)
    BY <1>1, <2>2, <2>3 DEF Sound, Shaped, Fits, Nothing, Moved
  <2>5. {b \in Buffers : Live(b) /\ buf[b].data = d} = {o}
    BY <1>1, <2>2, <2>3, <2>4 DEF Sound, Owned
  <2>. QED BY <2>5, FS_Singleton
<1>. QED BY <1>1, SoundInit, SoundStep, PTL DEF Spec

-----------------------------------------------------------------------------
(* The elements that exist are those of the window.                        *)

Window(b) ==
    \A k \in 0 .. buf[b].max - 1 :
        Contains(b)[k] # Raw <=> InWindow(buf[b].first, buf[b].count, buf[b].max, k)

Windows == \A b \in Buffers : Fits(b) => Window(b)

LEMMA WindowsAreLive ==
    ASSUME Sound, Windows
    PROVE  WindowIsLive
<1>1. SUFFICES ASSUME NEW b \in Buffers, buf[b].data # Null
               PROVE  {k \in 0 .. buf[b].max - 1 : slots[buf[b].data][k] # Raw} =
                         {Slot(b, i) : i \in 0 .. buf[b].count - 1}
  BY DEF WindowIsLive
<1>2. Fits(b)
  BY <1>1 DEF Sound, Shaped, Nothing, Moved
<1>3. \A k \in 0 .. buf[b].max - 1 :
         slots[buf[b].data][k] # Raw <=> InWindow(buf[b].first, buf[b].count, buf[b].max, k)
  BY <1>2 DEF Windows, Window, Contains
<1>4. \A k \in 0 .. buf[b].max - 1 :
         (\E i \in 0 .. buf[b].count - 1 : k = Slot(b, i))
            <=> InWindow(buf[b].first, buf[b].count, buf[b].max, k)
  BY <1>2, Ranges, WindowIsOfSlots DEF Slot
<1>5. \A i \in 0 .. buf[b].count - 1 : Slot(b, i) \in 0 .. buf[b].max - 1
  <2>1. SUFFICES ASSUME NEW i \in 0 .. buf[b].count - 1 PROVE Slot(b, i) \in 0 .. buf[b].max - 1
    OBVIOUS
  <2>2. i \in 0 .. buf[b].max
    BY <1>2, Ranges
  <2>. QED BY <1>2, <2>2, SlotIsAfter
<1>. QED BY <1>3, <1>4, <1>5

(* An operation inside the block of b leaves the other windows alone.      *)
LEMMA WindowsKept ==
    ASSUME Sound, Windows, NEW b \in Buffers, NEW block, Works(b, block),
           \A k \in 0 .. buf[b].max - 1 :
               block[k] # Raw <=> InWindow(buf'[b].first, buf'[b].count, buf[b].max, k)
    PROVE  Windows'
<1>1. Window(b)'
  <2>1. slots'[buf[b].data] = block
    BY WorksOn
  <2>2. buf'[b].data = buf[b].data /\ buf'[b].max = buf[b].max
    BY DEF Works
  <2>. QED BY <2>1, <2>2 DEF Window, Contains
<1>2. ASSUME NEW a \in Buffers \ {b}, Fits(a)' PROVE Window(a)'
  <2>1. buf'[a] = buf[a]
    BY DEF Works
  <2>2. Fits(a) /\ slots'[buf[a].data] = slots[buf[a].data]
    BY <1>2, <2>1, WorksOn DEF Fits, Live
  <2>3. Window(a)
    BY <2>2 DEF Windows
  <2>. QED BY <2>1, <2>2, <2>3 DEF Window, Contains
<1>. QED BY <1>1, <1>2 DEF Windows

LEMMA PushWindow ==
    ASSUME Sound, Windows, NEW b \in Buffers, NEW v \in Values, Push(b, v)
    PROVE  Windows'
<1>. DEFINE e == After(b, buf[b].count)
<1>1. Works(b, With(b, e, v)) /\ Fits(b) /\ Window(b)
  BY PushWorks DEF Works, Windows
<1>2. buf'[b].first = buf[b].first /\ buf'[b].count = buf[b].count + 1
      /\ buf[b].count < buf[b].max
  BY PushWorks
<1>3. ASSUME NEW k \in 0 .. buf[b].max - 1
      PROVE  InWindow(buf[b].first, buf[b].count + 1, buf[b].max, k)
                <=> k = e \/ InWindow(buf[b].first, buf[b].count, buf[b].max, k)
  BY <1>1, <1>2, Ranges DEF InWindow, After
<1>4. \A k \in 0 .. buf[b].max - 1 :
         With(b, e, v)[k] # Raw <=> k = e \/ Contains(b)[k] # Raw
  BY <1>1, RingBufferAssumption DEF With, Fits, Contains
<1>. QED BY <1>1, <1>2, <1>3, <1>4, WindowsKept DEF Window

LEMMA PopWindow ==
    ASSUME Sound, Windows, NEW b \in Buffers, Pop(b)
    PROVE  Windows'
<1>. DEFINE e == buf[b].first
<1>1. Works(b, With(b, e, Raw)) /\ Fits(b) /\ Window(b)
  BY PopWorks DEF Works, Windows
<1>2. buf'[b].first = After(b, 1) /\ buf'[b].count = buf[b].count - 1 /\ buf[b].count > 0
  BY PopWorks
<1>3. ASSUME NEW k \in 0 .. buf[b].max - 1
      PROVE  InWindow(After(b, 1), buf[b].count - 1, buf[b].max, k)
                <=> k # e /\ InWindow(buf[b].first, buf[b].count, buf[b].max, k)
  BY <1>1, <1>2, Ranges DEF InWindow, After
<1>4. \A k \in 0 .. buf[b].max - 1 :
         With(b, e, Raw)[k] # Raw <=> k # e /\ Contains(b)[k] # Raw
  BY <1>1 DEF With, Fits, Contains
<1>. QED BY <1>1, <1>2, <1>3, <1>4, WindowsKept DEF Window

LEMMA PopBackWindow ==
    ASSUME Sound, Windows, NEW b \in Buffers, PopBack(b)
    PROVE  Windows'
<1>. DEFINE e == After(b, buf[b].count - 1)
<1>1. Works(b, With(b, e, Raw)) /\ Fits(b) /\ Window(b)
  BY PopBackWorks DEF Works, Windows
<1>2. buf'[b].first = buf[b].first /\ buf'[b].count = buf[b].count - 1 /\ buf[b].count > 0
  BY PopBackWorks
<1>3. ASSUME NEW k \in 0 .. buf[b].max - 1
      PROVE  InWindow(buf[b].first, buf[b].count - 1, buf[b].max, k)
                <=> k # e /\ InWindow(buf[b].first, buf[b].count, buf[b].max, k)
  BY <1>1, <1>2, Ranges DEF InWindow, After
<1>4. \A k \in 0 .. buf[b].max - 1 :
         With(b, e, Raw)[k] # Raw <=> k # e /\ Contains(b)[k] # Raw
  BY <1>1 DEF With, Fits, Contains
<1>. QED BY <1>1, <1>2, <1>3, <1>4, WindowsKept DEF Window

LEMMA OverwriteWindow ==
    ASSUME Sound, Windows, NEW b \in Buffers, NEW v \in Values, Overwrite(b, v)
    PROVE  Windows'
<1>. DEFINE e == buf[b].first
<1>1. Works(b, With(b, e, v)) /\ Fits(b) /\ Window(b)
  BY OverwriteWorks DEF Works, Windows
<1>2. buf'[b].first = After(b, 1) /\ buf'[b].count = buf[b].count /\ buf[b].count = buf[b].max
  BY OverwriteWorks
<1>3. ASSUME NEW k \in 0 .. buf[b].max - 1
      PROVE  InWindow(After(b, 1), buf[b].count, buf[b].max, k)
                <=> k = e \/ InWindow(buf[b].first, buf[b].count, buf[b].max, k)
  BY <1>1, <1>2, Ranges DEF InWindow, After
<1>4. \A k \in 0 .. buf[b].max - 1 :
         With(b, e, v)[k] # Raw <=> k = e \/ Contains(b)[k] # Raw
  BY <1>1, RingBufferAssumption DEF With, Fits, Contains
<1>. QED BY <1>1, <1>2, <1>3, <1>4, WindowsKept DEF Window

(* This is where the hypothesis on ClearUpTo is needed: clear() destroys   *)
(* (n + 1) \div 2 of n elements, which is all of them for n <= 1 only.     *)
LEMMA ClearEmpties ==
    ASSUME ClearUpTo <= 1, Sound, NEW b \in Buffers, Clear(b)
    PROVE  /\ Fits(b) /\ Works(b, Cleared(b))
           /\ Destroyed(buf[b].count) = buf[b].count
           /\ buf'[b].first = buf[b].first /\ buf'[b].count = 0
<1>1. Fits(b) /\ Works(b, Cleared(b))
  BY ClearWorks DEF Works
<1>2. buf[b].count \in 0 .. 1
  BY <1>1, Ranges, RingBufferAssumption DEF Clear, MayClear
<1>3. Destroyed(buf[b].count) = buf[b].count
  BY <1>2 DEF Destroyed
<1>4. buf'[b].first = buf[b].first /\ buf'[b].count = buf[b].count - buf[b].count
  BY <1>3, ClearWorks
<1>. QED BY <1>1, <1>2, <1>3, <1>4

LEMMA ClearWindow ==
    ASSUME ClearUpTo <= 1, Sound, Windows, NEW b \in Buffers, Clear(b)
    PROVE  Windows'
<1>1. Works(b, Cleared(b)) /\ Fits(b) /\ Window(b)
  BY ClearEmpties DEF Windows
<1>2. buf'[b].first = buf[b].first /\ buf'[b].count = 0
  BY ClearEmpties
<1>3. \A k \in 0 .. buf[b].max - 1 :
         Cleared(b)[k] # Raw
            <=> Contains(b)[k] # Raw /\ ~InWindow(buf[b].first, buf[b].count, buf[b].max, k)
  BY ClearEmpties DEF Cleared
<1>4. \A k \in 0 .. buf[b].max - 1 : Cleared(b)[k] = Raw
  BY <1>1, <1>3 DEF Window
<1>5. \A k \in 0 .. buf[b].max - 1 : ~InWindow(buf[b].first, 0, buf[b].max, k)
  BY <1>1, Ranges DEF InWindow
<1>. QED BY <1>1, <1>2, <1>4, <1>5, WindowsKept

LEMMA ConstructWindow ==
    ASSUME Sound, Windows, NEW b \in Buffers, Construct(b)
    PROVE  Windows'
<1>1. PICK d \in Blocks \ DOMAIN slots, m \in Capacities :
        /\ buf' = [buf EXCEPT ![b] = [life |-> "live", data |-> d, first |-> 0, count |-> 0,
                                      max |-> m]]
        /\ slots' = [e \in DOMAIN slots \cup {d} |->
                        IF e = d THEN [k \in 0 .. m - 1 |-> Raw] ELSE slots[e]]
  BY DEF Construct
<1>2. /\ buf'[b].data = d /\ buf'[b].first = 0 /\ buf'[b].count = 0 /\ buf'[b].max = m
      /\ \A a \in Buffers \ {b} : buf'[a] = buf[a]
  BY <1>1 DEF Sound, Typed
<1>3. /\ slots'[d] = [k \in 0 .. m - 1 |-> Raw] /\ m \in Nat
      /\ \A e \in DOMAIN slots : slots'[e] = slots[e]
  BY <1>1, RingBufferAssumption
<1>4. Window(b)'
  BY <1>2, <1>3 DEF Window, Contains, InWindow
<1>5. ASSUME NEW a \in Buffers \ {b}, Fits(a)' PROVE Window(a)'
  <2>1. Fits(a)
    BY <1>2, <1>5, RingBufferAssumption DEF Sound, Shaped, Fits, Live, Nothing, Moved
  <2>2. slots'[buf[a].data] = slots[buf[a].data] /\ Window(a)
    BY <1>3, <2>1 DEF Fits, Windows
  <2>. QED BY <1>2, <2>2 DEF Window, Contains
<1>. QED BY <1>4, <1>5 DEF Windows

(* Objects keep their blocks, or take over the block of another one, or    *)
(* have none afterwards.                                                   *)
LEMMA BlocksMove ==
    ASSUME Sound, Windows, NEW b \in Buffers, slots' = Freed(b),
           \A a \in Buffers : buf'[a].data = Null
                              \/ \E o \in Buffers : /\ buf'[a] = buf[o]
                                                    /\ buf[o].data # buf[b].data
    PROVE  Windows'
<1>1. SUFFICES ASSUME NEW a \in Buffers, Fits(a)' PROVE Window(a)'
  BY DEF Windows
<1>2. PICK o \in Buffers : buf'[a] = buf[o] /\ buf[o].data # buf[b].data
  BY <1>1, RingBufferAssumption DEF Fits, Freed, Sound, Typed
<1>3. buf[o].data \in DOMAIN slots /\ slots'[buf[o].data] = slots[buf[o].data]
  BY <1>1, <1>2 DEF Fits, Freed
<1>4. Fits(o)
  BY <1>3, RingBufferAssumption DEF Sound, Typed, Shaped, Nothing, Moved
<1>5. Window(o)
  BY <1>4 DEF Windows
<1>. QED BY <1>2, <1>3, <1>5 DEF Window, Contains

LEMMA FreeWindow ==
    ASSUME Sound, Windows, NEW b \in Buffers, slots' = Freed(b),
           buf' = [buf EXCEPT ![b] = Nothing] \/ buf' = [buf EXCEPT ![b] = Moved]
    PROVE  Windows'
<1>1. buf'[b].data = Null /\ \A a \in Buffers \ {b} : buf'[a] = buf[a]
  BY DEF Sound, Typed, Nothing, Moved
<1>2. ASSUME NEW a \in Buffers \ {b}, buf[a].data # Null PROVE buf[a].data # buf[b].data
  BY <1>2 DEF Sound, Owned
<1>. QED BY <1>1, <1>2, BlocksMove

LEMMA TakeWindow ==
    ASSUME Sound, Windows, NEW b \in Buffers, NEW rhs \in Buffers, b # rhs, slots' = Freed(b),
           buf' = [buf EXCEPT ![b] = buf[rhs], ![rhs] = Moved]
    PROVE  Windows'
<1>1. /\ buf'[b] = buf[rhs] /\ buf'[rhs].data = Null
      /\ \A a \in Buffers \ {b, rhs} : buf'[a] = buf[a]
  BY DEF Sound, Typed, Nothing, Moved
<1>2. ASSUME NEW a \in Buffers \ {b}, buf[a].data # Null PROVE buf[a].data # buf[b].data
  BY <1>2 DEF Sound, Owned
<1>3. ASSUME NEW a \in Buffers
      PROVE  buf'[a].data = Null
             \/ \E o \in Buffers : buf'[a] = buf[o] /\ buf[o].data # buf[b].data
  <2>1. CASE a = b
    BY <1>1, <1>2, <2>1
  <2>2. CASE a = rhs
    BY <1>1, <2>2
  <2>3. CASE a \notin {b, rhs}
    BY <1>1, <1>2, <2>3
  <2>. QED BY <2>1, <2>2, <2>3
<1>. QED BY <1>3, BlocksMove

LEMMA WindowStep ==
    ASSUME ClearUpTo <= 1, Sound, Windows, [Next]_vars
    PROVE  Windows'
<1>1. ASSUME NEW b \in Buffers, Construct(b) \/ Destroy(b) PROVE Windows'
  BY <1>1, ConstructWindow, FreeWindow DEF Destroy
<1>2. ASSUME NEW b \in Buffers, NEW rhs \in Buffers, MoveConstruct(b, rhs) PROVE Windows'
  BY <1>2, MoveConstructTakes, TakeWindow DEF MoveConstruct
<1>3. ASSUME NEW b \in Buffers, NEW rhs \in Buffers, MoveAssign(b, rhs) PROVE Windows'
  <2>1. CASE b = rhs
    BY <1>3, <2>1, SelfMoveFrees, FreeWindow
  <2>2. CASE b # rhs
    BY <1>3, <2>2, TakeWindow DEF MoveAssign
  <2>. QED BY <2>1, <2>2
<1>4. ASSUME NEW b \in Buffers, Pop(b) \/ PopBack(b) \/ Clear(b) PROVE Windows'
  BY <1>4, PopWindow, PopBackWindow, ClearWindow
<1>5. ASSUME NEW b \in Buffers, NEW v \in Values, Push(b, v) \/ Overwrite(b, v) PROVE Windows'
  BY <1>5, PushWindow, OverwriteWindow
<1>6. CASE UNCHANGED vars
  BY <1>6 DEF vars, Windows, Window, Contains, Fits, Live
<1>. QED BY <1>1, <1>2, <1>3, <1>4, <1>5, <1>6, Steps

LEMMA WindowInit ==
    ASSUME Init
    PROVE  Windows
<1>. QED BY DEF Init, Windows, Fits, Live, Nothing

(* When clear() runs on at most one element (ring_buffer.hpp:136-141 stops *)
(* half way otherwise), the slots in which an element exists are exactly   *)
(* those of the elements 0 .. size() - 1, for every capacity and however   *)
(* often first_ has gone around: no element is destroyed twice, leaked     *)
(* inside a live block, or read before it was constructed.                 *)
THEOREM WindowAlwaysLive ==
    ASSUME ClearUpTo <= 1
    PROVE  Spec => []WindowIsLive
<1>1. Init => Sound /\ Windows
  BY SoundInit, WindowInit
<1>2. Sound /\ Windows /\ [Next]_vars => (Sound /\ Windows)'
  BY SoundStep, WindowStep
<1>3. Sound /\ Windows => WindowIsLive
  BY WindowsAreLive
<1>. QED BY <1>1, <1>2, <1>3, PTL DEF Spec

(* So a pop() of a buffer that is not empty destroys an element that       *)
(* exists (ring_buffer.hpp:103, "UB if empty").                            *)
THEOREM PopAlwaysFindsAnElement ==
    ASSUME ClearUpTo <= 1
    PROVE  Spec => []PopFindsAnElement
<1>1. Init => Sound /\ Windows
  BY SoundInit, WindowInit
<1>2. Sound /\ Windows /\ [Next]_vars => (Sound /\ Windows)'
  BY SoundStep, WindowStep
<1>3. ASSUME Sound, Windows PROVE PopFindsAnElement
  <2>1. SUFFICES ASSUME NEW b \in Buffers, buf[b].count > 0
                 PROVE  slots[buf[b].data][buf[b].first] # Raw
    BY DEF PopFindsAnElement
  <2>2. Fits(b)
    BY <1>3, <2>1 DEF Sound, Shaped, Nothing, Moved
  <2>3. InWindow(buf[b].first, buf[b].count, buf[b].max, buf[b].first)
    BY <1>3, <2>1, <2>2, Ranges DEF InWindow
  <2>. QED BY <1>3, <2>2, <2>3, Ranges DEF Windows, Window, Contains
<1>. QED BY <1>1, <1>2, <1>3, PTL DEF Spec

-----------------------------------------------------------------------------
(* The elements as a sequence.                                             *)

Around(f, i, m) == IF f + i < m THEN f + i ELSE f + i - m

(* What operator[] reads from 0 to c - 1.                                  *)
Reading(f, c, m, block) == [i \in 1 .. c |-> block[(f + (i - 1)) % m]]

LEMMA ReadingAt ==
    ASSUME NEW m \in Nat \ {0}, NEW f \in 0 .. m - 1, NEW c \in 0 .. m, NEW block
    PROVE  /\ Len(Reading(f, c, m, block)) = c
           /\ \A i \in 1 .. c : Reading(f, c, m, block)[i] = block[Around(f, i - 1, m)]
<1>1. ASSUME NEW i \in 1 .. c
      PROVE  (f + (i - 1)) % m = Around(f, i - 1, m)
  <2>1. i - 1 \in 0 .. m
    OBVIOUS
  <2>2. (f + (i - 1)) % m = IF f + (i - 1) < m THEN f + (i - 1) ELSE f + (i - 1) - m
    BY <2>1, Wrap
  <2>. QED BY <2>2 DEF Around
<1>2. Len(Reading(f, c, m, block)) = c
  BY DEF Reading
<1>. QED BY <1>1, <1>2 DEF Reading

LEMMA ReadingIs ==
    ASSUME NEW m \in Nat \ {0}, NEW f \in 0 .. m - 1, NEW c \in 0 .. m,
           NEW S, NEW block \in [0 .. m - 1 -> S]
    PROVE  Reading(f, c, m, block) \in Seq(S)
<1>1. ASSUME NEW i \in 1 .. c PROVE Reading(f, c, m, block)[i] \in S
  <2>1. Around(f, i - 1, m) \in 0 .. m - 1
    BY DEF Around
  <2>. QED BY <2>1, ReadingAt
<1>2. Reading(f, c, m, block) \in [1 .. c -> S]
  BY <1>1 DEF Reading
<1>. QED BY <1>2, SeqDef

LEMMA IsAppend ==
    ASSUME NEW S, NEW s \in Seq(S), NEW t \in Seq(S), NEW e \in S,
           Len(t) = Len(s) + 1, \A i \in 1 .. Len(s) : t[i] = s[i], t[Len(s) + 1] = e
    PROVE  t = Append(s, e)
<1>1. Append(s, e) \in Seq(S) /\ Len(Append(s, e)) = Len(t)
  BY AppendProperties
<1>2. ASSUME NEW i \in 1 .. Len(t) PROVE t[i] = Append(s, e)[i]
  <2>1. Len(s) \in Nat
    BY LenProperties
  <2>2. CASE i = Len(s) + 1
    BY <2>2, AppendProperties
  <2>3. CASE i \in 1 .. Len(s)
    BY <2>3, AppendProperties
  <2>. QED BY <2>1, <2>2, <2>3
<1>. QED BY <1>1, <1>2, SeqEqual

LEMMA IsTail ==
    ASSUME NEW S, NEW s \in Seq(S), NEW t \in Seq(S), s # <<>>,
           Len(t) = Len(s) - 1, \A i \in 1 .. Len(t) : t[i] = s[i + 1]
    PROVE  t = Tail(s)
<1>. QED BY HeadTailProperties, SeqEqual

LEMMA IsFront ==
    ASSUME NEW S, NEW s \in Seq(S), NEW t \in Seq(S), s # <<>>,
           Len(t) = Len(s) - 1, \A i \in 1 .. Len(t) : t[i] = s[i]
    PROVE  t = SubSeq(s, 1, Len(s) - 1)
<1>1. Len(s) \in Nat \ {0} /\ \A i \in 1 .. Len(s) : s[i] \in S
  BY EmptySeq, ElementOfSeq
<1>2. 1 \in Int /\ Len(s) - 1 \in Int /\ \A i \in 1 .. Len(s) - 1 : s[i] \in S
  BY <1>1
<1>3. /\ SubSeq(s, 1, Len(s) - 1) \in Seq(S)
      /\ Len(SubSeq(s, 1, Len(s) - 1)) = Len(s) - 1
      /\ \A i \in 1 .. Len(s) - 1 : SubSeq(s, 1, Len(s) - 1)[i] = s[i]
  <2>. DEFINE n == Len(s) - 1
  <2>1. /\ SubSeq(s, 1, n) \in Seq(S)
        /\ Len(SubSeq(s, 1, n)) = IF 1 <= n THEN n - 1 + 1 ELSE 0
        /\ \A i \in 1 .. n - 1 + 1 : SubSeq(s, 1, n)[i] = s[1 + i - 1]
    BY <1>2, SubSeqProperties
  <2>. QED BY <1>1, <2>1
<1>. QED BY <1>1, <1>3, SeqEqual

(* What the operations do to a sequence.                                   *)
Appends(s, v, t) == t = Append(s, v)
DropsFirst(s, t) == s # <<>> /\ t = Tail(s)
DropsLast(s, t) == s # <<>> /\ t = SubSeq(s, 1, Len(s) - 1)
Shifts(s, v, t) == t = Append(Tail(s), v)

(* push() appends, wherever the sequence starts in the block.              *)
LEMMA PushReads ==
    ASSUME NEW m \in Nat \ {0}, NEW f \in 0 .. m - 1, NEW c \in 0 .. m, NEW n \in 0 .. m,
           n = c + 1, NEW S, NEW v \in S,
           NEW block \in [0 .. m - 1 -> S], NEW after \in [0 .. m - 1 -> S],
           \A k \in 0 .. m - 1 : after[k] = IF k = Around(f, c, m) THEN v ELSE block[k]
    PROVE  Appends(Reading(f, c, m, block), v, Reading(f, n, m, after))
<1>. DEFINE s == Reading(f, c, m, block)
            t == Reading(f, n, m, after)
<1>1. s \in Seq(S) /\ Len(s) = c /\ \A i \in 1 .. c : s[i] = block[Around(f, i - 1, m)]
  BY ReadingIs, ReadingAt
<1>2. t \in Seq(S) /\ Len(t) = n /\ \A i \in 1 .. n : t[i] = after[Around(f, i - 1, m)]
  BY ReadingIs, ReadingAt
<1>3. ASSUME NEW i \in 1 .. c PROVE t[i] = s[i]
  <2>1. Around(f, i - 1, m) \in 0 .. m - 1 /\ Around(f, i - 1, m) # Around(f, c, m)
    BY DEF Around
  <2>2. after[Around(f, i - 1, m)] = block[Around(f, i - 1, m)]
    BY <2>1
  <2>3. i \in 1 .. n
    OBVIOUS
  <2>. QED BY <1>1, <1>2, <2>2, <2>3
<1>4. t[n] = v
  <2>1. Around(f, n - 1, m) = Around(f, c, m) /\ Around(f, c, m) \in 0 .. m - 1
    BY DEF Around
  <2>2. n \in 1 .. n
    OBVIOUS
  <2>. QED BY <1>2, <2>1, <2>2
<1>. HIDE DEF s, t
<1>5. t = Append(s, v)
  BY <1>1, <1>2, <1>3, <1>4, IsAppend
<1>. QED BY <1>5 DEF s, t, Appends

(* pop() drops the first element, whatever it leaves in the slot.          *)
LEMMA PopReads ==
    ASSUME NEW m \in Nat \ {0}, NEW f \in 0 .. m - 1, NEW c \in 0 .. m, NEW n \in 0 .. m,
           c = n + 1, NEW g \in 0 .. m - 1, g = Around(f, 1, m), NEW S, NEW v \in S,
           NEW block \in [0 .. m - 1 -> S], NEW after \in [0 .. m - 1 -> S],
           \A k \in 0 .. m - 1 : after[k] = IF k = f THEN v ELSE block[k]
    PROVE  DropsFirst(Reading(f, c, m, block), Reading(g, n, m, after))
<1>. DEFINE s == Reading(f, c, m, block)
            t == Reading(g, n, m, after)
<1>1. s \in Seq(S) /\ Len(s) = c /\ \A i \in 1 .. c : s[i] = block[Around(f, i - 1, m)]
  BY ReadingIs, ReadingAt
<1>2. t \in Seq(S) /\ Len(t) = n /\ \A i \in 1 .. n : t[i] = after[Around(g, i - 1, m)]
  BY ReadingIs, ReadingAt
<1>3. s # <<>>
  BY <1>1, EmptySeq
<1>4. ASSUME NEW i \in 1 .. n PROVE t[i] = s[i + 1]
  <2>1. Around(g, i - 1, m) = Around(f, i, m) /\ Around(f, i, m) \in 0 .. m - 1
        /\ Around(f, i, m) # f
    BY DEF Around
  <2>2. after[Around(g, i - 1, m)] = block[Around(f, i, m)]
    BY <2>1
  <2>3. i + 1 \in 1 .. c /\ (i + 1) - 1 = i
    OBVIOUS
  <2>. QED BY <1>1, <1>2, <2>2, <2>3
<1>. HIDE DEF s, t
<1>5. t = Tail(s)
  BY <1>1, <1>2, <1>3, <1>4, IsTail
<1>. QED BY <1>3, <1>5 DEF s, t, DropsFirst

(* pop_back() drops the last one.                                          *)
LEMMA PopBackReads ==
    ASSUME NEW m \in Nat \ {0}, NEW f \in 0 .. m - 1, NEW c \in 0 .. m, NEW n \in 0 .. m,
           c = n + 1, NEW S, NEW v \in S,
           NEW block \in [0 .. m - 1 -> S], NEW after \in [0 .. m - 1 -> S],
           \A k \in 0 .. m - 1 : after[k] = IF k = Around(f, n, m) THEN v ELSE block[k]
    PROVE  DropsLast(Reading(f, c, m, block), Reading(f, n, m, after))
<1>. DEFINE s == Reading(f, c, m, block)
            t == Reading(f, n, m, after)
<1>1. s \in Seq(S) /\ Len(s) = c /\ \A i \in 1 .. c : s[i] = block[Around(f, i - 1, m)]
  BY ReadingIs, ReadingAt
<1>2. t \in Seq(S) /\ Len(t) = n /\ \A i \in 1 .. n : t[i] = after[Around(f, i - 1, m)]
  BY ReadingIs, ReadingAt
<1>3. s # <<>>
  BY <1>1, EmptySeq
<1>4. ASSUME NEW i \in 1 .. n PROVE t[i] = s[i]
  <2>1. Around(f, i - 1, m) \in 0 .. m - 1 /\ Around(f, i - 1, m) # Around(f, n, m)
    BY DEF Around
  <2>2. after[Around(f, i - 1, m)] = block[Around(f, i - 1, m)]
    BY <2>1
  <2>3. i \in 1 .. c
    OBVIOUS
  <2>. QED BY <1>1, <1>2, <2>2, <2>3
<1>. HIDE DEF s, t
<1>5. t = SubSeq(s, 1, Len(s) - 1)
  BY <1>1, <1>2, <1>3, <1>4, IsFront
<1>. QED BY <1>3, <1>5 DEF s, t, DropsLast

(* A push on a full buffer: the oldest element makes room.                 *)
LEMMA OverwriteReads ==
    ASSUME NEW m \in Nat \ {0}, NEW c \in 0 .. m, c = m,
           NEW f \in 0 .. m - 1, NEW g \in 0 .. m - 1, g = Around(f, 1, m), NEW S, NEW v \in S,
           NEW block \in [0 .. m - 1 -> S], NEW after \in [0 .. m - 1 -> S],
           \A k \in 0 .. m - 1 : after[k] = IF k = f THEN v ELSE block[k]
    PROVE  Shifts(Reading(f, c, m, block), v, Reading(g, c, m, after))
<1>. DEFINE s == Reading(f, c, m, block)
            t == Reading(g, c, m, after)
<1>1. s \in Seq(S) /\ Len(s) = c /\ \A i \in 1 .. c : s[i] = block[Around(f, i - 1, m)]
  BY ReadingIs, ReadingAt
<1>2. t \in Seq(S) /\ Len(t) = c /\ \A i \in 1 .. c : t[i] = after[Around(g, i - 1, m)]
  BY ReadingIs, ReadingAt
<1>3. s # <<>>
  BY <1>1, EmptySeq
<1>4. ASSUME NEW i \in 1 .. c - 1 PROVE t[i] = s[i + 1]
  <2>1. Around(g, i - 1, m) = Around(f, i, m) /\ Around(f, i, m) \in 0 .. m - 1
        /\ Around(f, i, m) # f
    BY DEF Around
  <2>2. after[Around(g, i - 1, m)] = block[Around(f, i, m)]
    BY <2>1
  <2>3. i \in 1 .. c /\ i + 1 \in 1 .. c /\ (i + 1) - 1 = i
    OBVIOUS
  <2>. QED BY <1>1, <1>2, <2>2, <2>3
<1>5. t[c] = v
  <2>1. Around(g, c - 1, m) = f
    BY DEF Around
  <2>2. c \in 1 .. c
    OBVIOUS
  <2>. QED BY <1>2, <2>1, <2>2
<1>. HIDE DEF s, t
<1>6. /\ Tail(s) \in Seq(S) /\ Len(Tail(s)) = c - 1
      /\ \A i \in 1 .. c - 1 : Tail(s)[i] = s[i + 1]
  BY <1>1, <1>3, HeadTailProperties
<1>7. t = Append(Tail(s), v)
  BY <1>2, <1>4, <1>5, <1>6, IsAppend
<1>. QED BY <1>7 DEF s, t, Shifts

-----------------------------------------------------------------------------
(* The refinement.                                                         *)

Deque == [b \in Buffers |-> [elems |-> Elements(b), cap |-> buf[b].max]]

LEMMA ElementsAreRead ==
    ASSUME NEW b \in Buffers
    PROVE  /\ Elements(b) = Reading(buf[b].first, buf[b].count, buf[b].max, Contains(b))
           /\ Elements(b)' = Reading(buf'[b].first, buf'[b].count, buf'[b].max,
                                     slots'[buf'[b].data])
<1>. QED BY DEF Elements, Reading, Contains, Slot

LEMMA NoElements ==
    ASSUME NEW b \in Buffers
    PROVE  /\ buf[b].count = 0 => Elements(b) = <<>>
           /\ buf'[b].count = 0 => Elements(b)' = <<>>
<1>. QED BY DEF Elements

(* What o held is what a holds after the step.                             *)
LEMMA ElementsKept ==
    ASSUME Sound, NEW a \in Buffers, NEW o \in Buffers, buf'[a] = buf[o],
           Fits(o) => slots'[buf[o].data] = slots[buf[o].data]
    PROVE  Elements(a)' = Elements(o)
<1>1. CASE Fits(o)
  BY <1>1, ElementsAreRead DEF Contains
<1>2. CASE ~Fits(o)
  <2>1. buf[o].count = 0
    BY <1>2 DEF Sound, Shaped, Nothing, Moved
  <2>. QED BY <2>1, NoElements
<1>. QED BY <1>1, <1>2

LEMMA DequeAfter ==
    ASSUME Sound, NEW b \in Buffers, NEW block, Works(b, block), NEW s,
           Reading(buf'[b].first, buf'[b].count, buf[b].max, block) = s
    PROVE  Deque' = [Deque EXCEPT ![b].elems = s]
<1>1. Elements(b)' = s
  <2>1. slots'[buf[b].data] = block
    BY WorksOn
  <2>2. buf'[b].data = buf[b].data /\ buf'[b].max = buf[b].max
    BY DEF Works
  <2>. QED BY <2>1, <2>2, ElementsAreRead
<1>2. buf'[b].max = buf[b].max
  BY DEF Works
<1>3. ASSUME NEW a \in Buffers \ {b}
      PROVE  Elements(a)' = Elements(a) /\ buf'[a].max = buf[a].max
  <2>1. buf'[a] = buf[a]
    BY DEF Works
  <2>2. Fits(a) => slots'[buf[a].data] = slots[buf[a].data]
    BY WorksOn DEF Fits
  <2>. QED BY <2>1, <2>2, ElementsKept
<1>. QED BY <1>1, <1>2, <1>3 DEF Deque

LEMMA PushRefines ==
    ASSUME Sound, NEW b \in Buffers, NEW v \in Values, Push(b, v)
    PROVE  Abstract!PushBack(b, v)
<1>1. /\ Works(b, With(b, After(b, buf[b].count), v)) /\ Fits(b)
      /\ buf[b].count < buf[b].max
      /\ buf'[b].first = buf[b].first /\ buf'[b].count = buf[b].count + 1
  BY PushWorks DEF Works
<1>2. /\ buf[b].max \in Nat \ {0} /\ buf[b].first \in 0 .. buf[b].max - 1
      /\ buf[b].count \in 0 .. buf[b].max /\ buf[b].count + 1 \in 0 .. buf[b].max
  BY <1>1, Ranges
<1>3. PICK after : after = With(b, After(b, buf[b].count), v)
  OBVIOUS
<1>4. /\ Contains(b) \in [0 .. buf[b].max - 1 -> Values \cup {Raw}]
      /\ after \in [0 .. buf[b].max - 1 -> Values \cup {Raw}]
  BY <1>1, <1>3 DEF Works, Fits, Contains
<1>5. \A k \in 0 .. buf[b].max - 1 :
         after[k] = IF k = Around(buf[b].first, buf[b].count, buf[b].max) THEN v ELSE Contains(b)[k]
  BY <1>3, <1>4 DEF With, After, Around
<1>6. v \in Values \cup {Raw}
  OBVIOUS
<1>7. Appends(Reading(buf[b].first, buf[b].count, buf[b].max, Contains(b)), v,
              Reading(buf[b].first, buf[b].count + 1, buf[b].max, after))
  BY <1>2, <1>4, <1>5, <1>6, PushReads
<1>8. PICK s : s = Reading(buf[b].first, buf[b].count + 1, buf[b].max, after)
  OBVIOUS
<1>9. Deque' = [Deque EXCEPT ![b].elems = s]
  BY <1>1, <1>3, <1>8, DequeAfter
<1>10. s = Append(Elements(b), v)
  BY <1>7, <1>8, ElementsAreRead DEF Appends
<1>11. Len(Elements(b)) # buf[b].max
  BY <1>1, <1>2, ReadingAt, ElementsAreRead
<1>. QED BY <1>9, <1>10, <1>11 DEF Deque, Abstract!PushBack, Abstract!Becomes, Abstract!Full

LEMMA OverwriteRefines ==
    ASSUME Sound, NEW b \in Buffers, NEW v \in Values, Overwrite(b, v)
    PROVE  Abstract!Overwrite(b, v)
<1>1. /\ Works(b, With(b, buf[b].first, v)) /\ Fits(b) /\ buf[b].count = buf[b].max
      /\ buf'[b].first = After(b, 1) /\ buf'[b].count = buf[b].count
  BY OverwriteWorks DEF Works
<1>2. /\ buf[b].max \in Nat \ {0} /\ buf[b].first \in 0 .. buf[b].max - 1
      /\ buf[b].count \in 0 .. buf[b].max /\ After(b, 1) \in 0 .. buf[b].max - 1
      /\ After(b, 1) = Around(buf[b].first, 1, buf[b].max)
  BY <1>1, Ranges, NextIsAfter DEF After, Around
<1>3. PICK after : after = With(b, buf[b].first, v)
  OBVIOUS
<1>4. /\ Contains(b) \in [0 .. buf[b].max - 1 -> Values \cup {Raw}]
      /\ after \in [0 .. buf[b].max - 1 -> Values \cup {Raw}]
  BY <1>1, <1>3 DEF Works, Fits, Contains
<1>5. \A k \in 0 .. buf[b].max - 1 : after[k] = IF k = buf[b].first THEN v ELSE Contains(b)[k]
  BY <1>3, <1>4 DEF With
<1>6. v \in Values \cup {Raw}
  OBVIOUS
<1>7. Shifts(Reading(buf[b].first, buf[b].count, buf[b].max, Contains(b)), v,
             Reading(After(b, 1), buf[b].count, buf[b].max, after))
  BY <1>1, <1>2, <1>4, <1>5, <1>6, OverwriteReads
<1>8. PICK s : s = Reading(After(b, 1), buf[b].count, buf[b].max, after)
  OBVIOUS
<1>9. Deque' = [Deque EXCEPT ![b].elems = s]
  BY <1>1, <1>3, <1>8, DequeAfter
<1>10. s = Append(Tail(Elements(b)), v)
  BY <1>7, <1>8, ElementsAreRead DEF Shifts
<1>11. Len(Elements(b)) = buf[b].max /\ buf[b].max > 0
  BY <1>1, <1>2, ReadingAt, ElementsAreRead
<1>. QED BY <1>9, <1>10, <1>11 DEF Deque, Abstract!Overwrite, Abstract!Becomes, Abstract!Full

LEMMA PopRefines ==
    ASSUME Sound, NEW b \in Buffers, Pop(b)
    PROVE  Abstract!PopFront(b)
<1>1. /\ Works(b, With(b, buf[b].first, Raw)) /\ Fits(b) /\ buf[b].count > 0
      /\ buf'[b].first = After(b, 1) /\ buf'[b].count = buf[b].count - 1
  BY PopWorks DEF Works
<1>2. /\ buf[b].max \in Nat \ {0} /\ buf[b].first \in 0 .. buf[b].max - 1
      /\ buf[b].count \in 0 .. buf[b].max /\ After(b, 1) \in 0 .. buf[b].max - 1
      /\ After(b, 1) = Around(buf[b].first, 1, buf[b].max)
      /\ buf[b].count - 1 \in 0 .. buf[b].max /\ buf[b].count = (buf[b].count - 1) + 1
  BY <1>1, Ranges, NextIsAfter DEF After, Around
<1>3. PICK after : after = With(b, buf[b].first, Raw)
  OBVIOUS
<1>4. /\ Contains(b) \in [0 .. buf[b].max - 1 -> Values \cup {Raw}]
      /\ after \in [0 .. buf[b].max - 1 -> Values \cup {Raw}]
  BY <1>1, <1>3 DEF Works, Fits, Contains
<1>5. \A k \in 0 .. buf[b].max - 1 : after[k] = IF k = buf[b].first THEN Raw ELSE Contains(b)[k]
  BY <1>3, <1>4 DEF With
<1>6. Raw \in Values \cup {Raw}
  OBVIOUS
<1>7. DropsFirst(Reading(buf[b].first, buf[b].count, buf[b].max, Contains(b)),
                 Reading(After(b, 1), buf[b].count - 1, buf[b].max, after))
  BY <1>2, <1>4, <1>5, <1>6, PopReads
<1>8. PICK s : s = Reading(After(b, 1), buf[b].count - 1, buf[b].max, after)
  OBVIOUS
<1>9. Deque' = [Deque EXCEPT ![b].elems = s]
  BY <1>1, <1>3, <1>8, DequeAfter
<1>10. Elements(b) # <<>> /\ s = Tail(Elements(b))
  BY <1>7, <1>8, ElementsAreRead DEF DropsFirst
<1>. QED BY <1>9, <1>10 DEF Deque, Abstract!PopFront, Abstract!Becomes

LEMMA PopBackRefines ==
    ASSUME Sound, NEW b \in Buffers, PopBack(b)
    PROVE  Abstract!PopBack(b)
<1>1. /\ Works(b, With(b, After(b, buf[b].count - 1), Raw)) /\ Fits(b) /\ buf[b].count > 0
      /\ buf'[b].first = buf[b].first /\ buf'[b].count = buf[b].count - 1
  BY PopBackWorks DEF Works
<1>2. /\ buf[b].max \in Nat \ {0} /\ buf[b].first \in 0 .. buf[b].max - 1
      /\ buf[b].count \in 0 .. buf[b].max
      /\ buf[b].count - 1 \in 0 .. buf[b].max /\ buf[b].count = (buf[b].count - 1) + 1
  BY <1>1, Ranges
<1>3. PICK after : after = With(b, After(b, buf[b].count - 1), Raw)
  OBVIOUS
<1>4. /\ Contains(b) \in [0 .. buf[b].max - 1 -> Values \cup {Raw}]
      /\ after \in [0 .. buf[b].max - 1 -> Values \cup {Raw}]
  BY <1>1, <1>3 DEF Works, Fits, Contains
<1>5. \A k \in 0 .. buf[b].max - 1 :
         after[k] = IF k = Around(buf[b].first, buf[b].count - 1, buf[b].max)
                    THEN Raw ELSE Contains(b)[k]
  BY <1>3, <1>4 DEF With, After, Around
<1>6. Raw \in Values \cup {Raw}
  OBVIOUS
<1>7. DropsLast(Reading(buf[b].first, buf[b].count, buf[b].max, Contains(b)),
                Reading(buf[b].first, buf[b].count - 1, buf[b].max, after))
  BY <1>2, <1>4, <1>5, <1>6, PopBackReads
<1>8. PICK s : s = Reading(buf[b].first, buf[b].count - 1, buf[b].max, after)
  OBVIOUS
<1>9. Deque' = [Deque EXCEPT ![b].elems = s]
  BY <1>1, <1>3, <1>8, DequeAfter
<1>10. Elements(b) # <<>> /\ s = SubSeq(Elements(b), 1, Len(Elements(b)) - 1)
  BY <1>7, <1>8, ElementsAreRead DEF DropsLast
<1>. QED BY <1>9, <1>10 DEF Deque, Abstract!PopBack, Abstract!Becomes

LEMMA ClearRefines ==
    ASSUME ClearUpTo <= 1, Sound, NEW b \in Buffers, Clear(b)
    PROVE  Abstract!Clear(b)
<1>1. Works(b, Cleared(b)) /\ buf'[b].count = 0
  BY ClearEmpties
<1>2. Reading(buf'[b].first, buf'[b].count, buf[b].max, Cleared(b)) = <<>>
  BY <1>1 DEF Reading
<1>3. Deque' = [Deque EXCEPT ![b].elems = <<>>]
  BY <1>1, <1>2, DequeAfter
<1>. QED BY <1>3 DEF Deque, Abstract!Clear, Abstract!Becomes

LEMMA ConstructRefines ==
    ASSUME Sound, NEW b \in Buffers, Construct(b)
    PROVE  Abstract!Renew(b)
<1>1. PICK d \in Blocks \ DOMAIN slots, m \in Capacities :
        /\ buf' = [buf EXCEPT ![b] = [life |-> "live", data |-> d, first |-> 0, count |-> 0,
                                      max |-> m]]
        /\ slots' = [e \in DOMAIN slots \cup {d} |->
                        IF e = d THEN [k \in 0 .. m - 1 |-> Raw] ELSE slots[e]]
  BY DEF Construct
<1>2. /\ buf'[b].count = 0 /\ buf'[b].max = m
      /\ \A a \in Buffers \ {b} : buf'[a] = buf[a]
      /\ \A e \in DOMAIN slots : slots'[e] = slots[e]
  BY <1>1 DEF Sound, Typed
<1>3. Elements(b)' = <<>>
  BY <1>2, NoElements
<1>4. ASSUME NEW a \in Buffers \ {b}
      PROVE  Elements(a)' = Elements(a) /\ buf'[a].max = buf[a].max
  BY <1>2, ElementsKept DEF Fits
<1>5. Deque' = [Deque EXCEPT ![b] = [elems |-> <<>>, cap |-> m]]
  BY <1>2, <1>3, <1>4 DEF Deque
<1>. QED BY <1>5 DEF Deque, Abstract!Renew

(* b gives back its block, if any; its elements are gone.                  *)
LEMMA FreeEmpties ==
    ASSUME Sound, NEW b \in Buffers, slots' = Freed(b),
           buf' = [buf EXCEPT ![b] = Nothing] \/ buf' = [buf EXCEPT ![b] = Moved]
    PROVE  Deque' = [Deque EXCEPT ![b] = Abstract!Empty]
<1>1. /\ buf'[b].count = 0 /\ buf'[b].max = 0
      /\ \A a \in Buffers \ {b} : buf'[a] = buf[a]
  BY DEF Sound, Typed, Nothing, Moved
<1>2. Elements(b)' = <<>>
  BY <1>1, NoElements
<1>3. ASSUME NEW a \in Buffers \ {b}
      PROVE  Elements(a)' = Elements(a) /\ buf'[a].max = buf[a].max
  <2>1. Fits(a) => buf[a].data # buf[b].data /\ buf[a].data \in DOMAIN slots
    BY RingBufferAssumption DEF Sound, Owned, Typed, Fits
  <2>2. Fits(a) => slots'[buf[a].data] = slots[buf[a].data]
    BY <2>1 DEF Freed
  <2>. QED BY <1>1, <2>2, ElementsKept
<1>. QED BY <1>1, <1>2, <1>3 DEF Deque, Abstract!Empty

LEMMA TakeRefines ==
    ASSUME Sound, NEW b \in Buffers, NEW rhs \in Buffers, b # rhs, slots' = Freed(b),
           buf' = [buf EXCEPT ![b] = buf[rhs], ![rhs] = Moved]
    PROVE  Abstract!Take(b, rhs)
<1>1. /\ buf'[b] = buf[rhs] /\ buf'[rhs].count = 0 /\ buf'[rhs].max = 0
      /\ \A a \in Buffers \ {b, rhs} : buf'[a] = buf[a]
  BY DEF Sound, Typed, Nothing, Moved
<1>2. \A a \in Buffers \ {b} : Fits(a) => slots'[buf[a].data] = slots[buf[a].data]
  <2>1. \A a \in Buffers \ {b} :
          Fits(a) => buf[a].data # buf[b].data /\ buf[a].data \in DOMAIN slots
    BY RingBufferAssumption DEF Sound, Owned, Typed, Fits
  <2>. QED BY <2>1 DEF Freed
<1>3. Elements(rhs)' = <<>>
  BY <1>1, NoElements
<1>4. Elements(b)' = Elements(rhs) /\ buf'[b].max = buf[rhs].max
  BY <1>1, <1>2, ElementsKept
<1>5. ASSUME NEW a \in Buffers \ {b, rhs}
      PROVE  Elements(a)' = Elements(a) /\ buf'[a].max = buf[a].max
  BY <1>1, <1>2, ElementsKept
<1>6. Deque' = [Deque EXCEPT ![b] = Deque[rhs], ![rhs] = Abstract!Empty]
  BY <1>1, <1>3, <1>4, <1>5 DEF Deque, Abstract!Empty
<1>. QED BY <1>6 DEF Deque, Abstract!Take

LEMMA RefinedStep ==
    ASSUME ClearUpTo <= 1, Sound, [Next]_vars
    PROVE  Abstract!Next \/ UNCHANGED Deque
<1>1. ASSUME NEW b \in Buffers, Construct(b) PROVE Abstract!Next
  BY <1>1, ConstructRefines DEF Abstract!Next
<1>2. ASSUME NEW b \in Buffers, Destroy(b) PROVE Abstract!Next
  <2>1. Deque' = [Deque EXCEPT ![b] = Abstract!Empty]
    BY <1>2, FreeEmpties DEF Destroy
  <2>2. Abstract!Renew(b)
    BY <2>1 DEF Deque, Abstract!Renew, Abstract!Empty
  <2>. QED BY <2>2 DEF Abstract!Next
<1>3. ASSUME NEW b \in Buffers, NEW rhs \in Buffers, MoveConstruct(b, rhs)
      PROVE  Abstract!Next
  <2>1. Abstract!Take(b, rhs)
    BY <1>3, MoveConstructTakes, TakeRefines DEF MoveConstruct
  <2>. QED BY <2>1 DEF Abstract!Next
<1>4. ASSUME NEW b \in Buffers, NEW rhs \in Buffers, MoveAssign(b, rhs)
      PROVE  Abstract!Next
  <2>1. CASE b = rhs
    <3>1. Deque' = [Deque EXCEPT ![b] = Abstract!Empty]
      BY <1>4, <2>1, SelfMoveFrees, FreeEmpties
    <3>2. Abstract!Take(b, b)
      BY <3>1 DEF Deque, Abstract!Take
    <3>. QED BY <3>2 DEF Abstract!Next
  <2>2. CASE b # rhs
    <3>1. Abstract!Take(b, rhs)
      BY <1>4, <2>2, TakeRefines DEF MoveAssign
    <3>. QED BY <3>1 DEF Abstract!Next
  <2>. QED BY <2>1, <2>2
<1>5. ASSUME NEW b \in Buffers, Pop(b) \/ PopBack(b) \/ Clear(b) PROVE Abstract!Next
  <2>1. Abstract!PopFront(b) \/ Abstract!PopBack(b) \/ Abstract!Clear(b)
    BY <1>5, PopRefines, PopBackRefines, ClearRefines
  <2>. QED BY <2>1 DEF Abstract!Next
<1>6. ASSUME NEW b \in Buffers, NEW v \in Values, Push(b, v) \/ Overwrite(b, v)
      PROVE  Abstract!Next
  <2>1. Abstract!PushBack(b, v) \/ Abstract!Overwrite(b, v)
    BY <1>6, PushRefines, OverwriteRefines
  <2>. QED BY <2>1 DEF Abstract!Next
<1>7. CASE UNCHANGED vars
  BY <1>7 DEF vars, Deque, Elements, Slot
<1>. QED BY <1>1, <1>2, <1>3, <1>4, <1>5, <1>6, <1>7, Steps

LEMMA RefinedInit ==
    ASSUME Init
    PROVE  Abstract!Init
<1>1. \A b \in Buffers : Elements(b) = <<>> /\ buf[b].max = 0
  BY DEF Init, Nothing, Elements
<1>. QED BY <1>1 DEF Abstract!Init, Abstract!Empty

(* Every behaviour of the buffers is one of plain bounded sequences, for   *)
(* every capacity: what operator[] and at() read (ring_buffer.hpp:113-126) *)
(* is the sequence that the pushes, pops and moves so far have built, also *)
(* around the end of the block, on a full buffer, and after a constructor  *)
(* that threw.  The hypothesis keeps clear() to the sizes for which it     *)
(* empties the buffer.                                                     *)
THEOREM ElementsAreASequence ==
    ASSUME ClearUpTo <= 1
    PROVE  Spec => ImplementsDeque
<1>1. Init => Sound /\ Abstract!Init
  BY SoundInit, RefinedInit
<1>2. Sound /\ [Next]_vars => Sound' /\ [Abstract!Next]_(Abstract!vars)
  BY SoundStep, RefinedStep DEF Deque, Abstract!vars
<1>. QED BY <1>1, <1>2, PTL DEF Spec, ImplementsDeque, Abstract!Spec

=============================================================================
