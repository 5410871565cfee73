------------------------------- MODULE Morton -------------------------------
(***************************************************************************)
(* clst::morton_3d and demorton_3d.  A 64-bit word is the set of the       *)
(* positions of its ones: | is union, & intersection, a shift moves every  *)
(* position and drops those that leave the word.                           *)
(***************************************************************************)
EXTENDS Integers

CONSTANT Pending            \* not computed yet

VARIABLES
    point,      \* the coordinates x, y, z
    code,       \* morton_3d(x, y, z)
    decoded     \* demorton_3d(code)

vars == <<point, code, decoded>>

Axes == {"x", "y", "z"}
Coordinate == 0 .. 20       \* bits of an axis: "less than 2^21" (morton.hpp:41)

ShiftLeft(word, n) == {b + n : b \in {b \in word : b + n < 64}}
ShiftRight(word, n) == {b - n : b \in {b \in word : b >= n}}

Mask32 == (0 .. 15) \cup (48 .. 52)                             \* 0x001f00000000ffff
Mask16 == (0 .. 7) \cup (24 .. 31) \cup (48 .. 52)              \* 0x001f0000ff0000ff
(* MUTANT of Mask8: 0x000f00f00f00f00f, the bit above the regular pattern  *)
(* is forgotten.                                                           *)
Mask8Regular == {b \in 0 .. 51 : b % 12 < 4}
Mask8 == {b \in 0 .. 51 : b % 12 < 4} \cup {60}                 \* 0x100f00f00f00f00f
Mask4 == {b \in 0 .. 60 : b % 6 < 2}                            \* 0x10c30c30c30c30c3
Mask2 == {b \in 0 .. 60 : b % 3 = 0}                            \* 0x1249249249249249
Mask0 == 0 .. 20                                                \* 0x00000000001fffff

(* x = (x | x << n) & mask, and the same with >>.                          *)
Spread(word, n, mask) == (word \cup ShiftLeft(word, n)) \cap mask
Gather(word, n, mask) == (word \cup ShiftRight(word, n)) \cap mask

pad_2bit(x) ==
    Spread(Spread(Spread(Spread(Spread(x, 32, Mask32), 16, Mask16), 8, Mask8), 4, Mask4), 2, Mask2)

unpad_2bit(x) ==
    Gather(Gather(Gather(Gather(Gather(x, 2, Mask4), 4, Mask8), 8, Mask16), 16, Mask32), 32, Mask0)

morton_3d(x, y, z) == ShiftLeft(pad_2bit(x), 2) \cup ShiftLeft(pad_2bit(y), 1) \cup pad_2bit(z)

demorton_3d(word) ==
    [x |-> unpad_2bit(ShiftRight(word, 2) \cap Mask2),
     y |-> unpad_2bit(ShiftRight(word, 1) \cap Mask2),
     z |-> unpad_2bit(word \cap Mask2)]

(* Points with one or two ones among the 63 bits.  No more are needed:     *)
(* every operation treats the ones of a word separately.                   *)
Init ==
    /\ \E p, q \in Coordinate \X Axes :
        point = [axis \in Axes |-> {b \in Coordinate : <<b, axis>> \in {p, q}}]
    /\ code = Pending /\ decoded = Pending

Encode ==
    /\ code = Pending
    /\ code' = morton_3d(point.x, point.y, point.z)
    /\ UNCHANGED <<point, decoded>>

Decode ==
    /\ code # Pending /\ decoded = Pending
    /\ decoded' = demorton_3d(code)
    /\ UNCHANGED <<point, code>>

Next == Encode \/ Decode

Spec == Init /\ [][Next]_vars

-----------------------------------------------------------------------------
(* Bit b of x, y and z becomes bit 3b + 2, 3b + 1 and 3b of the code, for  *)
(* all 21 bits and with nothing else in between, and the decoder undoes    *)
(* it.                                                                     *)
CodeInterleaves ==
    /\ code # Pending =>
        code = {3 * b + 2 : b \in point.x} \cup {3 * b + 1 : b \in point.y}
                 \cup {3 * b : b \in point.z}
    /\ decoded # Pending => decoded = point

=============================================================================
