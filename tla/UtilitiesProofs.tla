--------------------------- MODULE UtilitiesProofs ---------------------------
(***************************************************************************)
(* Proofs about the parts that Utilities puts next to each other, for all  *)
(* values of their constants.  Of the files and the libraries the proofs   *)
(* are in modules of their own, and are only brought together here.        *)
(***************************************************************************)
EXTENDS Utilities, Sequences, WellFoundedInduction, TLAPS

-----------------------------------------------------------------------------
(* Morton codes.                                                           *)

Coordinate == Morton!Coordinate

(* The word whose ones are those of x, each at its place.                  *)
Placed(place, x) == {place[b] : b \in x}

(* Where the ones are while they spread: in groups of 16, 8, 4 and 2 that  *)
(* are moved apart, and at last three positions from each other.           *)
Together == [b \in Coordinate |-> b]
By16 == [b \in Coordinate |-> b + 32 * (b \div 16)]
By8 == [b \in Coordinate |-> b + 16 * (b \div 8)]
By4 == [b \in Coordinate |-> b + 8 * (b \div 4)]
By2 == [b \in Coordinate |-> b + 4 * (b \div 2)]
Apart == [b \in Coordinate |-> 3 * b]

(* Of a one that moves the mask drops the old place, of one that stays the *)
(* new one.                                                                *)
LEMMA SpreadMoves ==
    ASSUME NEW x \in SUBSET Coordinate, NEW n \in Nat \ {0}, NEW mask \in SUBSET Nat,
           NEW from \in [Coordinate -> Nat], NEW to \in [Coordinate -> Nat],
           \A b \in Coordinate :
              /\ to[b] \in mask /\ to[b] < 64
              /\ \/ to[b] = from[b] /\ from[b] + n \notin mask
                 \/ to[b] = from[b] + n /\ from[b] \notin mask
    PROVE  Morton!Spread(Placed(from, x), n, mask) = Placed(to, x)
BY DEF Morton!Spread, Morton!ShiftLeft, Placed

LEMMA GatherMoves ==
    ASSUME NEW x \in SUBSET Coordinate, NEW n \in Nat \ {0}, NEW mask \in SUBSET Nat,
           NEW from \in [Coordinate -> Nat], NEW to \in [Coordinate -> Nat],
           \A b \in Coordinate :
              /\ to[b] \in mask
              /\ \/ to[b] = from[b] /\ from[b] - n \notin mask
                 \/ to[b] = from[b] - n /\ from[b] \notin mask
    PROVE  Morton!Gather(Placed(from, x), n, mask) = Placed(to, x)
BY DEF Morton!Gather, Morton!ShiftRight, Placed

LEMMA SpreadToBy16 ==
    ASSUME NEW x \in SUBSET Coordinate
    PROVE  Morton!Spread(Placed(Together, x), 32, Morton!Mask32) = Placed(By16, x)
<1>. USE DEF Coordinate, Morton!Coordinate, Together, By16, Morton!Mask32
<1>1. Together \in [Coordinate -> Nat] /\ By16 \in [Coordinate -> Nat] /\ Morton!Mask32 \in SUBSET Nat
  OBVIOUS
<1>2. ASSUME NEW b \in Coordinate
      PROVE  /\ By16[b] \in Morton!Mask32 /\ By16[b] < 64
             /\ \/ By16[b] = Together[b] /\ Together[b] + 32 \notin Morton!Mask32
                \/ By16[b] = Together[b] + 32 /\ Together[b] \notin Morton!Mask32
  OBVIOUS
<1>. HIDE DEF Coordinate, Morton!Coordinate, Together, By16, Morton!Mask32
<1>. QED BY <1>1, <1>2, SpreadMoves

LEMMA SpreadToBy8 ==
    ASSUME NEW x \in SUBSET Coordinate
    PROVE  Morton!Spread(Placed(By16, x), 16, Morton!Mask16) = Placed(By8, x)
<1>. USE DEF Coordinate, Morton!Coordinate, By16, By8, Morton!Mask16
<1>1. By16 \in [Coordinate -> Nat] /\ By8 \in [Coordinate -> Nat] /\ Morton!Mask16 \in SUBSET Nat
  OBVIOUS
<1>2. ASSUME NEW b \in Coordinate
      PROVE  /\ By8[b] \in Morton!Mask16 /\ By8[b] < 64
             /\ \/ By8[b] = By16[b] /\ By16[b] + 16 \notin Morton!Mask16
                \/ By8[b] = By16[b] + 16 /\ By16[b] \notin Morton!Mask16
  OBVIOUS
<1>. HIDE DEF Coordinate, Morton!Coordinate, By16, By8, Morton!Mask16
<1>. QED BY <1>1, <1>2, SpreadMoves

LEMMA SpreadToBy4 ==
    ASSUME NEW x \in SUBSET Coordinate
    PROVE  Morton!Spread(Placed(By8, x), 8, Morton!Mask8) = Placed(By4, x)
<1>. USE DEF Coordinate, Morton!Coordinate, By8, By4, Morton!Mask8
<1>1. By8 \in [Coordinate -> Nat] /\ By4 \in [Coordinate -> Nat] /\ Morton!Mask8 \in SUBSET Nat
  OBVIOUS
<1>2. ASSUME NEW b \in Coordinate
      PROVE  /\ By4[b] \in Morton!Mask8 /\ By4[b] < 64
             /\ \/ By4[b] = By8[b] /\ By8[b] + 8 \notin Morton!Mask8
                \/ By4[b] = By8[b] + 8 /\ By8[b] \notin Morton!Mask8
  OBVIOUS
<1>. HIDE DEF Coordinate, Morton!Coordinate, By8, By4, Morton!Mask8
<1>. QED BY <1>1, <1>2, SpreadMoves

LEMMA SpreadToBy2 ==
    ASSUME NEW x \in SUBSET Coordinate
    PROVE  Morton!Spread(Placed(By4, x), 4, Morton!Mask4) = Placed(By2, x)
<1>. USE DEF Coordinate, Morton!Coordinate, By4, By2, Morton!Mask4
<1>1. By4 \in [Coordinate -> Nat] /\ By2 \in [Coordinate -> Nat] /\ Morton!Mask4 \in SUBSET Nat
  OBVIOUS
<1>2. ASSUME NEW b \in Coordinate
      PROVE  /\ By2[b] \in Morton!Mask4 /\ By2[b] < 64
             /\ \/ By2[b] = By4[b] /\ By4[b] + 4 \notin Morton!Mask4
                \/ By2[b] = By4[b] + 4 /\ By4[b] \notin Morton!Mask4
  OBVIOUS
<1>. HIDE DEF Coordinate, Morton!Coordinate, By4, By2, Morton!Mask4
<1>. QED BY <1>1, <1>2, SpreadMoves

LEMMA SpreadToApart ==
    ASSUME NEW x \in SUBSET Coordinate
    PROVE  Morton!Spread(Placed(By2, x), 2, Morton!Mask2) = Placed(Apart, x)
<1>. USE DEF Coordinate, Morton!Coordinate, By2, Apart, Morton!Mask2
<1>1. By2 \in [Coordinate -> Nat] /\ Apart \in [Coordinate -> Nat] /\ Morton!Mask2 \in SUBSET Nat
  OBVIOUS
<1>2. ASSUME NEW b \in Coordinate
      PROVE  /\ Apart[b] \in Morton!Mask2 /\ Apart[b] < 64
             /\ \/ Apart[b] = By2[b] /\ By2[b] + 2 \notin Morton!Mask2
                \/ Apart[b] = By2[b] + 2 /\ By2[b] \notin Morton!Mask2
  OBVIOUS
<1>. HIDE DEF Coordinate, Morton!Coordinate, By2, Apart, Morton!Mask2
<1>. QED BY <1>1, <1>2, SpreadMoves

LEMMA GatherToBy2 ==
    ASSUME NEW x \in SUBSET Coordinate
    PROVE  Morton!Gather(Placed(Apart, x), 2, Morton!Mask4) = Placed(By2, x)
<1>. USE DEF Coordinate, Morton!Coordinate, Apart, By2, Morton!Mask4
<1>1. Apart \in [Coordinate -> Nat] /\ By2 \in [Coordinate -> Nat] /\ Morton!Mask4 \in SUBSET Nat
  OBVIOUS
<1>2. ASSUME NEW b \in Coordinate
      PROVE  /\ By2[b] \in Morton!Mask4
             /\ \/ By2[b] = Apart[b] /\ Apart[b] - 2 \notin Morton!Mask4
                \/ By2[b] = Apart[b] - 2 /\ Apart[b] \notin Morton!Mask4
  OBVIOUS
<1>. HIDE DEF Coordinate, Morton!Coordinate, Apart, By2, Morton!Mask4
<1>. QED BY <1>1, <1>2, GatherMoves

LEMMA GatherToBy4 ==
    ASSUME NEW x \in SUBSET Coordinate
    PROVE  Morton!Gather(Placed(By2, x), 4, Morton!Mask8) = Placed(By4, x)
<1>. USE DEF Coordinate, Morton!Coordinate, By2, By4, Morton!Mask8
<1>1. By2 \in [Coordinate -> Nat] /\ By4 \in [Coordinate -> Nat] /\ Morton!Mask8 \in SUBSET Nat
  OBVIOUS
<1>2. ASSUME NEW b \in Coordinate
      PROVE  /\ By4[b] \in Morton!Mask8
             /\ \/ By4[b] = By2[b] /\ By2[b] - 4 \notin Morton!Mask8
                \/ By4[b] = By2[b] - 4 /\ By2[b] \notin Morton!Mask8
  OBVIOUS
<1>. HIDE DEF Coordinate, Morton!Coordinate, By2, By4, Morton!Mask8
<1>. QED BY <1>1, <1>2, GatherMoves

LEMMA GatherToBy8 ==
    ASSUME NEW x \in SUBSET Coordinate
    PROVE  Morton!Gather(Placed(By4, x), 8, Morton!Mask16) = Placed(By8, x)
<1>. USE DEF Coordinate, Morton!Coordinate, By4, By8, Morton!Mask16
<1>1. By4 \in [Coordinate -> Nat] /\ By8 \in [Coordinate -> Nat] /\ Morton!Mask16 \in SUBSET Nat
  OBVIOUS
<1>2. ASSUME NEW b \in Coordinate
      PROVE  /\ By8[b] \in Morton!Mask16
             /\ \/ By8[b] = By4[b] /\ By4[b] - 8 \notin Morton!Mask16
                \/ By8[b] = By4[b] - 8 /\ By4[b] \notin Morton!Mask16
  OBVIOUS
<1>. HIDE DEF Coordinate, Morton!Coordinate, By4, By8, Morton!Mask16
<1>. QED BY <1>1, <1>2, GatherMoves

LEMMA GatherToBy16 ==
    ASSUME NEW x \in SUBSET Coordinate
    PROVE  Morton!Gather(Placed(By8, x), 16, Morton!Mask32) = Placed(By16, x)
<1>. USE DEF Coordinate, Morton!Coordinate, By8, By16, Morton!Mask32
<1>1. By8 \in [Coordinate -> Nat] /\ By16 \in [Coordinate -> Nat] /\ Morton!Mask32 \in SUBSET Nat
  OBVIOUS
<1>2. ASSUME NEW b \in Coordinate
      PROVE  /\ By16[b] \in Morton!Mask32
             /\ \/ By16[b] = By8[b] /\ By8[b] - 16 \notin Morton!Mask32
                \/ By16[b] = By8[b] - 16 /\ By8[b] \notin Morton!Mask32
  OBVIOUS
<1>. HIDE DEF Coordinate, Morton!Coordinate, By8, By16, Morton!Mask32
<1>. QED BY <1>1, <1>2, GatherMoves

LEMMA GatherToTogether ==
    ASSUME NEW x \in SUBSET Coordinate
    PROVE  Morton!Gather(Placed(By16, x), 32, Morton!Mask0) = Placed(Together, x)
<1>. USE DEF Coordinate, Morton!Coordinate, By16, Together, Morton!Mask0
<1>1. By16 \in [Coordinate -> Nat] /\ Together \in [Coordinate -> Nat] /\ Morton!Mask0 \in SUBSET Nat
  OBVIOUS
<1>2. ASSUME NEW b \in Coordinate
      PROVE  /\ Together[b] \in Morton!Mask0
             /\ \/ Together[b] = By16[b] /\ By16[b] - 32 \notin Morton!Mask0
                \/ Together[b] = By16[b] - 32 /\ By16[b] \notin Morton!Mask0
  OBVIOUS
<1>. HIDE DEF Coordinate, Morton!Coordinate, By16, Together, Morton!Mask0
<1>. QED BY <1>1, <1>2, GatherMoves

(* pad_2bit() and unpad_2bit() (morton.hpp:9-38), for every coordinate.    *)
LEMMA PadSpreads ==
    ASSUME NEW x \in SUBSET Coordinate
    PROVE  Morton!pad_2bit(x) = Placed(Apart, x)
<1>1. x = Placed(Together, x)
  BY DEF Placed, Together
<1>. QED BY <1>1, SpreadToBy16, SpreadToBy8, SpreadToBy4, SpreadToBy2, SpreadToApart
         DEF Morton!pad_2bit

LEMMA UnpadGathers ==
    ASSUME NEW x \in SUBSET Coordinate
    PROVE  Morton!unpad_2bit(Placed(Apart, x)) = x
<1>1. x = Placed(Together, x)
  BY DEF Placed, Together
<1>. QED BY <1>1, GatherToBy2, GatherToBy4, GatherToBy8, GatherToBy16, GatherToTogether
         DEF Morton!unpad_2bit

(* The ones of x at every third position from n on; the code of a point.   *)
Thirds(x, n) == {3 * b + n : b \in x}
Interleaved(x, y, z) == Thirds(x, 2) \cup Thirds(y, 1) \cup Thirds(z, 0)

LEMMA ApartIs ==
    ASSUME NEW x \in SUBSET Coordinate
    PROVE  Placed(Apart, x) = Thirds(x, 0)
<1>1. \A b \in x : Apart[b] = 3 * b + 0
  BY DEF Apart, Coordinate, Morton!Coordinate
<1>. QED BY <1>1 DEF Placed, Thirds

LEMMA ShiftedThirds ==
    ASSUME NEW x \in SUBSET Coordinate, NEW n \in 0 .. 2
    PROVE  Morton!ShiftLeft(Thirds(x, 0), n) = Thirds(x, n)
<1>. USE DEF Coordinate, Morton!Coordinate
<1>1. ASSUME NEW p \in Morton!ShiftLeft(Thirds(x, 0), n) PROVE p \in Thirds(x, n)
  <2>1. PICK q \in Thirds(x, 0) : p = q + n
    BY <1>1 DEF Morton!ShiftLeft
  <2>2. PICK b \in x : q = 3 * b + 0
    BY DEF Thirds
  <2>3. p = 3 * b + n
    BY <2>1, <2>2
  <2>. QED BY <2>3 DEF Thirds
<1>2. ASSUME NEW b \in x PROVE 3 * b + n \in Morton!ShiftLeft(Thirds(x, 0), n)
  <2>1. 3 * b + n < 64 /\ 3 * b + n = (3 * b + 0) + n /\ 3 * b + 0 \in Thirds(x, 0)
    BY DEF Thirds
  <2>. QED BY <2>1 DEF Morton!ShiftLeft
<1>. QED BY <1>1, <1>2 DEF Thirds

LEMMA EncoderInterleaves ==
    ASSUME NEW x \in SUBSET Coordinate, NEW y \in SUBSET Coordinate, NEW z \in SUBSET Coordinate
    PROVE  Morton!morton_3d(x, y, z) = Interleaved(x, y, z)
<1>1. /\ Morton!ShiftLeft(Morton!pad_2bit(x), 2) = Thirds(x, 2)
      /\ Morton!ShiftLeft(Morton!pad_2bit(y), 1) = Thirds(y, 1)
      /\ Morton!pad_2bit(z) = Thirds(z, 0)
  BY PadSpreads, ApartIs, ShiftedThirds
<1>. QED BY <1>1 DEF Morton!morton_3d, Interleaved

(* Only the ones of one axis are at a multiple of three after a shift.     *)
LEMMA OneAxis ==
    ASSUME NEW word \in SUBSET Nat, NEW n \in 0 .. 2, NEW axis \in SUBSET Coordinate,
           \A b \in axis : 3 * b + n \in word,
           \A p \in word : p % 3 = n => p \in Thirds(axis, n)
    PROVE  Morton!ShiftRight(word, n) \cap Morton!Mask2 = Thirds(axis, 0)
<1>1. ASSUME NEW q \in Morton!ShiftRight(word, n) \cap Morton!Mask2
      PROVE  q \in Thirds(axis, 0)
  <2>1. PICK p \in word : p >= n /\ q = p - n
    BY DEF Morton!ShiftRight
  <2>2. q \in Nat /\ q % 3 = 0 /\ p \in Nat
    BY DEF Morton!Mask2
  <2>5. p % 3 = n
    BY <2>1, <2>2
  <2>3. PICK b \in axis : p = 3 * b + n
    BY <2>5 DEF Thirds
  <2>4. q = 3 * b + 0
    BY <2>1, <2>3 DEF Coordinate, Morton!Coordinate
  <2>. QED BY <2>4 DEF Thirds
<1>2. ASSUME NEW b \in axis
      PROVE  3 * b + 0 \in Morton!ShiftRight(word, n) \cap Morton!Mask2
  <2>1. /\ 3 * b + n \in word /\ 3 * b + n >= n /\ (3 * b + n) - n = 3 * b + 0
        /\ 3 * b + 0 \in 0 .. 60 /\ (3 * b + 0) % 3 = 0
    BY DEF Coordinate, Morton!Coordinate
  <2>. QED BY <2>1 DEF Morton!ShiftRight, Morton!Mask2
<1>. QED BY <1>1, <1>2 DEF Thirds

LEMMA AxesApart ==
    ASSUME NEW x \in SUBSET Coordinate, NEW y \in SUBSET Coordinate, NEW z \in SUBSET Coordinate
    PROVE  /\ Morton!ShiftRight(Interleaved(x, y, z), 2) \cap Morton!Mask2 = Thirds(x, 0)
           /\ Morton!ShiftRight(Interleaved(x, y, z), 1) \cap Morton!Mask2 = Thirds(y, 0)
           /\ Interleaved(x, y, z) \cap Morton!Mask2 = Thirds(z, 0)
<1>. DEFINE word == Interleaved(x, y, z)
<1>1. ASSUME NEW p \in word
      PROVE  /\ p \in Nat
             /\ \/ p % 3 = 2 /\ p \in Thirds(x, 2)
                \/ p % 3 = 1 /\ p \in Thirds(y, 1)
                \/ p % 3 = 0 /\ p \in Thirds(z, 0)
  <2>1. \A b \in Coordinate : /\ 3 * b + 2 \in Nat /\ (3 * b + 2) % 3 = 2
                            /\ 3 * b + 1 \in Nat /\ (3 * b + 1) % 3 = 1
                            /\ 3 * b + 0 \in Nat /\ (3 * b + 0) % 3 = 0
    BY DEF Coordinate, Morton!Coordinate
  <2>2. CASE p \in Thirds(x, 2)
    <3>1. PICK b \in x : p = 3 * b + 2
      BY <2>2 DEF Thirds
    <3>. QED BY <2>1, <2>2, <3>1
  <2>3. CASE p \in Thirds(y, 1)
    <3>1. PICK b \in y : p = 3 * b + 1
      BY <2>3 DEF Thirds
    <3>. QED BY <2>1, <2>3, <3>1
  <2>4. CASE p \in Thirds(z, 0)
    <3>1. PICK b \in z : p = 3 * b + 0
      BY <2>4 DEF Thirds
    <3>. QED BY <2>1, <2>4, <3>1
  <2>. QED BY <2>2, <2>3, <2>4 DEF Interleaved
<1>2. /\ \A b \in x : 3 * b + 2 \in word
      /\ \A b \in y : 3 * b + 1 \in word
      /\ \A b \in z : 3 * b + 0 \in word
  BY DEF Interleaved, Thirds
<1>. HIDE DEF word
<1>3. /\ \A p \in word : p % 3 = 2 => p \in Thirds(x, 2)
      /\ \A p \in word : p % 3 = 1 => p \in Thirds(y, 1)
      /\ \A p \in word : p % 3 = 0 => p \in Thirds(z, 0)
  BY <1>1
<1>4. word \in SUBSET Nat /\ 0 \in 0 .. 2 /\ 1 \in 0 .. 2 /\ 2 \in 0 .. 2
  BY <1>1
<1>5. Morton!ShiftRight(word, 2) \cap Morton!Mask2 = Thirds(x, 0)
  BY <1>2, <1>3, <1>4, OneAxis
<1>7. Morton!ShiftRight(word, 1) \cap Morton!Mask2 = Thirds(y, 0)
  BY <1>2, <1>3, <1>4, OneAxis
<1>8. Morton!ShiftRight(word, 0) \cap Morton!Mask2 = Thirds(z, 0)
  <2>1. PICK n : n = 0
    OBVIOUS
  <2>2. n \in 0 .. 2 /\ (\A b \in z : 3 * b + n \in word) /\ \A p \in word : p % 3 = n => p \in Thirds(z, n)
    BY <1>2, <1>3, <2>1
  <2>3. Morton!ShiftRight(word, n) \cap Morton!Mask2 = Thirds(z, 0)
    BY <1>4, <2>2, OneAxis
  <2>. QED BY <2>1, <2>3
<1>6. Morton!ShiftRight(word, 0) = word
  BY <1>1 DEF Morton!ShiftRight
<1>. QED BY <1>5, <1>6, <1>7, <1>8 DEF word

LEMMA DecoderInverts ==
    ASSUME NEW x \in SUBSET Coordinate, NEW y \in SUBSET Coordinate, NEW z \in SUBSET Coordinate
    PROVE  Morton!demorton_3d(Interleaved(x, y, z)) = [x |-> x, y |-> y, z |-> z]
<1>1. /\ Morton!unpad_2bit(Thirds(x, 0)) = x
      /\ Morton!unpad_2bit(Thirds(y, 0)) = y
      /\ Morton!unpad_2bit(Thirds(z, 0)) = z
  BY ApartIs, UnpadGathers
<1>2. /\ Morton!ShiftRight(Interleaved(x, y, z), 2) \cap Morton!Mask2 = Thirds(x, 0)
      /\ Morton!ShiftRight(Interleaved(x, y, z), 1) \cap Morton!Mask2 = Thirds(y, 0)
      /\ Interleaved(x, y, z) \cap Morton!Mask2 = Thirds(z, 0)
  BY AxesApart
<1>3. PICK word : word = Interleaved(x, y, z)
  OBVIOUS
<1>4. /\ Morton!unpad_2bit(Morton!ShiftRight(word, 2) \cap Morton!Mask2) = x
      /\ Morton!unpad_2bit(Morton!ShiftRight(word, 1) \cap Morton!Mask2) = y
      /\ Morton!unpad_2bit(word \cap Morton!Mask2) = z
  BY <1>1, <1>2, <1>3
<1>5. Morton!demorton_3d(word) = [x |-> x, y |-> y, z |-> z]
  BY ONLY <1>4 DEF Morton!demorton_3d
<1>. QED BY <1>3, <1>5

(* Not only the points with one or two ones that TLC begins with: any      *)
(* three coordinates of 21 bits are encoded and decoded as they should be  *)
(* (morton.hpp:40-64).                                                     *)
THEOREM EveryPointIsEncoded ==
    ASSUME NEW x \in SUBSET Coordinate, NEW y \in SUBSET Coordinate, NEW z \in SUBSET Coordinate
    PROVE  /\ Morton!morton_3d(x, y, z) = Interleaved(x, y, z)
           /\ Morton!demorton_3d(Morton!morton_3d(x, y, z)) = [x |-> x, y |-> y, z |-> z]
BY EncoderInterleaves, DecoderInverts

LEMMA InterleavedIs ==
    ASSUME NEW p, p \in [Morton!Axes -> SUBSET Coordinate]
    PROVE  Interleaved(p.x, p.y, p.z)
             = {3 * b + 2 : b \in p.x} \cup {3 * b + 1 : b \in p.y} \cup {3 * b : b \in p.z}
<1>1. \A b \in p.z : 3 * b + 0 = 3 * b
  BY DEF Morton!Axes, Coordinate, Morton!Coordinate
<1>2. Thirds(p.z, 0) = {3 * b : b \in p.z}
  BY <1>1 DEF Thirds
<1>. QED BY <1>2 DEF Interleaved, Thirds

(* The code interleaves the coordinates, and the decoder undoes it.        *)
THEOREM CodesInterleave == Spec => []CodeInterleaves
<1>. DEFINE IsPoint == part = "Morton" => point \in [Morton!Axes -> SUBSET Coordinate]
<1>1. Init => IsPoint /\ CodeInterleaves
  <2>. SUFFICES ASSUME Init, part = "Morton" PROVE IsPoint /\ CodeInterleaves
    BY DEF CodeInterleaves
  <2>1. Morton!Init
    BY DEF Init
  <2>2. point \in [Morton!Axes -> SUBSET Coordinate]
    BY <2>1 DEF Morton!Init, Morton!Axes, Coordinate
  <2>. QED BY <2>1, <2>2 DEF Morton!Init, CodeInterleaves, Morton!CodeInterleaves
<1>2. IsPoint /\ CodeInterleaves /\ [Next]_vars => (IsPoint /\ CodeInterleaves)'
  <2>. SUFFICES ASSUME IsPoint, CodeInterleaves, [Next]_vars, part' = "Morton"
                PROVE  (IsPoint /\ CodeInterleaves)'
    BY DEF CodeInterleaves
  <2>1. part = "Morton" /\ (Morton!Next \/ UNCHANGED <<point, code, decoded>>)
    BY DEF Next, vars
  <2>2. Morton!CodeInterleaves /\ point \in [Morton!Axes -> SUBSET Coordinate]
    BY <2>1 DEF CodeInterleaves
  <2>3. /\ point.x \in SUBSET Coordinate /\ point.y \in SUBSET Coordinate
        /\ point.z \in SUBSET Coordinate
        /\ point = [x |-> point.x, y |-> point.y, z |-> point.z]
    BY <2>2 DEF Morton!Axes
  <2>4. UNCHANGED point
    BY <2>1 DEF Morton!Next, Morton!Encode, Morton!Decode
  <2>5. CASE Morton!Encode
    <3>1. code' = Interleaved(point.x, point.y, point.z) /\ UNCHANGED decoded
      BY <2>3, <2>5, EncoderInterleaves DEF Morton!Encode
    <3>. QED BY <2>1, <2>2, <2>3, <2>4, <3>1, InterleavedIs
             DEF CodeInterleaves, Morton!CodeInterleaves
  <2>6. CASE Morton!Decode
    <3>1. code = Interleaved(point.x, point.y, point.z)
      BY <2>2, <2>3, <2>6, InterleavedIs DEF Morton!Decode, Morton!CodeInterleaves
    <3>2. decoded' = point /\ UNCHANGED code
      BY <2>3, <2>6, <3>1, DecoderInverts DEF Morton!Decode
    <3>. QED BY <2>1, <2>2, <2>4, <3>2 DEF CodeInterleaves, Morton!CodeInterleaves
  <2>7. CASE UNCHANGED <<point, code, decoded>>
    BY <2>1, <2>2, <2>7 DEF CodeInterleaves, Morton!CodeInterleaves
  <2>. QED BY <2>1, <2>5, <2>6, <2>7 DEF Morton!Next
<1>. QED BY <1>1, <1>2, PTL DEF Spec

-----------------------------------------------------------------------------
(* Libraries and files.                                                    *)

Libs == INSTANCE DsoProofs WITH CloseOpen <- FALSE

(* The copies of a module's definitions are the same formula when they are *)
(* unfolded.                                                               *)
LEMMA SameDsoSteps == Dso!Next <=> Libs!Next
BY DEF Dso!Next, Libs!Next, Dso!Construct, Libs!Construct, Dso!Destroy, Libs!Destroy,
       Dso!MoveConstruct, Libs!MoveConstruct, Dso!MoveAssign, Libs!MoveAssign, Dso!Open,
       Libs!Open, Dso!Close, Libs!Close, Dso!LoadDso, Libs!LoadDso, Dso!GivenBack,
       Libs!GivenBack, Dso!IsOpen, Libs!IsOpen, Dso!Alive, Libs!Alive

LEMMA SameDsoCount == \A S : Libs!Cardinality(S) = Dso!Cardinality(S)
BY DEF Libs!Cardinality, Dso!Cardinality

(* A library is loaded as long as a Dso holds it, and no longer.           *)
THEOREM LibrariesAreLoadedWhileHeld == Spec => []LoadedWhileHeld
<1>1. Libs!ProperUse
  BY UtilitiesAssumption DEF Libs!ProperUse, Libs!IsFiniteSet, IsFiniteSet
<1>2. Init /\ part = "Dso" => Libs!Init
  BY DEF Init, Dso!Init, Libs!Init
<1>3. part = "Dso" /\ [Next]_vars => (part = "Dso")' /\ [Libs!Next]_Libs!vars
  BY SameDsoSteps DEF Next, vars, Libs!vars
<1>4. Spec /\ part = "Dso" => Libs!Spec
  BY <1>2, <1>3, PTL DEF Spec, Libs!Spec
<1>5. Libs!Spec => []Libs!LoadedWhileHeld
  BY <1>1, Libs!LibrariesAreLoadedWhileHeld
<1>6. Libs!LoadedWhileHeld => LoadedWhileHeld
  BY SameDsoCount DEF LoadedWhileHeld, Libs!LoadedWhileHeld, Dso!LoadedWhileHeld
<1>7. Spec /\ part # "Dso" => []LoadedWhileHeld
  <2>1. part # "Dso" /\ [Next]_vars => (part # "Dso")'
    BY DEF Next, vars
  <2>2. part # "Dso" => LoadedWhileHeld
    BY DEF LoadedWhileHeld
  <2>. QED BY <2>1, <2>2, PTL DEF Spec
<1>8. part = "Dso" \/ part # "Dso"
  OBVIOUS
<1>. QED BY <1>4, <1>5, <1>6, <1>7, <1>8, PTL

Fs == INSTANCE BinaryFileStreamProofs WITH
    stream <- owner, Sizes <- FileSizes, ReuseMoved <- FALSE

LEMMA SameFileSteps == BinaryFileStream!Next <=> Fs!Next
BY DEF BinaryFileStream!Next, Fs!Next, BinaryFileStream!Construct, Fs!Construct,
       BinaryFileStream!Destroy, Fs!Destroy, BinaryFileStream!MoveConstruct,
       Fs!MoveConstruct, BinaryFileStream!MoveAssign, Fs!MoveAssign,
       BinaryFileStream!Open, Fs!Open, BinaryFileStream!Close, Fs!Close,
       BinaryFileStream!Measured, Fs!Measured, BinaryFileStream!Fclose, Fs!Fclose,
       BinaryFileStream!MovedFrom, Fs!MovedFrom, BinaryFileStream!Fresh, Fs!Fresh,
       BinaryFileStream!Modes, Fs!Modes, BinaryFileStream!Readable, Fs!Readable,
       BinaryFileStream!IsOpen, Fs!IsOpen, BinaryFileStream!Alive, Fs!Alive

LEMMA SameFileCount == \A S : Fs!Cardinality(S) = BinaryFileStream!Cardinality(S)
BY DEF Fs!Cardinality, BinaryFileStream!Cardinality

LEMMA FileValuesAreProper == Fs!ProperValues
BY UtilitiesAssumption DEF Fs!ProperValues, Fs!Members

LEMMA FileBehaviours == Spec /\ part = "BinaryFileStream" => Fs!Spec
<1>1. Init /\ part = "BinaryFileStream" => Fs!Init
  BY DEF Init, BinaryFileStream!Init, Fs!Init
<1>2. part = "BinaryFileStream" /\ [Next]_vars
        => (part = "BinaryFileStream")' /\ [Fs!Next]_Fs!vars
  BY SameFileSteps DEF Next, vars, Fs!vars
<1>. QED BY <1>1, <1>2, PTL DEF Spec, Fs!Spec

(* An open FILE has exactly one owner.                                     *)
THEOREM FilesHaveOneOwner == Spec => []OneFileOneOwner
<1>1. Fs!Spec => []Fs!OneFileOneOwner
  BY FileValuesAreProper, Fs!FilesHaveOneOwner
<1>2. Fs!OneFileOneOwner => OneFileOneOwner
  BY SameFileCount DEF OneFileOneOwner, Fs!OneFileOneOwner,
     BinaryFileStream!OneFileOneOwner, Fs!Alive, BinaryFileStream!Alive
<1>3. Spec /\ part # "BinaryFileStream" => []OneFileOneOwner
  <2>1. part # "BinaryFileStream" /\ [Next]_vars => (part # "BinaryFileStream")'
    BY DEF Next, vars
  <2>2. part # "BinaryFileStream" => OneFileOneOwner
    BY DEF OneFileOneOwner
  <2>. QED BY <2>1, <2>2, PTL DEF Spec
<1>4. part = "BinaryFileStream" \/ part # "BinaryFileStream"
  OBVIOUS
<1>. QED BY <1>1, <1>2, <1>3, <1>4, FileBehaviours, PTL

(* get_length() of an open stream is about the file it owns.               *)
THEOREM LengthsAreOfTheirFiles == Spec => []LengthIsOfThisFile
<1>1. Fs!Spec => []Fs!LengthIsOfThisFile
  BY FileValuesAreProper, Fs!LengthsAreOfTheirFiles
<1>2. Fs!LengthIsOfThisFile => LengthIsOfThisFile
  BY DEF LengthIsOfThisFile, Fs!LengthIsOfThisFile, BinaryFileStream!LengthIsOfThisFile,
         Fs!IsOpen, BinaryFileStream!IsOpen, Fs!Alive, BinaryFileStream!Alive
<1>3. Spec /\ part # "BinaryFileStream" => []LengthIsOfThisFile
  <2>1. part # "BinaryFileStream" /\ [Next]_vars => (part # "BinaryFileStream")'
    BY DEF Next, vars
  <2>2. part # "BinaryFileStream" => LengthIsOfThisFile
    BY DEF LengthIsOfThisFile
  <2>. QED BY <2>1, <2>2, PTL DEF Spec
<1>4. part = "BinaryFileStream" \/ part # "BinaryFileStream"
  OBVIOUS
<1>. QED BY <1>1, <1>2, <1>3, <1>4, FileBehaviours, PTL

-----------------------------------------------------------------------------
(* The arena.                                                              *)

LEMMA Division ==
    ASSUME NEW a \in Int, a > 0, NEW x \in Int
    PROVE  /\ x \div a \in Int
           /\ x % a \in Int /\ 0 <= x % a /\ x % a < a
           /\ x = a * (x \div a) + (x % a)
<1>1. x \div a \in Int
  OBVIOUS
<1>2. x % a \in Int /\ 0 <= x % a /\ x % a < a
  OBVIOUS
<1>3. x = a * (x \div a) + (x % a)
  OBVIOUS
<1>. QED BY <1>1, <1>2, <1>3

(* Multiples of at least one and at most minus one are not small.          *)
LEMMA MultiplesAreFar ==
    ASSUME NEW a \in Int, a > 0, NEW d \in Int
    PROVE  /\ d >= 1 => a * d >= a
           /\ d <= -1 => a * d <= -a
OBVIOUS

LEMMA MultiplesAreAligned ==
    ASSUME NEW a \in Int, a > 0, NEW k \in Int, NEW x \in Int, x = a * k
    PROVE  x % a = 0
<1>1. PICK q \in Int : q = x \div a
  BY Division
<1>2. PICK r \in Int : r = x % a
  BY Division
<1>3. 0 <= r /\ r < a /\ x = a * q + r
  BY <1>1, <1>2, Division
<1>4. PICK d \in Int : d = k - q
  OBVIOUS
<1>5. a * d = a * k - a * q
  BY <1>4
<1>6. PICK e \in Int : e = a * d
  OBVIOUS
<1>7. e = r
  BY <1>3, <1>5, <1>6
<1>8. d = 0
  BY <1>3, <1>6, <1>7, MultiplesAreFar
<1>. QED BY <1>2, <1>6, <1>7, <1>8

(* The padding leads to the next boundary, also where the negation wraps   *)
(* around, because the alignment divides the number of addresses.          *)
LEMMA PaddingAligns ==
    ASSUME Arena!ProperAlignments, NEW a \in Alignments, cur \in 0 .. AddressSpace - 1
    PROVE  /\ Arena!Pad(a) \in 0 .. a - 1
           /\ (cur + Arena!Pad(a)) % a = 0
<1>. DEFINE M == AddressSpace
<1>1. a \in Int /\ a > 0 /\ M \in Int /\ M > 0 /\ M % a = 0 /\ cur \in Int
  BY DEF Arena!ProperAlignments
<1>2. PICK k \in Int : M = a * k
  BY <1>1, Division
<1>3. CASE cur = 0
  <2>1. (M - cur) % M = 0
    <3>1. M - cur = M * 1
      BY <1>1, <1>3
    <3>. QED BY <1>1, <3>1, MultiplesAreAligned
  <2>2. 0 % a = 0
    <3>1. 0 = a * 0
      BY <1>1
    <3>. QED BY <1>1, <3>1, MultiplesAreAligned
  <2>. QED BY <1>1, <1>3, <2>1, <2>2 DEF Arena!Pad
<1>4. CASE cur # 0
  <2>1. PICK n \in Int : n = M - cur
    BY <1>1
  <2>2. n % M = n
    BY <1>1, <1>4, <2>1
  <2>3. PICK r \in Int : r = n % a
    BY <1>1, Division
  <2>4. PICK q \in Int : n = a * q + r
    BY <1>1, <2>3, Division
  <2>5. r \in 0 .. a - 1
    BY <1>1, <2>3, Division
  <2>6. Arena!Pad(a) = r
    BY <2>1, <2>2, <2>3 DEF Arena!Pad
  <2>7. cur + r = a * k - a * q
    BY <1>1, <1>2, <2>1, <2>4
  <2>8. a * k - a * q = a * (k - q)
    BY <1>1
  <2>9. PICK x \in Int, d \in Int : x = cur + r /\ d = k - q
    BY <1>1
  <2>10. x % a = 0
    BY <1>1, <2>7, <2>8, <2>9, MultiplesAreAligned
  <2>. QED BY <2>5, <2>6, <2>9, <2>10
<1>. QED BY <1>3, <1>4

Pieces == [at : Nat, size : Nat, alignment : Nat]

ArenaTyped ==
    /\ begin \in 0 .. AddressSpace - 1 /\ end \in 0 .. AddressSpace - 1 /\ cur \in Nat
    /\ blocks \in Seq(Pieces)

InPlace(i) ==
    /\ blocks[i].at % blocks[i].alignment = 0
    /\ begin <= blocks[i].at /\ blocks[i].at + blocks[i].size <= cur
    /\ \A j \in 1 .. i - 1 : blocks[j].at + blocks[j].size <= blocks[i].at

LEMMA AllocateKeeps ==
    ASSUME Arena!ProperAlignments, ArenaTyped, Arena!BlocksAreApart,
           NEW r \in Arena!Requests, Arena!Allocate(r.size, r.alignment)
    PROVE  ArenaTyped' /\ Arena!BlocksAreApart'
<1>1. PICK a \in Alignments : r \in [size : 0 .. Arena!PtrdiffMax - a + 1, alignment : {a}]
  BY DEF Arena!Requests
<1>2. Arena!PtrdiffMax \in Int
  BY DEF Arena!ProperAlignments, Arena!PtrdiffMax
<1>3. a \in Nat /\ r.alignment = a /\ r.size \in Nat
  BY <1>1, <1>2 DEF Arena!ProperAlignments
<1>4. cur \in 0 .. AddressSpace - 1 /\ cur \in Nat
  BY DEF Arena!ProperAlignments, ArenaTyped, Arena!BlocksAreApart
<1>5. PICK n \in Nat : n = r.size
  BY <1>3
<1>6. PICK pad \in Nat : pad = Arena!Pad(a) /\ (cur + pad) % a = 0
  BY <1>3, <1>4, PaddingAligns
<1>7. PICK b \in Pieces : b = [at |-> cur + pad, size |-> n, alignment |-> a]
  <2>1. cur + pad \in Nat
    BY <1>4
  <2>2. [at |-> cur + pad, size |-> n, alignment |-> a] \in Pieces
    BY <1>3, <2>1 DEF Pieces
  <2>. QED BY <2>2
<1>8. /\ blocks' = Append(blocks, b) /\ cur' = cur + pad + n
      /\ end' = end /\ begin' = begin /\ ~(end - cur < pad + n)
  BY <1>3, <1>5, <1>6, <1>7 DEF Arena!Allocate, Arena!Fits
<1>9. ArenaTyped'
  BY <1>8 DEF ArenaTyped
<1>10. begin' <= cur' /\ cur' <= end'
  BY <1>8 DEF ArenaTyped, Arena!BlocksAreApart
<1>11. ASSUME NEW i \in 1 .. Len(blocks') PROVE InPlace(i)'
  <2>1. /\ \A j \in 1 .. Len(blocks) : blocks'[j] = blocks[j] /\ blocks[j] \in Pieces
        /\ blocks'[Len(blocks) + 1] = b
        /\ Len(blocks') = Len(blocks) + 1 /\ Len(blocks) \in Nat
    BY <1>8 DEF ArenaTyped
  <2>2. \A j \in 1 .. Len(blocks) : blocks[j].at \in Nat /\ blocks[j].size \in Nat
    BY <2>1 DEF Pieces
  <2>3. \A j \in 1 .. Len(blocks) : InPlace(j)
    BY DEF InPlace, Arena!BlocksAreApart
  <2>4. begin <= cur /\ cur <= cur + pad /\ cur + pad + n \in Nat /\ begin \in Nat
    BY <1>4 DEF ArenaTyped, Arena!BlocksAreApart
  <2>5. CASE i = Len(blocks) + 1
    <3>1. b.at = cur + pad /\ b.size = n /\ b.alignment = a
      BY <1>7
    <3>2. blocks'[i].at % blocks'[i].alignment = 0
      BY <1>6, <2>1, <2>5, <3>1
    <3>3. begin' <= blocks'[i].at /\ blocks'[i].at + blocks'[i].size <= cur'
      BY <1>4, <1>8, <2>1, <2>4, <2>5, <3>1
    <3>4. \A j \in 1 .. Len(blocks) : blocks[j].at + blocks[j].size <= cur + pad
      BY <1>4, <2>2, <2>3, <2>4 DEF InPlace
    <3>5. \A j \in 1 .. i - 1 : blocks'[j].at + blocks'[j].size <= blocks'[i].at
      BY <2>1, <2>5, <3>1, <3>4
    <3>. QED BY <3>2, <3>3, <3>5 DEF InPlace
  <2>6. CASE i \in 1 .. Len(blocks)
    <3>1. blocks[i].at + blocks[i].size <= cur'
      <4>1. PICK last \in Nat : last = blocks[i].at + blocks[i].size
        BY <2>2, <2>6
      <4>2. last <= cur
        BY <2>3, <2>6, <4>1 DEF InPlace
      <4>3. last <= cur'
        BY <1>4, <1>8, <4>2
      <4>. QED BY <4>1, <4>3
    <3>2. \A j \in 1 .. i - 1 : blocks'[j].at + blocks'[j].size <= blocks'[i].at
      BY <2>1, <2>3, <2>6 DEF InPlace
    <3>3. blocks'[i] = blocks[i] /\ begin' = begin
      BY <1>8, <2>1, <2>6
    <3>. QED BY <2>3, <2>6, <3>1, <3>2, <3>3 DEF InPlace
  <2>. QED BY <2>1, <2>5, <2>6
<1>. QED BY <1>9, <1>10, <1>11 DEF Arena!BlocksAreApart, InPlace

(* What allocate() hands out is inside the arena, aligned, and disjoint    *)
(* from what was handed out before (arena.hpp:24-34).                      *)
THEOREM ArenaBlocksAreApart == Spec => []BlocksAreApart
<1>. DEFINE IsTyped == part = "Arena" => ArenaTyped
<1>1. Init => IsTyped /\ BlocksAreApart
  <2>. SUFFICES ASSUME Init, part = "Arena" PROVE ArenaTyped /\ Arena!BlocksAreApart
    BY DEF BlocksAreApart
  <2>1. /\ begin \in 0 .. AddressSpace - 1 /\ end \in 0 .. AddressSpace - 1
        /\ begin <= end /\ cur = begin /\ blocks = <<>>
    BY DEF Init, Arena!Init, Arena!Addresses
  <2>2. AddressSpace \in Nat
    BY UtilitiesAssumption DEF Arena!ProperAlignments
  <2>. QED BY <2>1, <2>2 DEF ArenaTyped, Arena!BlocksAreApart
<1>2. IsTyped /\ BlocksAreApart /\ [Next]_vars => (IsTyped /\ BlocksAreApart)'
  <2>. SUFFICES ASSUME IsTyped, BlocksAreApart, [Next]_vars, part' = "Arena"
                PROVE  (ArenaTyped /\ Arena!BlocksAreApart)'
    BY DEF BlocksAreApart
  <2>1. part = "Arena" /\ (Arena!Next \/ UNCHANGED <<begin, cur, end, blocks>>)
    BY DEF Next, vars
  <2>2. ArenaTyped /\ Arena!BlocksAreApart
    BY <2>1 DEF BlocksAreApart
  <2>3. CASE Arena!Next
    BY <2>2, <2>3, AllocateKeeps, UtilitiesAssumption DEF Arena!Next
  <2>4. CASE UNCHANGED <<begin, cur, end, blocks>>
    BY <2>2, <2>4 DEF ArenaTyped, Arena!BlocksAreApart
  <2>. QED BY <2>1, <2>3, <2>4
<1>. QED BY <1>1, <1>2, PTL DEF Spec

-----------------------------------------------------------------------------
(* Conversions of integers.                                                *)

Sizes == TypeSizes \cup {IntSize}
Numeric == [size : Sizes, signed : BOOLEAN]

LEMMA SizesAreEven ==
    ASSUME NEW n \in Sizes
    PROVE  n \in Int /\ n > 0 /\ n % 2 = 0 /\ n \div 2 \in Int /\ 2 * (n \div 2) = n
<1>0. NumCast!ProperSizes
  BY UtilitiesAssumption
<1>1. n \in Int /\ n > 0 /\ n % 2 = 0
  BY <1>0 DEF NumCast!ProperSizes, Sizes
<1>. QED BY <1>1

LEMMA WiderIsTwice ==
    ASSUME NEW m \in Sizes, NEW n \in Sizes, m < n
    PROVE  2 * m <= n
BY UtilitiesAssumption DEF NumCast!ProperSizes, Sizes

(* A type in numbers that the provers do not look behind.                  *)
LEMMA RangeIs ==
    ASSUME NEW t \in Numeric
    PROVE  \E h \in Int :
              /\ h > 0 /\ t.size = 2 * h
              /\ NumCast!Lowest(t) = IF t.signed THEN -h ELSE 0
              /\ NumCast!Highest(t) = IF t.signed THEN h - 1 ELSE 2 * h - 1
<1>1. t.size \in Sizes
  BY DEF Numeric
<1>2. PICK h \in Int : h = t.size \div 2
  BY <1>1, SizesAreEven
<1>3. t.size = 2 * h /\ h > 0
  BY <1>1, <1>2, SizesAreEven
<1>4. NumCast!Lowest(t) = IF t.signed THEN -h ELSE 0
  BY <1>2 DEF NumCast!Lowest
<1>5. NumCast!Highest(t) = IF t.signed THEN h - 1 ELSE 2 * h - 1
  BY <1>3, <1>4 DEF NumCast!Highest
<1>. QED BY <1>3, <1>4, <1>5

LEMMA Remainder ==
    ASSUME NEW n \in Int, n > 0, NEW x \in Int
    PROVE  /\ 0 <= x /\ x < n => x % n = x
           /\ -n <= x /\ x < 0 => x % n = x + n
OBVIOUS

(* A value of the type is not changed; a negative number wraps around in   *)
(* an unsigned type.                                                       *)
LEMMA CastIs ==
    ASSUME NEW t \in Numeric, NEW v \in Int
    PROVE  /\ NumCast!Lowest(t) <= v /\ v <= NumCast!Highest(t) => NumCast!Cast(v, t) = v
           /\ ~t.signed /\ -t.size <= v /\ v < 0 => NumCast!Cast(v, t) = v + t.size
<1>1. PICK h \in Int :
        /\ h > 0 /\ t.size = 2 * h
        /\ NumCast!Lowest(t) = IF t.signed THEN -h ELSE 0
        /\ NumCast!Highest(t) = IF t.signed THEN h - 1 ELSE 2 * h - 1
  BY RangeIs
<1>2. PICK l \in Int : l = NumCast!Lowest(t)
  BY <1>1
<1>3. PICK n \in Int : n = t.size /\ n > 0
  BY <1>1
<1>4. PICK x \in Int : x = v - l
  OBVIOUS
<1>5. NumCast!Cast(v, t) = (x % n) + l
  BY <1>2, <1>3, <1>4 DEF NumCast!Cast
<1>6. CASE l <= v /\ v <= NumCast!Highest(t)
  <2>1. 0 <= x /\ x < n
    BY <1>1, <1>2, <1>3, <1>4, <1>6
  <2>2. x % n = x
    BY <1>3, <2>1, Remainder
  <2>3. NumCast!Cast(v, t) = v
    BY <1>2, <1>4, <1>5, <2>2
  <2>. QED BY <1>1, <1>2, <1>6, <2>3
<1>7. CASE ~t.signed /\ -t.size <= v /\ v < 0
  <2>1. l = 0 /\ -n <= x /\ x < 0
    BY <1>1, <1>2, <1>3, <1>4, <1>7
  <2>2. x % n = x + n
    BY <1>3, <2>1, Remainder
  <2>3. NumCast!Cast(v, t) = v + n
    BY <1>3, <1>4, <1>5, <2>1, <2>2
  <2>4. NumCast!Lowest(t) = l
    BY <1>2
  <2>. QED BY <1>3, <1>7, <2>1, <2>3, <2>4
<1>. QED BY <1>2, <1>6, <1>7

(* The common type is as wide as both; a signed one has all their values,  *)
(* an unsigned one is the type of one side.                                *)
LEMMA CommonIs ==
    ASSUME NEW t \in Numeric, NEW u \in Numeric, NEW c, c = NumCast!Common(t, u)
    PROVE  /\ c \in Numeric /\ t.size <= c.size /\ u.size <= c.size
           /\ c.signed => /\ t.signed \/ 2 * t.size <= c.size
                          /\ u.signed \/ 2 * u.size <= c.size
           /\ c.signed \/ (~t.signed /\ t.size = c.size) \/ (~u.signed /\ u.size = c.size)
<1>. DEFINE p == NumCast!Promoted(t)
            q == NumCast!Promoted(u)
<1>1. ASSUME NEW w \in Numeric
      PROVE  /\ NumCast!Promoted(w) \in Numeric
             /\ w.size <= NumCast!Promoted(w).size
             /\ \/ NumCast!Promoted(w) = w
                \/ NumCast!Promoted(w).signed /\ 2 * w.size <= NumCast!Promoted(w).size
  <2>1. w.size \in Sizes /\ IntSize \in Sizes
    BY DEF Numeric, Sizes
  <2>2. CASE w.size < IntSize
    <3>1. NumCast!Promoted(w) = [size |-> IntSize, signed |-> TRUE]
      BY <2>2 DEF NumCast!Promoted
    <3>2. 2 * w.size <= IntSize
      BY <2>1, <2>2, WiderIsTwice
    <3>. QED BY <2>1, <2>2, <3>1, <3>2, SizesAreEven DEF Numeric
  <2>3. CASE ~(w.size < IntSize)
    <3>1. NumCast!Promoted(w) = w
      BY <2>3 DEF NumCast!Promoted
    <3>. QED BY <2>1, <3>1, SizesAreEven
  <2>. QED BY <2>2, <2>3
<1>2. /\ p \in Numeric /\ t.size <= p.size /\ (p = t \/ (p.signed /\ 2 * t.size <= p.size))
      /\ q \in Numeric /\ u.size <= q.size /\ (q = u \/ (q.signed /\ 2 * u.size <= q.size))
  BY <1>1
<1>3. c = IF p.size > q.size \/ (p.size = q.size /\ ~p.signed) THEN p ELSE q
  BY DEF NumCast!Common
<1>. HIDE DEF p, q
<1>4. /\ t.size \in Int /\ u.size \in Int /\ p.size \in Int /\ q.size \in Int
      /\ p.size \in Sizes /\ q.size \in Sizes
      /\ p.signed \in BOOLEAN /\ q.signed \in BOOLEAN
  BY <1>2, SizesAreEven DEF Numeric
<1>5. (p.size < q.size => 2 * p.size <= q.size) /\ (q.size < p.size => 2 * q.size <= p.size)
  BY <1>4, WiderIsTwice
<1>6. CASE p.size > q.size
  BY <1>2, <1>3, <1>4, <1>5, <1>6
<1>7. CASE p.size = q.size
  BY <1>2, <1>3, <1>4, <1>7
<1>8. CASE p.size < q.size
  BY <1>2, <1>3, <1>4, <1>5, <1>8
<1>. QED BY <1>4, <1>6, <1>7, <1>8

(* A comparison is right, unless it is one of unsigned integers and a      *)
(* negative number has become a large one.                                 *)
LEMMA LessIs ==
    ASSUME NEW t \in Numeric, NEW u \in Numeric,
           NEW x \in Int, NumCast!Lowest(t) <= x, x <= NumCast!Highest(t),
           NEW y \in Int, NumCast!Lowest(u) <= y, y <= NumCast!Highest(u),
           NEW c, c = NumCast!Common(t, u)
    PROVE  NumCast!Less(x, t, y, u)
             <=> (IF c.signed \/ 0 <= x THEN x ELSE x + c.size)
                   < (IF c.signed \/ 0 <= y THEN y ELSE y + c.size)
<1>1. /\ c \in Numeric /\ t.size <= c.size /\ u.size <= c.size
      /\ c.signed => /\ t.signed \/ 2 * t.size <= c.size
                     /\ u.signed \/ 2 * u.size <= c.size
  BY CommonIs
<1>2. ASSUME NEW w \in Numeric, w.size <= c.size,
             c.signed => w.signed \/ 2 * w.size <= c.size,
             NEW v \in Int, NumCast!Lowest(w) <= v, v <= NumCast!Highest(w)
      PROVE  NumCast!Cast(v, c) = IF c.signed \/ 0 <= v THEN v ELSE v + c.size
  <2>1. PICK h \in Int :
          /\ h > 0 /\ c.size = 2 * h
          /\ NumCast!Lowest(c) = IF c.signed THEN -h ELSE 0
          /\ NumCast!Highest(c) = IF c.signed THEN h - 1 ELSE 2 * h - 1
    BY <1>1, RangeIs
  <2>2. PICK k \in Int :
          /\ k > 0 /\ w.size = 2 * k
          /\ NumCast!Lowest(w) = IF w.signed THEN -k ELSE 0
          /\ NumCast!Highest(w) = IF w.signed THEN k - 1 ELSE 2 * k - 1
    BY RangeIs
  <2>3. -k <= v /\ v <= 2 * k - 1 /\ k <= h /\ (w.signed \/ 0 <= v) /\ (w.signed => v <= k - 1)
    BY <1>2, <2>1, <2>2
  <2>4. CASE c.signed \/ 0 <= v
    <3>1. NumCast!Lowest(c) <= v /\ v <= NumCast!Highest(c)
      BY <1>2, <2>1, <2>2, <2>3, <2>4
    <3>. QED BY <1>1, <2>4, <3>1, CastIs
  <2>5. CASE ~c.signed /\ v < 0
    <3>1. -c.size <= v
      BY <2>1, <2>3
    <3>. QED BY <1>1, <2>5, <3>1, CastIs
  <2>. QED BY <2>4, <2>5
<1>3. NumCast!Cast(x, c) = IF c.signed \/ 0 <= x THEN x ELSE x + c.size
  BY <1>1, <1>2
<1>4. NumCast!Cast(y, c) = IF c.signed \/ 0 <= y THEN y ELSE y + c.size
  BY <1>1, <1>2
<1>. QED BY <1>3, <1>4 DEF NumCast!Less

(* What num_cast compares are the limits of the types, and the number with *)
(* a limit: none of these comparisons is changed by the conversions, each  *)
(* for a reason of its own.                                                *)
LEMMA UpperIsExact ==
    ASSUME NEW From \in Numeric, NEW To \in Numeric
    PROVE  /\ NumCast!CheckUpper(From, To) <=> NumCast!Highest(To) < NumCast!Highest(From)
           /\ \A src \in Int :
                /\ NumCast!Lowest(From) <= src /\ src <= NumCast!Highest(From)
                /\ NumCast!CheckUpper(From, To)
                => (NumCast!Less(NumCast!Highest(To), To, src, From) <=> NumCast!Highest(To) < src)
<1>1. PICK f \in Int :
        /\ f > 0 /\ From.size = 2 * f
        /\ NumCast!Lowest(From) = IF From.signed THEN -f ELSE 0
        /\ NumCast!Highest(From) = IF From.signed THEN f - 1 ELSE 2 * f - 1
  BY RangeIs
<1>2. PICK k \in Int :
        /\ k > 0 /\ To.size = 2 * k
        /\ NumCast!Lowest(To) = IF To.signed THEN -k ELSE 0
        /\ NumCast!Highest(To) = IF To.signed THEN k - 1 ELSE 2 * k - 1
  BY RangeIs
<1>3. PICK hf \in Int : hf = NumCast!Highest(From) /\ 0 <= hf /\ NumCast!Lowest(From) <= hf
  BY <1>1
<1>4. PICK ht \in Int : ht = NumCast!Highest(To) /\ 0 <= ht /\ NumCast!Lowest(To) <= ht
  BY <1>2
<1>5. PICK c : c = NumCast!Common(To, From)
  OBVIOUS
<1>6. NumCast!Less(ht, To, hf, From) <=> ht < hf
  BY <1>3, <1>4, <1>5, LessIs
<1>7. NumCast!CheckUpper(From, To) <=> ht < hf
  BY <1>3, <1>4, <1>6 DEF NumCast!CheckUpper
<1>8. ASSUME NEW src \in Int, NumCast!Lowest(From) <= src, src <= hf, ht < hf
      PROVE  NumCast!Less(ht, To, src, From) <=> ht < src
  <2>1. NumCast!Less(ht, To, src, From)
          <=> (IF c.signed \/ 0 <= ht THEN ht ELSE ht + c.size)
                < (IF c.signed \/ 0 <= src THEN src ELSE src + c.size)
    BY <1>3, <1>4, <1>5, <1>8, LessIs
  <2>2. CASE c.signed \/ 0 <= src
    BY <1>4, <2>1, <2>2
  <2>3. CASE ~c.signed /\ src < 0
    <3>1. From.signed /\ From.size <= c.size
      BY <1>1, <1>5, <1>8, <2>3, CommonIs
    <3>2. ~To.signed /\ To.size = c.size
      BY <1>5, <2>3, <3>1, CommonIs
    <3>3. hf = f - 1 /\ ht = 2 * k - 1 /\ f <= k
      BY <1>1, <1>2, <1>3, <1>4, <3>1, <3>2
    <3>. QED BY <1>1, <1>2, <1>8, <3>3
  <2>. QED BY <2>2, <2>3
<1>. QED BY <1>3, <1>4, <1>7, <1>8

LEMMA SignedIs ==
    ASSUME NEW t \in Numeric
    PROVE  /\ NumCast!MakeSigned(t) \in Numeric /\ NumCast!MakeSigned(t).signed
           /\ NumCast!MakeSigned(t).size = t.size
           /\ NumCast!Cast(NumCast!Lowest(t), NumCast!MakeSigned(t)) = NumCast!Lowest(t)
           /\ NumCast!Lowest(NumCast!MakeSigned(t)) <= NumCast!Lowest(t)
           /\ NumCast!Lowest(t) <= NumCast!Highest(NumCast!MakeSigned(t))
<1>1. PICK s : s = NumCast!MakeSigned(t)
  OBVIOUS
<1>2. s \in Numeric /\ s.signed /\ s.size = t.size
  BY <1>1 DEF NumCast!MakeSigned, Numeric
<1>3. PICK h \in Int :
        /\ h > 0 /\ t.size = 2 * h
        /\ NumCast!Lowest(t) = IF t.signed THEN -h ELSE 0
        /\ NumCast!Highest(t) = IF t.signed THEN h - 1 ELSE 2 * h - 1
  BY RangeIs
<1>4. PICK k \in Int :
        /\ k > 0 /\ s.size = 2 * k
        /\ NumCast!Lowest(s) = IF s.signed THEN -k ELSE 0
        /\ NumCast!Highest(s) = IF s.signed THEN k - 1 ELSE 2 * k - 1
  BY <1>2, RangeIs
<1>5. PICK l \in Int : l = NumCast!Lowest(t)
  BY <1>3
<1>6. NumCast!Lowest(s) <= l /\ l <= NumCast!Highest(s)
  BY <1>2, <1>3, <1>4, <1>5
<1>7. NumCast!Cast(l, s) = l
  BY <1>2, <1>6, CastIs
<1>. QED BY <1>1, <1>2, <1>5, <1>6, <1>7

LEMMA LowerIsExact ==
    ASSUME NEW From \in Numeric, NEW To \in Numeric
    PROVE  /\ NumCast!CheckLower(From, To) <=> NumCast!Lowest(From) < NumCast!Lowest(To)
           /\ \A src \in Int :
                /\ NumCast!Lowest(From) <= src /\ src <= NumCast!Highest(From)
                /\ NumCast!CheckLower(From, To)
                => (NumCast!Less(src, From, NumCast!Cast(NumCast!Lowest(To), NumCast!MakeSigned(To)),
                                 NumCast!MakeSigned(To))
                      <=> src < NumCast!Lowest(To))
<1>1. PICK f \in Int :
        /\ f > 0 /\ From.size = 2 * f
        /\ NumCast!Lowest(From) = IF From.signed THEN -f ELSE 0
        /\ NumCast!Highest(From) = IF From.signed THEN f - 1 ELSE 2 * f - 1
  BY RangeIs
<1>2. PICK k \in Int :
        /\ k > 0 /\ To.size = 2 * k
        /\ NumCast!Lowest(To) = IF To.signed THEN -k ELSE 0
        /\ NumCast!Highest(To) = IF To.signed THEN k - 1 ELSE 2 * k - 1
  BY RangeIs
<1>3. PICK lf \in Int : lf = NumCast!Lowest(From)
  BY <1>1
<1>4. PICK lt \in Int : lt = NumCast!Lowest(To) /\ lt <= 0
  BY <1>2
<1>5. PICK fs \in Numeric : /\ fs = NumCast!MakeSigned(From) /\ fs.signed
                            /\ NumCast!Cast(lf, fs) = lf
                            /\ NumCast!Lowest(fs) <= lf /\ lf <= NumCast!Highest(fs)
  BY <1>3, SignedIs
<1>6. PICK ts \in Numeric : /\ ts = NumCast!MakeSigned(To) /\ ts.signed
                            /\ NumCast!Cast(lt, ts) = lt
                            /\ NumCast!Lowest(ts) <= lt /\ lt <= NumCast!Highest(ts)
  BY <1>4, SignedIs
<1>7. NumCast!CheckLower(From, To) <=> lf < lt
  <2>1. PICK c : c = NumCast!Common(fs, ts)
    OBVIOUS
  <2>2. c.signed
    BY <1>5, <1>6, <2>1, CommonIs
  <2>3. NumCast!Less(lf, fs, lt, ts) <=> lf < lt
    BY <1>5, <1>6, <2>1, <2>2, LessIs
  <2>. QED BY <1>3, <1>4, <1>5, <1>6, <2>3 DEF NumCast!CheckLower
<1>8. ASSUME NEW src \in Int, lf <= src, src <= NumCast!Highest(From), lf < lt
      PROVE  NumCast!Less(src, From, lt, ts) <=> src < lt
  <2>1. From.signed
    BY <1>1, <1>3, <1>4, <1>8
  <2>2. PICK c : c = NumCast!Common(From, ts)
    OBVIOUS
  <2>3. c.signed
    BY <1>6, <2>1, <2>2, CommonIs
  <2>. QED BY <1>3, <1>6, <1>8, <2>2, <2>3, LessIs
<1>. QED BY <1>3, <1>4, <1>6, <1>7, <1>8

(* The result is the number if the target type has it, and none otherwise. *)
LEMMA CastOfAnyNumber ==
    ASSUME NEW From \in Numeric, NEW To \in Numeric, NEW src \in NumCast!ValuesOf(From)
    PROVE  NumCast!num_cast(From, To, src) = IF src \in NumCast!ValuesOf(To) THEN src ELSE NoValue
<1>1. PICK lf \in Int, hf \in Int : lf = NumCast!Lowest(From) /\ hf = NumCast!Highest(From)
  BY RangeIs
<1>2. PICK lt \in Int, ht \in Int : lt = NumCast!Lowest(To) /\ ht = NumCast!Highest(To)
  BY RangeIs
<1>3. src \in Int /\ lf <= src /\ src <= hf
  BY <1>1 DEF NumCast!ValuesOf
<1>4. src \in NumCast!ValuesOf(To) <=> lt <= src /\ src <= ht
  BY <1>2, <1>3 DEF NumCast!ValuesOf
<1>5. NumCast!OutOfRange(From, To, src) <=> ht < src \/ src < lt
  <2>1. /\ NumCast!CheckUpper(From, To) <=> ht < hf
        /\ NumCast!CheckUpper(From, To)
             => (NumCast!Less(NumCast!Highest(To), To, src, From) <=> ht < src)
    BY <1>1, <1>2, <1>3, UpperIsExact
  <2>2. /\ NumCast!CheckLower(From, To) <=> lf < lt
        /\ NumCast!CheckLower(From, To)
             => (NumCast!Less(src, From, NumCast!Cast(NumCast!Lowest(To), NumCast!MakeSigned(To)),
                              NumCast!MakeSigned(To)) <=> src < lt)
    BY <1>1, <1>2, <1>3, LowerIsExact
  <2>. QED BY <1>3, <2>1, <2>2 DEF NumCast!OutOfRange
<1>6. lt <= src /\ src <= ht => NumCast!Cast(src, To) = src
  BY <1>2, <1>3, CastIs
<1>. QED BY <1>3, <1>4, <1>5, <1>6 DEF NumCast!num_cast

(* num_cast_ex() is noexcept exactly for the types whose values all fit.   *)
LEMMA LosslessIsExact ==
    ASSUME NEW From \in Numeric, NEW To \in Numeric
    PROVE  NumCast!is_lossless_num_cast(From, To)
             <=> NumCast!ValuesOf(From) \subseteq NumCast!ValuesOf(To)
<1>1. PICK lf \in Int, hf \in Int : lf = NumCast!Lowest(From) /\ hf = NumCast!Highest(From) /\ lf <= hf
  BY RangeIs
<1>2. PICK lt \in Int, ht \in Int : lt = NumCast!Lowest(To) /\ ht = NumCast!Highest(To)
  BY RangeIs
<1>3. NumCast!is_lossless_num_cast(From, To) <=> hf <= ht /\ lt <= lf
  BY <1>1, <1>2, UpperIsExact, LowerIsExact DEF NumCast!is_lossless_num_cast
<1>4. hf <= ht /\ lt <= lf <=> lf .. hf \subseteq lt .. ht
  <2>1. lf .. hf \subseteq lt .. ht => lf \in lt .. ht /\ hf \in lt .. ht
    BY <1>1
  <2>. QED BY <2>1
<1>. QED BY <1>1, <1>2, <1>3, <1>4 DEF NumCast!ValuesOf

(* num_cast() returns the same number, or nothing if the target type does  *)
(* not have it; and the check is left out exactly where every number fits  *)
(* (num_cast.hpp:18-55): for integer types of any widths.                  *)
THEOREM CastsAreExact == Spec => []CastIsExact
<1>. DEFINE IsCall == part = "NumCast" =>
                        \E From \in Numeric, To \in Numeric :
                          \E src \in NumCast!ValuesOf(From) :
                            conversion = [From |-> From, To |-> To, src |-> src]
<1>1. Init => IsCall /\ CastIsExact
  <2>. SUFFICES ASSUME Init, part = "NumCast" PROVE IsCall /\ NumCast!CastIsExact
    BY DEF CastIsExact
  <2>1. IsCall /\ result = Pending
    BY DEF Init, NumCast!Init, NumCast!Types, Numeric, Sizes
  <2>2. PICK From \in Numeric, To \in Numeric :
          \E src \in NumCast!ValuesOf(From) :
            conversion = [From |-> From, To |-> To, src |-> src]
    BY <2>1
  <2>. QED BY <2>1, <2>2, LosslessIsExact DEF NumCast!CastIsExact
<1>2. IsCall /\ CastIsExact /\ [Next]_vars => (IsCall /\ CastIsExact)'
  <2>. SUFFICES ASSUME IsCall, CastIsExact, [Next]_vars, part' = "NumCast"
                PROVE  (IsCall /\ NumCast!CastIsExact)'
    BY DEF CastIsExact
  <2>1. /\ part = "NumCast" /\ conversion' = conversion
        /\ NumCast!Return \/ result' = result
    BY DEF Next, vars, NumCast!Next, NumCast!Return
  <2>2. NumCast!CastIsExact
    BY <2>1 DEF CastIsExact
  <2>3. PICK From \in Numeric, To \in Numeric :
          \E src \in NumCast!ValuesOf(From) :
            conversion = [From |-> From, To |-> To, src |-> src]
    BY <2>1
  <2>4. PICK src \in NumCast!ValuesOf(From) : conversion = [From |-> From, To |-> To, src |-> src]
    BY <2>3
  <2>5. NumCast!Return
          => result' = IF src \in NumCast!ValuesOf(To) THEN src ELSE NoValue
    BY <2>4, CastOfAnyNumber DEF NumCast!Return
  <2>6. NumCast!CastIsExact'
    BY <2>1, <2>2, <2>4, <2>5 DEF NumCast!CastIsExact
  <2>. QED BY <2>1, <2>6
<1>. QED BY <1>1, <1>2, PTL DEF Spec

-----------------------------------------------------------------------------
(* Streams.                                                                *)

Sides == {"in", "out"}
Members == [kind : {"cursor", "file", "append", "closed"}, data : Seq(Int), pos : Nat]

InBlock(st) == st.kind = "cursor" => st.pos <= Len(st.data)

(* Where bytes are written.                                                *)
Target(st) == IF st.kind = "append" THEN Len(st.data) ELSE st.pos

LEMMA PrefixIs ==
    ASSUME NEW bytes \in Seq(Int), NEW k \in 0 .. Len(bytes)
    PROVE  /\ SubSeq(bytes, 1, k) \in Seq(Int) /\ Len(SubSeq(bytes, 1, k)) = k
           /\ \A i \in 1 .. k : SubSeq(bytes, 1, k)[i] = bytes[i]
           /\ k = Len(bytes) => SubSeq(bytes, 1, k) = bytes
           /\ k = 0 => SubSeq(bytes, 1, k) = <<>>
OBVIOUS

LEMMA SeekOutcome ==
    ASSUME NEW st \in Members, InBlock(st), NEW offset \in Int, NEW from \in BinaryStream!Froms,
           NEW o \in BinaryStream!Seeks(st, offset, from)
    PROVE  /\ o.stream \in Members /\ InBlock(o.stream)
           /\ o.stream.kind = st.kind /\ o.stream.data = st.data
           /\ ~o.thrown /\ from = "Begin" => o.stream.pos = offset
<1>1. PICK at \in Int : at = offset + (CASE from = "Begin" -> 0 [] from = "Current" -> st.pos
                                         [] from = "End" -> Len(st.data))
  BY DEF BinaryStream!Froms, Members
<1>2. from = "Begin" => at = offset
  BY <1>1
<1>3. CASE o = [stream |-> st, thrown |-> TRUE, bytes |-> <<>>]
  BY <1>3
<1>4. ASSUME NEW p \in Nat, p = at, st.kind = "cursor" => p <= Len(st.data),
             o = [stream |-> [st EXCEPT !.pos = p], thrown |-> FALSE, bytes |-> <<>>]
      PROVE  /\ o.stream \in Members /\ InBlock(o.stream)
             /\ o.stream.kind = st.kind /\ o.stream.data = st.data
             /\ o.stream.pos = at
  BY <1>4 DEF Members, InBlock
<1>5. \/ o = [stream |-> st, thrown |-> TRUE, bytes |-> <<>>]
      \/ \E p \in Nat :
          /\ p = at /\ (st.kind = "cursor" => p <= Len(st.data))
          /\ o = [stream |-> [st EXCEPT !.pos = p], thrown |-> FALSE, bytes |-> <<>>]
  <2>1. CASE st.kind = "cursor"
    <3>1. o \in BinaryStream!CursorSeeks(st, offset, from)
      BY <2>1 DEF BinaryStream!Seeks
    <3>2. o \in IF at < 0 \/ at > Len(st.data) THEN {BinaryStream!Outcome(st, TRUE, <<>>)}
                ELSE {BinaryStream!Outcome([st EXCEPT !.pos = at], FALSE, <<>>)}
      BY <1>1, <3>1 DEF BinaryStream!CursorSeeks
    <3>3. Len(st.data) \in Nat
      BY DEF Members
    <3>. QED BY <3>2, <3>3 DEF BinaryStream!Outcome
  <2>2. CASE st.kind # "cursor"
    <3>1. o \in BinaryStream!FileSeeks(st, offset, from)
      BY <2>2 DEF BinaryStream!Seeks
    <3>2. o \in {BinaryStream!Outcome(st, TRUE, <<>>)}
                  \cup {BinaryStream!Outcome([st EXCEPT !.pos = p], FALSE, <<>>) : p \in {at} \cap 0 .. MaxLen}
      BY <1>1, <3>1 DEF BinaryStream!FileSeeks
    <3>. QED BY <2>2, <3>2 DEF BinaryStream!Outcome
  <2>. QED BY <2>1, <2>2
<1>. QED BY <1>2, <1>3, <1>4, <1>5

LEMMA ReadOutcome ==
    ASSUME NEW st \in Members, InBlock(st), NEW n \in Nat, NEW o \in BinaryStream!Reads(st, n)
    PROVE  \E k \in 0 .. n :
              /\ o.stream = [st EXCEPT !.pos = st.pos + k]
              /\ k = 0 \/ st.pos + k <= Len(st.data)
              /\ ~o.thrown => k = n /\ o.bytes = SubSeq(st.data, st.pos + 1, st.pos + n)
<1>. st.pos \in Nat /\ Len(st.data) \in Nat
  BY DEF Members
<1>1. CASE o = BinaryStream!Outcome(st, TRUE, <<>>)
  <2>1. st = [st EXCEPT !.pos = st.pos + 0]
    BY DEF Members
  <2>. QED BY <1>1, <2>1 DEF BinaryStream!Outcome
<1>2. CASE o = BinaryStream!Consumed(st, n) /\ (n = 0 \/ st.pos + n <= Len(st.data))
  <2>1. /\ o.stream = [st EXCEPT !.pos = st.pos + n] /\ ~o.thrown
        /\ o.bytes = SubSeq(st.data, st.pos + 1, st.pos + n)
    BY <1>2 DEF BinaryStream!Consumed, BinaryStream!Outcome
  <2>2. n \in 0 .. n
    OBVIOUS
  <2>. QED BY <1>2, <2>1, <2>2
<1>3. ASSUME NEW k \in 0 .. n - 1, k = 0 \/ st.pos + k <= Len(st.data),
             o = BinaryStream!Outcome([st EXCEPT !.pos = @ + k], TRUE, <<>>)
      PROVE  /\ o.stream = [st EXCEPT !.pos = st.pos + k]
             /\ o.thrown /\ k \in 0 .. n
  BY <1>3 DEF BinaryStream!Outcome
<1>4. CASE st.kind = "cursor"
  <2>1. st.pos <= Len(st.data)
    BY <1>4 DEF InBlock
  <2>2. \/ o = BinaryStream!Outcome(st, TRUE, <<>>)
        \/ o = BinaryStream!Consumed(st, n) /\ ~(n > Len(st.data) - st.pos)
    BY <1>4 DEF BinaryStream!Reads, BinaryStream!CursorReads
  <2>3. ~(n > Len(st.data) - st.pos) => st.pos + n <= Len(st.data)
    OBVIOUS
  <2>. QED BY <1>1, <1>2, <2>2, <2>3
<1>5. CASE st.kind # "cursor"
  <2>1. PICK left \in Nat : left = IF st.pos < Len(st.data) THEN Len(st.data) - st.pos ELSE 0
    OBVIOUS
  <2>2. o \in {BinaryStream!Outcome([st EXCEPT !.pos = @ + k], TRUE, <<>>) :
                  k \in {k \in 0 .. n - 1 : k <= left}}
                \cup (IF n <= left \/ n = 0 THEN {BinaryStream!Consumed(st, n)} ELSE {})
    BY <1>5, <2>1 DEF BinaryStream!Reads, BinaryStream!FileReads
  <2>3. \A k \in Nat : k <= left => k = 0 \/ st.pos + k <= Len(st.data)
    BY <2>1
  <2>4. CASE o = BinaryStream!Consumed(st, n) /\ (n <= left \/ n = 0)
    BY <1>2, <2>3, <2>4
  <2>5. ASSUME NEW k \in 0 .. n - 1, k <= left,
               o = BinaryStream!Outcome([st EXCEPT !.pos = @ + k], TRUE, <<>>)
        PROVE  /\ o.stream = [st EXCEPT !.pos = st.pos + k]
               /\ o.thrown /\ k \in 0 .. n
               /\ k = 0 \/ st.pos + k <= Len(st.data)
    <3>1. k \in 0 .. n - 1 /\ (k = 0 \/ st.pos + k <= Len(st.data))
      BY <2>3, <2>5
    <3>. QED BY <1>3, <2>5, <3>1
  <2>. QED BY <2>2, <2>4, <2>5
<1>. QED BY <1>4, <1>5

LEMMA MaxOfTwo ==
    ASSUME NEW m \in Nat, NEW n \in Nat
    PROVE  BinaryStream!Max({m, n}) = IF m <= n THEN n ELSE m
BY DEF BinaryStream!Max

LEMMA MinOfTwo ==
    ASSUME NEW m \in Nat, NEW n \in Nat
    PROVE  BinaryStream!Min({m, n}) = IF m <= n THEN m ELSE n
BY DEF BinaryStream!Min

(* After k bytes of what was to be written at position at.                 *)
After(st, at, bytes, k, next) ==
    /\ next \in Members /\ next.kind = st.kind
    /\ k = 0 => next = st
    /\ k > 0 => next.pos = at + k
    /\ Len(next.data) = IF k > 0 /\ Len(st.data) < at + k THEN at + k ELSE Len(st.data)
    /\ \A i \in 1 .. Len(next.data) :
        next.data[i] = IF i \in at + 1 .. at + k THEN bytes[i - at]
                       ELSE IF i \in 1 .. Len(st.data) THEN st.data[i] ELSE 0

LEMMA StoredIs ==
    ASSUME NEW st \in Members, NEW at \in Nat, NEW bytes \in Seq(Int), NEW k \in 0 .. Len(bytes)
    PROVE  After(st, at, bytes, k, BinaryStream!Stored(st, at, SubSeq(bytes, 1, k)))
<1>1. PICK part1 \in Seq(Int) : part1 = SubSeq(bytes, 1, k)
  BY PrefixIs
<1>2. /\ Len(part1) = k /\ \A i \in 1 .. k : part1[i] = bytes[i] /\ bytes[i] \in Int
      /\ k = 0 => part1 = <<>>
  BY <1>1, PrefixIs
<1>. st.pos \in Nat /\ st.data \in Seq(Int) /\ Len(st.data) \in Nat /\ k \in Nat
  BY DEF Members
<1>3. CASE k = 0
  <2>1. part1 = <<>>
    BY <1>2, <1>3
  <2>. QED BY <1>1, <1>3, <2>1 DEF BinaryStream!Stored, After
<1>4. CASE k > 0
  <2>1. PICK len \in Nat : len = IF Len(st.data) <= at + k THEN at + k ELSE Len(st.data)
    OBVIOUS
  <2>2. BinaryStream!Max({Len(st.data), at + Len(part1)}) = len
    <3>1. PICK m \in Nat : m = at + Len(part1)
      OBVIOUS
    <3>2. BinaryStream!Max({Len(st.data), m}) = IF Len(st.data) <= m THEN m ELSE Len(st.data)
      BY MaxOfTwo
    <3>. QED BY <1>2, <2>1, <3>1, <3>2
  <2>3. DOMAIN part1 = 1 .. k /\ DOMAIN st.data = 1 .. Len(st.data) /\ part1 # <<>>
    BY <1>2, <1>4
  <2>4. PICK data : data = [i \in 1 .. len |-> IF i - at \in DOMAIN part1 THEN part1[i - at]
                                              ELSE IF i \in DOMAIN st.data THEN st.data[i] ELSE 0]
    OBVIOUS
  <2>5. \A i \in 1 .. len : data[i] = IF i \in at + 1 .. at + k THEN bytes[i - at]
                                      ELSE IF i \in 1 .. Len(st.data) THEN st.data[i] ELSE 0
    BY <1>2, <2>3, <2>4
  <2>6. data \in Seq(Int) /\ Len(data) = len
    <3>1. \A i \in 1 .. len : data[i] \in Int
      <4>. SUFFICES ASSUME NEW i \in 1 .. len PROVE data[i] \in Int
        OBVIOUS
      <4>1. CASE i - at \in DOMAIN part1
        <5>1. PICK j \in 1 .. k : j = i - at
          BY <2>3, <4>1
        <5>2. data[i] = part1[j]
          BY <2>4, <4>1, <5>1
        <5>. QED BY <1>2, <5>1, <5>2
      <4>2. CASE i - at \notin DOMAIN part1
        <5>1. data[i] = IF i \in 1 .. Len(st.data) THEN st.data[i] ELSE 0
          BY <2>3, <2>4, <4>2
        <5>2. i \in 1 .. Len(st.data) => st.data[i] \in Int
          OBVIOUS
        <5>. QED BY <5>1, <5>2
      <4>. QED BY <4>1, <4>2
    <3>2. data \in [1 .. len -> Int]
      BY <2>4, <3>1
    <3>. QED BY <3>2
  <2>7. BinaryStream!Stored(st, at, part1) = [st EXCEPT !.data = data, !.pos = at + k]
    BY <1>2, <2>2, <2>3, <2>4 DEF BinaryStream!Stored
  <2>8. PICK next : next = BinaryStream!Stored(st, at, part1)
    OBVIOUS
  <2>9. next \in Members /\ next.kind = st.kind /\ next.data = data /\ next.pos = at + k
    <3>1. PICK p \in Nat : p = at + k
      OBVIOUS
    <3>2. next = [st EXCEPT !.data = data, !.pos = p]
      BY <2>7, <2>8, <3>1
    <3>3. next = [kind |-> st.kind, data |-> data, pos |-> p] /\ st.kind \in {"cursor", "file", "append", "closed"}
      BY <3>2 DEF Members
    <3>. QED BY <2>6, <3>1, <3>3 DEF Members
  <2>10. Len(next.data) = IF k > 0 /\ Len(st.data) < at + k THEN at + k ELSE Len(st.data)
    BY <1>4, <2>1, <2>6, <2>9
  <2>11. \A i \in 1 .. Len(next.data) :
          next.data[i] = IF i \in at + 1 .. at + k THEN bytes[i - at]
                         ELSE IF i \in 1 .. Len(st.data) THEN st.data[i] ELSE 0
    BY <2>5, <2>6, <2>9
  <2>. QED BY <1>1, <1>4, <2>8, <2>9, <2>10, <2>11 DEF After
<1>. QED BY <1>3, <1>4

LEMMA WriteOutcome ==
    ASSUME NEW st \in Members, InBlock(st), NEW bytes \in Seq(Int),
           NEW o \in BinaryStream!Writes(st, bytes)
    PROVE  \E k \in 0 .. Len(bytes) :
              /\ After(st, Target(st), bytes, k, o.stream) /\ InBlock(o.stream)
              /\ st.kind = "cursor" => Len(o.stream.data) = Len(st.data)
              /\ ~o.thrown => k = Len(bytes)
<1>. st.pos \in Nat /\ Len(st.data) \in Nat /\ Len(bytes) \in Nat /\ Target(st) \in Nat
  BY DEF Members, Target
<1>1. \E k \in 0 .. Len(bytes) :
        /\ o.stream = BinaryStream!Stored(st, Target(st), SubSeq(bytes, 1, k))
        /\ st.kind = "cursor" => k = 0 \/ st.pos + k <= Len(st.data)
        /\ ~o.thrown => k = Len(bytes)
  <2>1. SubSeq(bytes, 1, Len(bytes)) = bytes
    BY PrefixIs
  <2>2. CASE st.kind = "cursor"
    <3>1. Target(st) = st.pos
      BY <2>2 DEF Target
    <3>2. CASE o = BinaryStream!Outcome(st, TRUE, <<>>)
      <4>1. SubSeq(bytes, 1, 0) = <<>>
        OBVIOUS
      <4>2. o.stream = BinaryStream!Stored(st, Target(st), SubSeq(bytes, 1, 0)) /\ o.thrown
        BY <3>2, <4>1 DEF BinaryStream!Outcome, BinaryStream!Stored
      <4>. QED BY <4>2
    <3>3. CASE /\ ~(Len(bytes) > Len(st.data) - st.pos)
               /\ o = BinaryStream!Outcome(BinaryStream!Stored(st, st.pos, bytes), FALSE, <<>>)
      <4>1. o.stream = BinaryStream!Stored(st, Target(st), SubSeq(bytes, 1, Len(bytes)))
        BY <2>1, <3>1, <3>3 DEF BinaryStream!Outcome
      <4>2. st.pos + Len(bytes) <= Len(st.data)
        BY <3>3
      <4>. QED BY <4>1, <4>2
    <3>. QED BY <2>2, <3>2, <3>3 DEF BinaryStream!Writes, BinaryStream!CursorWrites
  <2>3. CASE st.kind # "cursor"
    <3>1. PICK at \in Nat, n \in Nat : at = Target(st) /\ n = Len(bytes)
      OBVIOUS
    <3>2. o \in {BinaryStream!Outcome(BinaryStream!Stored(st, at, SubSeq(bytes, 1, k)), TRUE, <<>>) :
                    k \in {k \in 0 .. n - 1 : at + k <= MaxLen}}
                  \cup IF at + n <= MaxLen \/ n = 0
                       THEN {BinaryStream!Outcome(BinaryStream!Stored(st, at, SubSeq(bytes, 1, n)),
                                                  FALSE, <<>>)}
                       ELSE {}
      BY <2>3, <3>1 DEF BinaryStream!Writes, BinaryStream!FileWrites, Target
    <3>3. \E k \in 0 .. n : /\ o.stream = BinaryStream!Stored(st, at, SubSeq(bytes, 1, k))
                            /\ ~o.thrown => k = n
      BY <3>2 DEF BinaryStream!Outcome
    <3>. QED BY <2>3, <3>1, <3>3
  <2>. QED BY <2>2, <2>3
<1>2. PICK k \in 0 .. Len(bytes) :
        /\ o.stream = BinaryStream!Stored(st, Target(st), SubSeq(bytes, 1, k))
        /\ st.kind = "cursor" => k = 0 \/ st.pos + k <= Len(st.data)
        /\ ~o.thrown => k = Len(bytes)
  BY <1>1
<1>3. After(st, Target(st), bytes, k, o.stream)
  BY <1>2, StoredIs
<1>4. st.kind = "cursor" => /\ Len(o.stream.data) = Len(st.data) /\ o.stream.pos <= Len(st.data)
  BY <1>2, <1>3 DEF After, Target, InBlock
<1>5. InBlock(o.stream)
  BY <1>3, <1>4 DEF After, InBlock
<1>. QED BY <1>2, <1>3, <1>4, <1>5

(* Of what is done to a stream, what matters to every client of it.        *)
Keeps(st, next) ==
    /\ next \in Members /\ InBlock(next) /\ next.kind = st.kind
    /\ st.kind = "cursor" => Len(next.data) = Len(st.data)

PatchOps == [name : {"patch"}, at : {"tell", "seek", "write", "return", "done", "threw"},
             offset : Int, bytes : Seq(Int), mark : Nat \cup {Null}, begun : [Sides -> Members]]

CopyOps == [name : {"copy"}, at : {"read", "store", "done", "threw"}, n : Nat, left : Nat,
            size : Nat, bytes : Seq(Int), begun : [Sides -> Members]]

StreamsTyped ==
    /\ stream \in [Sides -> Members] /\ \A s \in Sides : InBlock(stream[s])
    /\ op = [at |-> "idle"] \/ op \in PatchOps \/ op \in CopyOps

LEMMA OpIsOneOf ==
    /\ [at |-> "idle"] \notin PatchOps /\ [at |-> "idle"] \notin CopyOps
    /\ "name" \notin DOMAIN [at |-> "idle"]
    /\ \A o \in PatchOps : "name" \in DOMAIN o /\ o.name = "patch" /\ o \notin CopyOps
    /\ \A o \in CopyOps : "name" \in DOMAIN o /\ o.name = "copy" /\ o \notin PatchOps
BY DEF PatchOps, CopyOps

LEMMA OutcomesKeep ==
    ASSUME NEW st \in Members, InBlock(st), NEW o
    PROVE  /\ \A offset \in Int, from \in BinaryStream!Froms :
                o \in BinaryStream!Seeks(st, offset, from) => Keeps(st, o.stream)
           /\ \A n \in Nat : o \in BinaryStream!Reads(st, n) => Keeps(st, o.stream)
           /\ \A bytes \in Seq(Int) : o \in BinaryStream!Writes(st, bytes) => Keeps(st, o.stream)
<1>1. ASSUME NEW offset \in Int, NEW from \in BinaryStream!Froms,
             o \in BinaryStream!Seeks(st, offset, from)
      PROVE  Keeps(st, o.stream)
  BY <1>1, SeekOutcome DEF Keeps
<1>2. ASSUME NEW n \in Nat, o \in BinaryStream!Reads(st, n) PROVE Keeps(st, o.stream)
  <2>1. PICK k \in 0 .. n : /\ o.stream = [st EXCEPT !.pos = st.pos + k]
                            /\ k = 0 \/ st.pos + k <= Len(st.data)
    BY <1>2, ReadOutcome
  <2>2. PICK p \in Nat : p = st.pos + k
    BY <2>1 DEF Members
  <2>3. k = 0 => p = st.pos
    BY <2>1, <2>2 DEF Members
  <2>4. o.stream = [st EXCEPT !.pos = p]
    BY <2>1, <2>2
  <2>. QED BY <2>1, <2>2, <2>3, <2>4 DEF Keeps, Members, InBlock
<1>3. ASSUME NEW bytes \in Seq(Int), o \in BinaryStream!Writes(st, bytes) PROVE Keeps(st, o.stream)
  BY <1>3, WriteOutcome DEF Keeps, After
<1>. QED BY <1>1, <1>2, <1>3

LEMMA RenamedIs ==
    ASSUME NEW s, NEW st \in Members
    PROVE  /\ BinaryStream!Renamed(s, st) \in Members
           /\ BinaryStream!Renamed(s, st).kind = st.kind
           /\ BinaryStream!Renamed(s, st).pos = st.pos
           /\ Len(BinaryStream!Renamed(s, st).data) = Len(st.data)
<1>1. PICK n \in Nat : n = Len(st.data)
  BY DEF Members
<1>2. PICK data : data = BinaryStream!Content(s, n)
  OBVIOUS
<1>3. data \in Seq(Int) /\ Len(data) = n
  <2>1. data \in [1 .. n -> Int]
    BY <1>2 DEF BinaryStream!Content
  <2>. QED BY <1>1, <2>1
<1>4. BinaryStream!Renamed(s, st) = [kind |-> st.kind, data |-> data, pos |-> st.pos]
  BY <1>1, <1>2 DEF BinaryStream!Renamed, Members
<1>. QED BY <1>1, <1>3, <1>4 DEF Members

LEMMA PatchIs ==
    ASSUME NEW n \in Nat
    PROVE  BinaryStream!Patch(n) \in Seq(Int)
<1>1. BinaryStream!Patch(n) \in [1 .. n -> Int]
  BY DEF BinaryStream!Patch
<1>. QED BY <1>1

(* A stream that is not replaced stays as it is.                           *)
Shape == \A s \in Sides : Keeps(stream[s], stream'[s])

LEMMA OneReplaced ==
    ASSUME StreamsTyped, NEW s \in Sides, NEW next, Keeps(stream[s], next),
           stream' = [stream EXCEPT ![s] = next]
    PROVE  /\ stream' \in [Sides -> Members] /\ (\A r \in Sides : InBlock(stream[r])') /\ Shape
           /\ stream'[s] = next /\ \A r \in Sides \ {s} : stream'[r] = stream[r]
BY DEF StreamsTyped, Shape, Keeps

LEMMA NoneReplaced ==
    ASSUME StreamsTyped, UNCHANGED stream
    PROVE  stream' \in [Sides -> Members] /\ (\A r \in Sides : InBlock(stream[r])') /\ Shape
BY DEF StreamsTyped, Shape, Keeps

(* Clients of the streams, between the generic operations.                 *)
LEMMA ClientKeeps ==
    ASSUME BinaryStream!ProperBounds, StreamsTyped,
           \/ \E s \in Sides :
                \/ BinaryStream!Seek(s) \/ BinaryStream!Read(s)
                \/ BinaryStream!getc(s) \/ BinaryStream!ungetc(s)
           \/ BinaryStream!Write("out") \/ BinaryStream!putc("out")
    PROVE  StreamsTyped' /\ Shape /\ op = [at |-> "idle"] /\ op' = op
<1>. MaxLen \in Nat
  BY DEF BinaryStream!ProperBounds
<1>1. ASSUME NEW s \in Sides, NEW outcomes, BinaryStream!Client(s, outcomes),
             \A o \in outcomes : Keeps(stream[s], o.stream)
      PROVE  StreamsTyped' /\ Shape /\ op = [at |-> "idle"] /\ op' = op
  <2>1. PICK o \in outcomes : stream' = [stream EXCEPT ![s] = BinaryStream!Renamed(s, o.stream)]
    BY <1>1 DEF BinaryStream!Client
  <2>2. Keeps(stream[s], BinaryStream!Renamed(s, o.stream))
    BY <1>1, RenamedIs DEF Keeps, InBlock
  <2>3. op = [at |-> "idle"] /\ op' = op
    BY <1>1 DEF BinaryStream!Client, BinaryStream!Idle, StreamsTyped, PatchOps, CopyOps
  <2>. QED BY <2>1, <2>2, <2>3, OneReplaced DEF StreamsTyped
<1>2. \A s \in Sides : stream[s] \in Members /\ InBlock(stream[s])
  BY DEF StreamsTyped
<1>3. ASSUME NEW s \in Sides, BinaryStream!Seek(s)
      PROVE  StreamsTyped' /\ Shape /\ op = [at |-> "idle"] /\ op' = op
  BY <1>1, <1>2, <1>3, OutcomesKeep DEF BinaryStream!Seek
<1>4. ASSUME NEW s \in Sides, BinaryStream!Read(s)
      PROVE  StreamsTyped' /\ Shape /\ op = [at |-> "idle"] /\ op' = op
  BY <1>1, <1>2, <1>4, OutcomesKeep DEF BinaryStream!Read
<1>5. CASE BinaryStream!Write("out")
  <2>1. PICK n \in Nat : BinaryStream!Client("out", BinaryStream!Writes(stream["out"], BinaryStream!Patch(n)))
    BY <1>5 DEF BinaryStream!Write
  <2>. QED BY <1>1, <1>2, <2>1, PatchIs, OutcomesKeep DEF Sides
<1>6. ASSUME NEW s \in Sides, BinaryStream!getc(s)
      PROVE  StreamsTyped' /\ Shape /\ op = [at |-> "idle"] /\ op' = op
  <2>1. PICK outcomes :
          /\ BinaryStream!Client(s, outcomes)
          /\ \A o \in outcomes : o \in BinaryStream!FileReads(stream[s], 1)
                                 \/ o = BinaryStream!Outcome(stream[s], FALSE, <<>>)
    BY <1>6 DEF BinaryStream!getc
  <2>2. BinaryStream!FileReads(stream[s], 1) = BinaryStream!Reads(stream[s], 1)
    BY <1>6 DEF BinaryStream!getc, BinaryStream!IsFile, BinaryStream!Reads
  <2>3. Keeps(stream[s], BinaryStream!Outcome(stream[s], FALSE, <<>>).stream)
    BY <1>2 DEF BinaryStream!Outcome, Keeps
  <2>4. \A o \in BinaryStream!Reads(stream[s], 1) : Keeps(stream[s], o.stream)
    BY <1>2, OutcomesKeep
  <2>. QED BY <1>1, <2>1, <2>2, <2>3, <2>4
<1>7. ASSUME NEW s \in Sides, BinaryStream!ungetc(s)
      PROVE  StreamsTyped' /\ Shape /\ op = [at |-> "idle"] /\ op' = op
  <2>1. PICK p \in Nat : p = stream[s].pos - 1 /\ stream[s].kind # "cursor"
    <3>1. stream[s].kind \in {"file", "append"} /\ stream[s].pos > 0
      BY <1>7 DEF BinaryStream!ungetc, BinaryStream!IsFile
    <3>2. stream[s].pos \in Nat
      BY <1>2 DEF Members
    <3>3. stream[s].pos - 1 \in Nat
      BY <3>1, <3>2
    <3>. QED BY <3>1, <3>3
  <2>2. BinaryStream!Client(s, {BinaryStream!Outcome([stream[s] EXCEPT !.pos = p], FALSE, <<>>)})
    BY <1>7, <2>1 DEF BinaryStream!ungetc
  <2>3. Keeps(stream[s], [stream[s] EXCEPT !.pos = p])
    BY <1>2, <2>1 DEF Keeps, Members, InBlock
  <2>. QED BY <1>1, <2>2, <2>3 DEF BinaryStream!Outcome
<1>8. CASE BinaryStream!putc("out")
  <2>1. BinaryStream!Client("out", BinaryStream!Writes(stream["out"], BinaryStream!Patch(1)))
    BY <1>8 DEF BinaryStream!putc, BinaryStream!IsFile, BinaryStream!Writes
  <2>. QED BY <1>1, <1>2, <2>1, PatchIs, OutcomesKeep DEF Sides
<1>. QED BY <1>3, <1>4, <1>5, <1>6, <1>7, <1>8

(* The steps of a generic operation: what each reads of its record, and    *)
(* what becomes of it.                                                     *)
Threw(o) == [o EXCEPT !.at = "threw"]

LEMMA PerformIs ==
    ASSUME StreamsTyped, NEW s \in Sides, NEW o, NEW next, BinaryStream!Perform(s, o, next),
           Keeps(stream[s], o.stream), op \in PatchOps \/ op \in CopyOps,
           next \in PatchOps \/ next \in CopyOps
    PROVE  /\ StreamsTyped' /\ Shape
           /\ stream'[s] = o.stream /\ \A r \in Sides \ {s} : stream'[r] = stream[r]
           /\ op' = IF o.thrown THEN Threw(op) ELSE next
<1>1. stream' = [stream EXCEPT ![s] = o.stream] /\ op' = IF o.thrown THEN Threw(op) ELSE next
  BY DEF BinaryStream!Perform, Threw
<1>2. Threw(op) \in PatchOps \/ Threw(op) \in CopyOps
  BY DEF Threw, PatchOps, CopyOps
<1>3. op' \in PatchOps \/ op' \in CopyOps
  BY <1>1, <1>2
<1>. QED BY <1>1, <1>3, OneReplaced DEF StreamsTyped

LEMMA OpAt ==
    ASSUME StreamsTyped
    PROVE  /\ op.at \in {"tell", "seek", "write", "return"} => op \in PatchOps
           /\ op.at \in {"read", "store"} => op \in CopyOps
           /\ op.at \in {"done", "threw"} => op \in PatchOps \/ op \in CopyOps
           /\ op.at = "idle" => op = [at |-> "idle"]
BY DEF StreamsTyped, PatchOps, CopyOps

(* While a patch is in progress: nothing but its window differs from what  *)
(* the stream held, and the position to return to is remembered.           *)
Outside(st, begun, at, n) ==
    /\ Len(begun.data) <= Len(st.data)
    /\ \A i \in 1 .. Len(begun.data) : i \in at + 1 .. at + n \/ st.data[i] = begun.data[i]

Holds(st, at, bytes) ==
    /\ at \in Nat
    /\ Len(bytes) = 0 \/ at + Len(bytes) <= Len(st.data)
    /\ \A i \in 1 .. Len(bytes) : st.data[at + i] = bytes[i]

PatchGoes(o, out) ==
    LET begun == o.begun["out"] IN
    /\ out.kind = begun.kind
    /\ o.at \in {"tell", "seek", "write"} => out.data = begun.data
    /\ o.at = "tell" => out.pos = begun.pos
    /\ o.at \in {"seek", "write", "return", "done"} => o.mark = begun.pos
    /\ o.at = "write" => out.pos = o.offset
    /\ Outside(out, begun, o.offset, IF out.kind = "append" THEN 0 ELSE Len(o.bytes))
    /\ o.at \in {"return", "done"} /\ out.kind # "append" => Holds(out, o.offset, o.bytes)
    /\ o.at = "done" => out.pos = begun.pos

Patching == op \in PatchOps => PatchGoes(op, stream["out"])

LEMMA OutIs ==
    ASSUME StreamsTyped
    PROVE  stream["out"] \in Members /\ InBlock(stream["out"])
           /\ stream["in"] \in Members /\ InBlock(stream["in"])
           /\ "out" \in Sides /\ "in" \in Sides \ {"out"} /\ "out" \in Sides \ {"in"}
BY DEF StreamsTyped, Sides

LEMMA NothingChanged ==
    ASSUME NEW st \in Members, NEW at \in Int, NEW n \in Int
    PROVE  Outside(st, st, at, n)
BY DEF Outside, Members

LEMMA ThrewIs ==
    ASSUME NEW o \in PatchOps
    PROVE  /\ Threw(o) \in PatchOps /\ Threw(o).at = "threw" /\ Threw(o).begun = o.begun
           /\ Threw(o).offset = o.offset /\ Threw(o).bytes = o.bytes
BY DEF Threw, PatchOps

LEMMA CallPatchKeeps ==
    ASSUME BinaryStream!ProperBounds, StreamsTyped, BinaryStream!CallPatch
    PROVE  StreamsTyped' /\ Shape /\ op' \in PatchOps /\ Patching'
<1>1. PICK offset \in Int, n \in Nat :
        op' = [name |-> "patch", at |-> "tell", offset |-> offset, bytes |-> BinaryStream!Patch(n),
               mark |-> Null, begun |-> stream]
  BY DEF BinaryStream!CallPatch, BinaryStream!ProperBounds
<1>2. op' \in PatchOps
  BY <1>1, PatchIs DEF PatchOps, StreamsTyped
<1>3. stream' = stream
  BY DEF BinaryStream!CallPatch
<1>4. op'.at = "tell" /\ op'.begun = stream /\ op'.offset \in Int /\ Len(op'.bytes) \in Int
  <2>1. op'.offset \in Int /\ op'.bytes \in Seq(Int)
    BY <1>2 DEF PatchOps
  <2>. QED BY <1>1, <2>1
<1>5. PatchGoes(op', stream["out"])
  BY <1>4, OutIs, NothingChanged DEF PatchGoes
<1>. QED BY <1>2, <1>3, <1>5, NoneReplaced DEF StreamsTyped, Patching

LEMMA PatchTellKeeps ==
    ASSUME StreamsTyped, Patching, BinaryStream!PatchTell
    PROVE  StreamsTyped' /\ Shape /\ op' \in PatchOps /\ Patching'
<1>1. stream' = stream /\ op.at = "tell" /\ op \in PatchOps
  BY OpAt DEF BinaryStream!PatchTell
<1>2. PatchGoes(op, stream["out"]) /\ stream["out"].pos \in Nat
  BY <1>1, OutIs DEF Patching, Members
<1>3. CASE op' = Threw(op)
  <2>1. PatchGoes(op', stream["out"])
    BY <1>1, <1>2, <1>3, ThrewIs DEF PatchGoes
  <2>. QED BY <1>1, <1>3, <2>1, ThrewIs, NoneReplaced DEF StreamsTyped, Patching
<1>4. CASE op' = [op EXCEPT !.at = "seek", !.mark = stream["out"].pos]
  <2>1. /\ op' \in PatchOps /\ op'.at = "seek" /\ op'.mark = stream["out"].pos
        /\ op'.begun = op.begun /\ op'.offset = op.offset /\ op'.bytes = op.bytes
    BY <1>1, <1>2, <1>4 DEF PatchOps
  <2>2. PatchGoes(op', stream["out"])
    BY <1>1, <1>2, <2>1 DEF PatchGoes
  <2>. QED BY <1>1, <2>1, <2>2, NoneReplaced DEF StreamsTyped, Patching
<1>. QED BY <1>3, <1>4 DEF BinaryStream!PatchTell, Threw

LEMMA PatchSeekKeeps ==
    ASSUME StreamsTyped, Patching, BinaryStream!PatchSeek
    PROVE  StreamsTyped' /\ Shape /\ op' \in PatchOps /\ Patching'
<1>1. op.at = "seek" /\ op \in PatchOps /\ op.offset \in Int /\ "Begin" \in BinaryStream!Froms
  BY OpAt DEF BinaryStream!PatchSeek, PatchOps, BinaryStream!Froms
<1>2. PICK o \in BinaryStream!Seeks(stream["out"], op.offset, "Begin") :
        BinaryStream!Perform("out", o, [op EXCEPT !.at = "write"])
  BY DEF BinaryStream!PatchSeek
<1>3. PICK next : next = [op EXCEPT !.at = "write"]
  OBVIOUS
<1>4. /\ next \in PatchOps /\ next.at = "write" /\ next.mark = op.mark
      /\ next.begun = op.begun /\ next.offset = op.offset /\ next.bytes = op.bytes
  BY <1>1, <1>3 DEF PatchOps
<1>5. /\ Keeps(stream["out"], o.stream) /\ o.stream.data = stream["out"].data
      /\ o.stream.kind = stream["out"].kind /\ (~o.thrown => o.stream.pos = op.offset)
  BY <1>1, <1>2, OutIs, SeekOutcome, OutcomesKeep
<1>6. /\ StreamsTyped' /\ Shape /\ stream'["out"] = o.stream
      /\ op' = IF o.thrown THEN Threw(op) ELSE next
  BY <1>1, <1>2, <1>3, <1>4, <1>5, OutIs, PerformIs
<1>7. PatchGoes(op, stream["out"])
  BY <1>1 DEF Patching
<1>8. PatchGoes(op', stream'["out"]) /\ op' \in PatchOps
  <2>1. CASE o.thrown
    BY <1>1, <1>5, <1>6, <1>7, <2>1, ThrewIs DEF PatchGoes, Outside
  <2>2. CASE ~o.thrown
    BY <1>1, <1>4, <1>5, <1>6, <1>7, <2>2 DEF PatchGoes, Outside
  <2>. QED BY <2>1, <2>2
<1>. QED BY <1>6, <1>8 DEF Patching

LEMMA PatchWriteKeeps ==
    ASSUME StreamsTyped, Patching, BinaryStream!PatchWrite
    PROVE  StreamsTyped' /\ Shape /\ op' \in PatchOps /\ Patching'
<1>1. op.at = "write" /\ op \in PatchOps /\ op.offset \in Int /\ op.bytes \in Seq(Int)
  BY OpAt DEF BinaryStream!PatchWrite, PatchOps
<1>2. PICK o \in BinaryStream!Writes(stream["out"], op.bytes) :
        BinaryStream!Perform("out", o, [op EXCEPT !.at = "return"])
  BY DEF BinaryStream!PatchWrite
<1>3. PICK next : next = [op EXCEPT !.at = "return"]
  OBVIOUS
<1>4. /\ next \in PatchOps /\ next.at = "return" /\ next.mark = op.mark
      /\ next.begun = op.begun /\ next.offset = op.offset /\ next.bytes = op.bytes
  BY <1>1, <1>3 DEF PatchOps
<1>5. PICK st : st = stream["out"] /\ st \in Members
  BY OutIs
<1>6. PICK k \in 0 .. Len(op.bytes) :
        /\ After(st, Target(st), op.bytes, k, o.stream)
        /\ ~o.thrown => k = Len(op.bytes)
  BY <1>1, <1>2, <1>5, OutIs, WriteOutcome
<1>7. /\ StreamsTyped' /\ Shape /\ stream'["out"] = o.stream
      /\ op' = IF o.thrown THEN Threw(op) ELSE next
  BY <1>1, <1>2, <1>3, <1>4, OutIs, OutcomesKeep, PerformIs
<1>8. PatchGoes(op, st)
  BY <1>1, <1>5 DEF Patching
<1>9. PICK begun \in Members, n \in Nat : begun = op.begun["out"] /\ n = Len(op.bytes)
  BY <1>1, OutIs DEF PatchOps
<1>10. /\ st.data = begun.data /\ st.kind = begun.kind /\ st.pos = op.offset /\ op.mark = begun.pos
       /\ st.pos \in Nat /\ Len(st.data) \in Nat /\ k \in 0 .. n
  BY <1>1, <1>5, <1>6, <1>8, <1>9 DEF PatchGoes, Members
<1>11. o.stream.kind = begun.kind
  BY <1>6, <1>10 DEF After
<1>12. Outside(o.stream, begun, op.offset, IF begun.kind = "append" THEN 0 ELSE n)
  <2>1. CASE begun.kind = "append"
    <3>1. Target(st) = Len(st.data)
      BY <1>10, <2>1 DEF Target
    <3>2. Len(begun.data) \in Nat /\ Len(o.stream.data) \in Nat
      BY <1>6, <1>10 DEF After, Members
    <3>3. Len(begun.data) <= Len(o.stream.data)
      BY <1>6, <1>10, <3>1, <3>2 DEF After
    <3>4. \A i \in 1 .. Len(begun.data) : o.stream.data[i] = begun.data[i]
      BY <1>6, <1>10, <3>1, <3>2, <3>3 DEF After
    <3>. QED BY <3>3, <3>4 DEF Outside
  <2>2. CASE begun.kind # "append"
    <3>1. Target(st) = op.offset
      BY <1>10, <2>2 DEF Target
    <3>. QED BY <1>1, <1>6, <1>10, <2>2, <3>1 DEF After, Outside
  <2>. QED BY <2>1, <2>2
<1>13. ~o.thrown /\ begun.kind # "append" => Holds(o.stream, op.offset, op.bytes)
  <2>. SUFFICES ASSUME ~o.thrown, begun.kind # "append" PROVE Holds(o.stream, op.offset, op.bytes)
    OBVIOUS
  <2>1. Target(st) = op.offset /\ k = n /\ op.offset \in Nat
    BY <1>6, <1>9, <1>10 DEF Target
  <2>2. n = 0 \/ op.offset + n <= Len(o.stream.data)
    BY <1>6, <1>10, <2>1 DEF After
  <2>3. ASSUME NEW i \in 1 .. n PROVE o.stream.data[op.offset + i] = op.bytes[i]
    <3>1. Len(o.stream.data) \in Nat
      BY <1>6 DEF After, Members
    <3>2. PICK j \in Int : j = op.offset + i
      BY <2>1
    <3>3. j \in 1 .. Len(o.stream.data) /\ j \in op.offset + 1 .. op.offset + n /\ j - op.offset = i
      <4>1. n \in Int /\ op.offset \in Int /\ 1 <= i /\ i <= n /\ op.offset + n <= Len(o.stream.data)
        BY <1>9, <2>1, <2>2, <2>3
      <4>. QED BY <2>1, <3>1, <3>2, <4>1
    <3>4. o.stream.data[j] = op.bytes[i]
      BY <1>6, <2>1, <3>3 DEF After
    <3>. QED BY <3>2, <3>4
  <2>. QED BY <1>9, <2>1, <2>2, <2>3 DEF Holds
<1>14. PatchGoes(op', stream'["out"]) /\ op' \in PatchOps
  <2>1. CASE o.thrown
    BY <1>1, <1>7, <1>9, <1>11, <1>12, <2>1, ThrewIs DEF PatchGoes
  <2>2. CASE ~o.thrown
    BY <1>4, <1>7, <1>9, <1>10, <1>11, <1>12, <1>13, <2>2 DEF PatchGoes
  <2>. QED BY <2>1, <2>2
<1>. QED BY <1>7, <1>14 DEF Patching

LEMMA PatchReturnKeeps ==
    ASSUME StreamsTyped, Patching, BinaryStream!PatchReturn
    PROVE  StreamsTyped' /\ Shape /\ op' \in PatchOps /\ Patching'
<1>1. op.at = "return" /\ op \in PatchOps /\ "Begin" \in BinaryStream!Froms
  BY OpAt DEF BinaryStream!PatchReturn, PatchOps, BinaryStream!Froms
<1>2. PICK o \in BinaryStream!Seeks(stream["out"], op.mark, "Begin") :
        BinaryStream!Perform("out", o, [op EXCEPT !.at = "done"])
  BY DEF BinaryStream!PatchReturn
<1>3. PICK next : next = [op EXCEPT !.at = "done"]
  OBVIOUS
<1>4. /\ next \in PatchOps /\ next.at = "done" /\ next.mark = op.mark
      /\ next.begun = op.begun /\ next.offset = op.offset /\ next.bytes = op.bytes
  BY <1>1, <1>3 DEF PatchOps
<1>5. PatchGoes(op, stream["out"])
  BY <1>1 DEF Patching
<1>6. PICK begun \in Members : begun = op.begun["out"]
  BY <1>1, OutIs DEF PatchOps
<1>7. op.mark = begun.pos /\ op.mark \in Int
  BY <1>1, <1>5, <1>6 DEF PatchGoes, Members
<1>8. /\ Keeps(stream["out"], o.stream) /\ o.stream.data = stream["out"].data
      /\ o.stream.kind = stream["out"].kind /\ (~o.thrown => o.stream.pos = op.mark)
  BY <1>1, <1>2, <1>7, OutIs, SeekOutcome, OutcomesKeep
<1>9. /\ StreamsTyped' /\ Shape /\ stream'["out"] = o.stream
      /\ op' = IF o.thrown THEN Threw(op) ELSE next
  BY <1>1, <1>2, <1>3, <1>4, <1>8, OutIs, PerformIs
<1>10. PatchGoes(op', stream'["out"]) /\ op' \in PatchOps
  <2>1. CASE o.thrown
    <3>1. op' = Threw(op) /\ o.stream.kind = begun.kind
      BY <1>5, <1>6, <1>8, <1>9, <2>1 DEF PatchGoes
    <3>2. Outside(o.stream, begun, op.offset, IF o.stream.kind = "append" THEN 0 ELSE Len(op.bytes))
      BY <1>5, <1>6, <1>8 DEF PatchGoes, Outside
    <3>. QED BY <1>1, <1>6, <1>9, <3>1, <3>2, ThrewIs DEF PatchGoes
  <2>2. CASE ~o.thrown
    BY <1>1, <1>4, <1>5, <1>6, <1>7, <1>8, <1>9, <2>2 DEF PatchGoes, Outside, Holds
  <2>. QED BY <2>1, <2>2
<1>. QED BY <1>9, <1>10 DEF Patching

LEMMA EmptyIs ==
    ASSUME NEW w \in Seq(Int), Len(w) = 0
    PROVE  w = <<>>
OBVIOUS

LEMMA SameEverywhere ==
    ASSUME NEW v \in Seq(Int), NEW w \in Seq(Int), Len(v) = Len(w),
           \A i \in 1 .. Len(w) : v[i] = w[i]
    PROVE  v = w
OBVIOUS

LEMMA PartIs ==
    ASSUME NEW data \in Seq(Int), NEW at \in Nat, NEW n \in Nat, n = 0 \/ at + n <= Len(data)
    PROVE  /\ SubSeq(data, at + 1, at + n) \in Seq(Int)
           /\ Len(SubSeq(data, at + 1, at + n)) = n
           /\ \A i \in 1 .. n : SubSeq(data, at + 1, at + n)[i] = data[at + i]
<1>1. CASE n = 0
  BY <1>1
<1>2. CASE n > 0
  <2>1. PICK from \in Nat, to \in Nat :
          from = at + 1 /\ to = at + n /\ 1 <= from /\ from <= to /\ to <= Len(data) /\ to - from + 1 = n
    BY <1>2
  <2>2. /\ SubSeq(data, from, to) \in Seq(Int)
        /\ Len(SubSeq(data, from, to)) = n
        /\ \A i \in 1 .. n : SubSeq(data, from, to)[i] = data[from + i - 1]
    BY <2>1
  <2>3. \A i \in 1 .. n : from + i - 1 = at + i
    BY <2>1
  <2>. QED BY <2>1, <2>2, <2>3
<1>3. n = 0 \/ n > 0
  <2>1. n \in Nat
    OBVIOUS
  <2>. QED BY <2>1
<1>. QED BY <1>1, <1>2, <1>3, Zenon

LEMMA LengthIsNatural == \A w \in Seq(Int) : Len(w) \in Nat
OBVIOUS

(* A part of a sequence is what it is at each place.                       *)
LEMMA WindowIs ==
    ASSUME NEW data \in Seq(Int), NEW at \in Nat, NEW w \in Seq(Int),
           Len(w) = 0 \/ at + Len(w) <= Len(data),
           \A i \in 1 .. Len(w) : data[at + i] = w[i]
    PROVE  SubSeq(data, at + 1, at + Len(w)) = w
<1>1. PICK n \in Nat : n = Len(w)
  <2>1. Len(w) \in Nat
    BY LengthIsNatural
  <2>. QED BY <2>1, Zenon
<1>2. PICK v : v = SubSeq(data, at + 1, at + n)
  OBVIOUS
<1>3. v \in Seq(Int) /\ Len(v) = n /\ \A i \in 1 .. n : v[i] = data[at + i]
  BY <1>1, <1>2, PartIs
<1>4. v = w
  BY <1>1, <1>3, SameEverywhere
<1>. QED BY <1>1, <1>2, <1>4

LEMMA PatchingSuffices ==
    ASSUME StreamsTyped, Patching
    PROVE  BinaryStream!PatchInPlace
<1>. SUFFICES ASSUME "name" \in DOMAIN op, op.name = "patch" PROVE BinaryStream!PatchInPlace
  BY DEF BinaryStream!PatchInPlace
<1>1. op \in PatchOps
  BY OpIsOneOf DEF StreamsTyped
<1>2. PatchGoes(op, stream["out"])
  BY <1>1 DEF Patching
<1>3. PICK begun \in Members, bytes \in Seq(Int), out \in Members :
        begun = op.begun["out"] /\ bytes = op.bytes /\ out = stream["out"]
  BY <1>1, OutIs DEF PatchOps
<1>4. BinaryStream!OnlyWindow(op.offset, IF out.kind = "append" THEN 0 ELSE Len(bytes))
  <2>1. DOMAIN begun.data = 1 .. Len(begun.data)
    BY <1>3 DEF Members
  <2>2. Outside(out, begun, op.offset, IF out.kind = "append" THEN 0 ELSE Len(bytes))
    BY <1>2, <1>3 DEF PatchGoes
  <2>. QED BY <1>3, <2>1, <2>2 DEF Outside, BinaryStream!OnlyWindow
<1>5. op.at = "done" /\ out.kind # "append"
        => SubSeq(out.data, op.offset + 1, op.offset + Len(bytes)) = bytes
  <2>. SUFFICES ASSUME op.at = "done", out.kind # "append"
                PROVE  SubSeq(out.data, op.offset + 1, op.offset + Len(bytes)) = bytes
    OBVIOUS
  <2>1. Holds(out, op.offset, bytes)
    BY <1>2, <1>3 DEF PatchGoes
  <2>2. /\ op.offset \in Nat /\ (Len(bytes) = 0 \/ op.offset + Len(bytes) <= Len(out.data))
        /\ \A i \in 1 .. Len(bytes) : out.data[op.offset + i] = bytes[i]
    BY <2>1 DEF Holds
  <2>3. out.data \in Seq(Int) /\ bytes \in Seq(Int)
    BY <1>3 DEF Members
  <2>. QED BY <2>2, <2>3, WindowIs
<1>6. op.at = "done" => out.pos = begun.pos
  BY <1>2, <1>3 DEF PatchGoes
<1>. QED BY <1>3, <1>4, <1>5, <1>6 DEF BinaryStream!PatchInPlace

(* While a copy is in progress: what was read is a prefix of what was      *)
(* asked for, what was written a prefix of that, and the difference is in  *)
(* the buffer.                                                             *)
CopyGoes(o, in, out, read, written) ==
    LET from == o.begun["in"]
        begun == o.begun["out"]
        at == Target(begun)
    IN  /\ in.data = from.data /\ out.kind = begun.kind
        /\ read \in Nat /\ in.pos = from.pos + read
        /\ written \in Nat
        /\ (IF out.kind = "append" THEN Len(out.data) ELSE out.pos) = at + written
        /\ o.size = IF o.n <= Chunk THEN o.n ELSE Chunk
        /\ written <= read /\ read <= o.n /\ read - written <= Chunk
        /\ read = 0 \/ from.pos + read <= Len(from.data)
        /\ written = 0 \/ at + written <= Len(out.data)
        /\ \A i \in 1 .. written : out.data[at + i] = from.data[from.pos + i]
        /\ Outside(out, begun, at, written)
        /\ o.at = "read" => read = written /\ o.left = o.n - written
        /\ o.at = "store" =>
            /\ o.left = o.n - written /\ Len(o.bytes) = read - written
            /\ \A i \in 1 .. Len(o.bytes) : o.bytes[i] = from.data[from.pos + written + i]
        /\ o.at = "done" => written = o.n

Copying ==
    op \in CopyOps =>
        \E read, written \in Nat : CopyGoes(op, stream["in"], stream["out"], read, written)

LEMMA CallCopyKeeps ==
    ASSUME BinaryStream!ProperBounds, StreamsTyped, BinaryStream!CallCopy
    PROVE  StreamsTyped' /\ Shape /\ op' \in CopyOps /\ Copying'
<1>1. PICK n \in Nat, at \in {"threw", "read", "done"} :
        /\ op' = [name |-> "copy", n |-> n, left |-> n, size |-> BinaryStream!Min({n, Chunk}),
                  bytes |-> <<>>, begun |-> stream, at |-> at]
        /\ at = "done" => n = 0
  <2>1. PICK n \in 0 .. MaxLen :
          op' = [name |-> "copy", n |-> n, left |-> n, size |-> BinaryStream!Min({n, Chunk}),
                 bytes |-> <<>>, begun |-> stream,
                 at |-> IF ~(BinaryStream!IsOpen("in") /\ BinaryStream!IsOpen("out")) THEN "threw"
                        ELSE IF n > 0 THEN "read" ELSE "done"]
    BY DEF BinaryStream!CallCopy
  <2>2. PICK at : at = IF ~(BinaryStream!IsOpen("in") /\ BinaryStream!IsOpen("out")) THEN "threw"
                       ELSE IF n > 0 THEN "read" ELSE "done"
    OBVIOUS
  <2>3. n \in Nat /\ at \in {"threw", "read", "done"} /\ (at = "done" => n = 0)
    BY <2>1, <2>2 DEF BinaryStream!ProperBounds
  <2>. QED BY <2>1, <2>2, <2>3
<1>2. PICK size \in Nat : size = BinaryStream!Min({n, Chunk}) /\ size = IF n <= Chunk THEN n ELSE Chunk
  BY MinOfTwo DEF BinaryStream!ProperBounds
<1>3. op' \in CopyOps
  BY <1>1, <1>2 DEF CopyOps, StreamsTyped
<1>4. stream' = stream
  BY DEF BinaryStream!CallCopy
<1>5. CopyGoes(op', stream["in"], stream["out"], 0, 0)
  <2>1. /\ op'.begun = stream /\ op'.n = n /\ op'.left = n /\ op'.size = size /\ op'.at = at
    BY <1>1, <1>2
  <2>2. PICK in \in Members, out \in Members, to \in Nat :
          in = stream["in"] /\ out = stream["out"] /\ to = Target(out)
    <3>1. Target(stream["out"]) \in Nat
      BY OutIs DEF Members, Target
    <3>. QED BY <3>1, OutIs
  <2>3. in.pos = in.pos + 0 /\ to = to + 0 /\ Chunk \in Nat
    BY <2>2 DEF Members, BinaryStream!ProperBounds
  <2>4. (IF out.kind = "append" THEN Len(out.data) ELSE out.pos) = to
    BY <2>2 DEF Target
  <2>5. Outside(out, out, to, 0)
    BY <2>2, NothingChanged
  <2>. QED BY <1>1, <1>2, <2>1, <2>2, <2>3, <2>4, <2>5 DEF CopyGoes
<1>. QED BY <1>3, <1>4, <1>5, NoneReplaced DEF StreamsTyped, Copying

LEMMA ThrewCopy ==
    ASSUME NEW o \in CopyOps
    PROVE  /\ Threw(o) \in CopyOps /\ Threw(o).at = "threw" /\ Threw(o).begun = o.begun
           /\ Threw(o).n = o.n /\ Threw(o).size = o.size
BY DEF Threw, CopyOps

LEMMA CopyReadKeeps ==
    ASSUME BinaryStream!ProperBounds, StreamsTyped, Copying, BinaryStream!CopyRead
    PROVE  StreamsTyped' /\ Shape /\ op' \in CopyOps /\ Copying'
<1>1. op.at = "read" /\ op \in CopyOps
  BY OpAt DEF BinaryStream!CopyRead
<1>2. PICK read \in Nat, written \in Nat : CopyGoes(op, stream["in"], stream["out"], read, written)
  BY <1>1 DEF Copying
<1>3. PICK in \in Members, from \in Members, out \in Members :
        in = stream["in"] /\ from = op.begun["in"] /\ out = stream["out"]
  BY <1>1, OutIs DEF CopyOps
<1>4. PICK n \in Nat, left \in Nat : n = op.n /\ left = op.left /\ left = n - written /\ read = written
  BY <1>1, <1>2 DEF CopyGoes, CopyOps
<1>5. PICK ask \in Nat : ask = BinaryStream!ToRead /\ ask <= left /\ ask <= Chunk
  <2>1. /\ op.size \in Nat /\ op.left \in Nat /\ Chunk \in Nat
        /\ op.size = IF op.n <= Chunk THEN op.n ELSE Chunk
    BY <1>1, <1>2 DEF CopyGoes, CopyOps, BinaryStream!ProperBounds
  <2>2. op.size <= Chunk
    BY <1>4, <2>1
  <2>. QED BY <1>4, <2>1, <2>2 DEF BinaryStream!ToRead
<1>6. PICK o \in BinaryStream!Reads(in, ask) :
        BinaryStream!Perform("in", o, [op EXCEPT !.at = "store", !.bytes = o.bytes])
  BY <1>3, <1>5 DEF BinaryStream!CopyRead
<1>7. PICK k \in 0 .. ask :
        /\ o.stream = [in EXCEPT !.pos = in.pos + k]
        /\ k = 0 \/ in.pos + k <= Len(in.data)
        /\ ~o.thrown => k = ask /\ o.bytes = SubSeq(in.data, in.pos + 1, in.pos + ask)
  BY <1>3, <1>6, OutIs, ReadOutcome
<1>8. o.stream.data = in.data /\ o.stream.pos = in.pos + k /\ Keeps(in, o.stream)
  BY <1>3, <1>6, <1>7, OutIs, OutcomesKeep DEF Members
<1>9. in.data = from.data /\ in.pos = from.pos + read /\ in.pos \in Nat /\ from.pos \in Nat
  BY <1>2, <1>3 DEF CopyGoes, Members
<1>10. /\ read + k \in Nat /\ k \in Nat /\ o.stream.pos = from.pos + (read + k)
       /\ written <= read + k /\ read + k <= n /\ (read + k) - written = k /\ k <= Chunk
       /\ read + k = 0 \/ from.pos + (read + k) <= Len(from.data)
  <2>1. k \in Nat /\ k <= ask /\ Chunk \in Nat
    BY <1>7 DEF BinaryStream!ProperBounds
  <2>2. read = 0 \/ from.pos + read <= Len(from.data)
    BY <1>2, <1>3 DEF CopyGoes
  <2>3. k = 0 \/ from.pos + read + k <= Len(from.data)
    BY <1>7, <1>9
  <2>. QED BY <1>4, <1>5, <1>8, <1>9, <2>1, <2>2, <2>3
<1>11. CASE o.thrown
  <2>1. op \in CopyOps /\ Threw(op) \in CopyOps
    BY <1>1, ThrewCopy
  <2>2. BinaryStream!Perform("in", o, Threw(op))
    BY <1>6, <1>11 DEF BinaryStream!Perform
  <2>3. /\ StreamsTyped' /\ Shape /\ stream'["in"] = o.stream /\ stream'["out"] = out
        /\ op' = Threw(op)
    BY <1>3, <1>8, <2>1, <2>2, OutIs, PerformIs
  <2>4. CopyGoes(Threw(op), o.stream, out, read + k, written)
    <3>1. PICK new : new = Threw(op) /\ new.at = "threw" /\ new.begun = op.begun
                     /\ new.n = op.n /\ new.size = op.size
      BY <1>1, ThrewCopy
    <3>2. CopyGoes(new, o.stream, out, read + k, written)
      BY <1>2, <1>3, <1>4, <1>8, <1>9, <1>10, <3>1 DEF CopyGoes
    <3>. QED BY <3>1, <3>2
  <2>. QED BY <1>10, <2>1, <2>3, <2>4 DEF Copying
<1>12. CASE ~o.thrown
  <2>1. PICK bytes : bytes = o.bytes
    OBVIOUS
  <2>2. /\ bytes \in Seq(Int) /\ Len(bytes) = k
        /\ \A i \in 1 .. k : bytes[i] = from.data[from.pos + written + i]
    <3>1. bytes = SubSeq(in.data, in.pos + 1, in.pos + k) /\ in.data \in Seq(Int)
      BY <1>3, <1>7, <1>12, <2>1 DEF Members
    <3>2. k = 0 \/ in.pos + k <= Len(in.data)
      BY <1>7
    <3>3. bytes \in Seq(Int) /\ Len(bytes) = k /\ \A i \in 1 .. k : bytes[i] = in.data[in.pos + i]
      <4>1. /\ SubSeq(in.data, in.pos + 1, in.pos + k) \in Seq(Int)
            /\ Len(SubSeq(in.data, in.pos + 1, in.pos + k)) = k
            /\ \A i \in 1 .. k : SubSeq(in.data, in.pos + 1, in.pos + k)[i] = in.data[in.pos + i]
        <5>1. PICK data \in Seq(Int), p \in Nat : data = in.data /\ p = in.pos
          BY <1>9, <3>1
        <5>2. /\ SubSeq(data, p + 1, p + k) \in Seq(Int) /\ Len(SubSeq(data, p + 1, p + k)) = k
              /\ \A i \in 1 .. k : SubSeq(data, p + 1, p + k)[i] = data[p + i]
          <6>1. k \in Nat /\ (k = 0 \/ p + k <= Len(data))
            BY <1>10, <3>2, <5>1
          <6>2. data \in Seq(Int) /\ p \in Nat
            BY <5>1
          <6>. QED BY <6>1, <6>2, PartIs
        <5>. QED BY <5>1, <5>2
      <4>. QED BY <3>1, <4>1
    <3>. QED BY <1>4, <1>9, <3>3
  <2>3. PICK next : next = [op EXCEPT !.at = "store", !.bytes = bytes]
    OBVIOUS
  <2>4. /\ next \in CopyOps /\ next.at = "store" /\ next.bytes = bytes
        /\ next.n = op.n /\ next.left = op.left /\ next.size = op.size /\ next.begun = op.begun
    BY <1>1, <2>2, <2>3 DEF CopyOps
  <2>5. BinaryStream!Perform("in", o, next)
    BY <1>6, <2>1, <2>3
  <2>6. /\ StreamsTyped' /\ Shape /\ stream'["in"] = o.stream /\ stream'["out"] = out
        /\ op' = next
    BY <1>1, <1>3, <1>8, <1>12, <2>4, <2>5, OutIs, PerformIs
  <2>7. CopyGoes(next, o.stream, out, read + k, written)
    BY <1>2, <1>3, <1>4, <1>8, <1>9, <1>10, <2>2, <2>4 DEF CopyGoes
  <2>. QED BY <1>10, <2>4, <2>6, <2>7 DEF Copying
<1>. QED BY <1>11, <1>12

LEMMA CopyWriteKeeps ==
    ASSUME BinaryStream!ProperBounds, StreamsTyped, Copying, BinaryStream!CopyWrite
    PROVE  StreamsTyped' /\ Shape /\ op' \in CopyOps /\ Copying'
<1>1. op.at = "store" /\ op \in CopyOps /\ op.bytes \in Seq(Int)
  BY OpAt DEF BinaryStream!CopyWrite, CopyOps
<1>2. PICK read \in Nat, written \in Nat : CopyGoes(op, stream["in"], stream["out"], read, written)
  BY <1>1 DEF Copying
<1>3. PICK in \in Members, from \in Members, out \in Members, begun \in Members :
        /\ in = stream["in"] /\ from = op.begun["in"]
        /\ out = stream["out"] /\ begun = op.begun["out"]
  BY <1>1, OutIs DEF CopyOps
<1>4. PICK to \in Nat, n \in Nat, len \in Nat : to = Target(begun) /\ n = op.n /\ len = Len(op.bytes)
  BY <1>1, <1>3 DEF Members, Target, CopyOps
<1>5. /\ out.kind = begun.kind /\ Target(out) = to + written
      /\ op.left = n - written /\ len = read - written
      /\ written <= read /\ read <= n /\ read - written <= Chunk
      /\ written = 0 \/ to + written <= Len(out.data)
      /\ \A i \in 1 .. written : out.data[to + i] = from.data[from.pos + i]
      /\ \A i \in 1 .. len : op.bytes[i] = from.data[from.pos + written + i]
      /\ Outside(out, begun, to, written)
  BY <1>1, <1>2, <1>3, <1>4 DEF CopyGoes, Target
<1>6. PICK left \in Int : left = op.left - len /\ left = n - (written + len)
  BY <1>4, <1>5
<1>7. PICK next : next = [op EXCEPT !.left = left, !.at = IF left > 0 THEN "read" ELSE "done"]
  OBVIOUS
<1>8. PICK o \in BinaryStream!Writes(out, op.bytes) : BinaryStream!Perform("out", o, next)
  BY <1>3, <1>4, <1>6, <1>7 DEF BinaryStream!CopyWrite
<1>9. PICK k \in 0 .. len : After(out, to + written, op.bytes, k, o.stream) /\ (~o.thrown => k = len)
  <2>1. PICK k \in 0 .. Len(op.bytes) :
          After(out, Target(out), op.bytes, k, o.stream) /\ (~o.thrown => k = Len(op.bytes))
    BY <1>1, <1>3, <1>8, OutIs, WriteOutcome
  <2>. QED BY <1>4, <1>5, <2>1
<1>10. /\ k \in Nat /\ k <= len /\ written \in Nat /\ written + k \in Nat /\ written + k <= read
       /\ read - (written + k) <= Chunk /\ read - (written + k) >= 0
       /\ Len(out.data) \in Nat /\ Len(o.stream.data) \in Nat /\ Len(begun.data) \in Nat
  <2>1. k \in Nat /\ k <= len /\ Chunk \in Nat
    BY <1>4, <1>9 DEF BinaryStream!ProperBounds
  <2>2. Len(out.data) \in Nat /\ Len(o.stream.data) \in Nat /\ Len(begun.data) \in Nat
    BY <1>3, <1>9 DEF After, Members
  <2>. QED BY <1>4, <1>5, <2>1, <2>2
<1>11. o.stream.kind = begun.kind
       /\ (IF begun.kind = "append" THEN Len(o.stream.data) ELSE o.stream.pos) = to + (written + k)
  <2>1. CASE k = 0
    BY <1>4, <1>5, <1>9, <2>1 DEF After, Target
  <2>2. CASE k > 0 /\ begun.kind = "append"
    <3>1. Len(out.data) = to + written
      BY <1>5, <2>2 DEF Target
    <3>. QED BY <1>4, <1>5, <1>9, <1>10, <2>2, <3>1 DEF After
  <2>3. CASE k > 0 /\ begun.kind # "append"
    BY <1>4, <1>5, <1>9, <1>10, <2>3 DEF After
  <2>. QED BY <1>10, <2>1, <2>2, <2>3
<1>12. written + k = 0 \/ to + (written + k) <= Len(o.stream.data)
  BY <1>4, <1>5, <1>9, <1>10 DEF After
<1>13. Len(out.data) <= Len(o.stream.data)
  BY <1>4, <1>9, <1>10 DEF After
<1>14. PICK mid \in Nat, all \in Nat :
         /\ mid = to + written /\ all = written + k /\ mid + k = to + all
         /\ to \in Int /\ written \in Int /\ k \in Int /\ 0 <= written /\ 0 <= k /\ 0 <= to
         /\ all <= written + len
  BY <1>4, <1>10
<1>15. \A i \in 1 .. Len(o.stream.data) :
         o.stream.data[i] = IF i \in mid + 1 .. mid + k THEN op.bytes[i - mid]
                            ELSE IF i \in 1 .. Len(out.data) THEN out.data[i] ELSE 0
  BY <1>9, <1>14 DEF After
<1>16. all = 0 \/ to + all <= Len(o.stream.data)
  BY <1>12, <1>14
<1>17. ASSUME NEW i \in 1 .. all PROVE o.stream.data[to + i] = from.data[from.pos + i]
  <2>1. PICK j \in Int : j = to + i /\ 1 <= j /\ j <= Len(o.stream.data)
    BY <1>10, <1>17, <1>14, <1>16
  <2>2. CASE i <= written
    <3>1. i \in 1 .. written /\ j <= mid
      BY <1>17, <1>14, <2>1, <2>2
    <3>2. mid <= Len(out.data)
      BY <1>5, <1>14, <3>1
    <3>3. j \notin mid + 1 .. mid + k /\ j \in 1 .. Len(out.data) /\ j \in 1 .. Len(o.stream.data)
      BY <1>10, <1>14, <2>1, <3>1, <3>2
    <3>4. o.stream.data[j] = out.data[j]
      BY <1>15, <3>3
    <3>. QED BY <1>5, <2>1, <3>1, <3>4
  <2>3. CASE i > written
    <3>1. PICK m \in Int : m = i - written
      BY <1>17, <1>14
    <3>2. m \in 1 .. len /\ j - mid = m /\ j \in mid + 1 .. mid + k /\ j \in 1 .. Len(o.stream.data)
      <4>1. 1 <= m /\ m <= k
        BY <1>17, <1>14, <2>3, <3>1
      <4>2. j = mid + m
        BY <1>17, <1>14, <2>1, <3>1
      <4>3. m \in 1 .. len
        BY <1>4, <1>10, <3>1, <4>1
      <4>4. j - mid = m /\ j \in mid + 1 .. mid + k
        BY <1>14, <2>1, <3>1, <4>1, <4>2
      <4>5. j \in 1 .. Len(o.stream.data)
        BY <1>10, <2>1
      <4>. QED BY <4>3, <4>4, <4>5
    <3>3. o.stream.data[j] = op.bytes[m]
      BY <1>15, <3>2
    <3>4. op.bytes[m] = from.data[from.pos + i]
      <4>1. from.pos \in Int
        BY <1>3 DEF Members
      <4>2. from.pos + written + m = from.pos + i
        BY <1>17, <1>14, <3>1, <4>1
      <4>. QED BY <1>5, <3>2, <4>2
    <3>. QED BY <2>1, <3>3, <3>4
  <2>. QED BY <1>17, <1>14, <2>2, <2>3
<1>18. Outside(o.stream, begun, to, all)
  <2>1. Len(begun.data) <= Len(out.data)
    BY <1>5 DEF Outside
  <2>2. Len(begun.data) <= Len(o.stream.data)
    BY <1>10, <1>13, <2>1
  <2>3. ASSUME NEW i \in 1 .. Len(begun.data), i \notin to + 1 .. to + all
        PROVE  o.stream.data[i] = begun.data[i]
    <3>1. i \in Int /\ 1 <= i /\ i <= Len(begun.data)
      BY <1>10, <2>3
    <3>2. ~(to + 1 <= i /\ i <= to + all)
      BY <1>14, <2>3, <3>1
    <3>3. i \notin mid + 1 .. mid + k
      BY <1>14, <3>1, <3>2
    <3>4. i \notin to + 1 .. to + written
      BY <1>14, <3>1, <3>2
    <3>5. i \in 1 .. Len(o.stream.data) /\ i \in 1 .. Len(out.data)
      BY <1>10, <2>1, <2>2, <3>1
    <3>6. o.stream.data[i] = out.data[i]
      BY <1>15, <3>3, <3>5
    <3>7. out.data[i] = begun.data[i]
      BY <1>5, <2>3, <3>4 DEF Outside
    <3>. QED BY <3>6, <3>7
  <2>. QED BY <2>2, <2>3 DEF Outside
<1>19. ASSUME NEW new, new.begun = op.begun, new.n = op.n, new.size = op.size,
              new.at \notin {"store"},
              new.at = "read" => read = written + k /\ new.left = n - (written + k),
              new.at = "done" => written + k = n
       PROVE  CopyGoes(new, in, o.stream, read, written + k)
  BY <1>2, <1>3, <1>4, <1>5, <1>10, <1>11, <1>12, <1>17, <1>18, <1>19, <1>14 DEF CopyGoes
<1>20. CASE o.thrown
  <2>1. Threw(op) \in CopyOps /\ BinaryStream!Perform("out", o, Threw(op))
    BY <1>1, <1>8, <1>20, ThrewCopy DEF BinaryStream!Perform, Threw
  <2>2. /\ StreamsTyped' /\ Shape /\ stream'["out"] = o.stream /\ stream'["in"] = in
        /\ op' = Threw(op)
    BY <1>1, <1>3, <1>8, <1>20, <2>1, OutIs, OutcomesKeep, PerformIs
  <2>3. CopyGoes(Threw(op), in, o.stream, read, written + k)
    BY <1>1, <1>19, ThrewCopy
  <2>. QED BY <1>10, <2>1, <2>2, <2>3 DEF Copying
<1>21. CASE ~o.thrown
  <2>1. k = len /\ read = written + k /\ left = n - read /\ left \in Nat
    BY <1>4, <1>5, <1>6, <1>9, <1>21
  <2>2. /\ next \in CopyOps /\ next.begun = op.begun /\ next.n = op.n /\ next.size = op.size
        /\ next.left = left /\ next.at = IF left > 0 THEN "read" ELSE "done"
    BY <1>1, <1>7, <2>1 DEF CopyOps
  <2>3. /\ StreamsTyped' /\ Shape /\ stream'["out"] = o.stream /\ stream'["in"] = in
        /\ op' = next
    BY <1>1, <1>3, <1>8, <1>21, <2>2, OutIs, OutcomesKeep, PerformIs
  <2>4. CopyGoes(next, in, o.stream, read, written + k)
    BY <1>4, <1>19, <2>1, <2>2
  <2>. QED BY <1>10, <2>2, <2>3, <2>4 DEF Copying
<1>. QED BY <1>20, <1>21

LEMMA CopyingSuffices ==
    ASSUME BinaryStream!ProperBounds, StreamsTyped, Copying
    PROVE  BinaryStream!CopyIsFaithful
<1>. SUFFICES ASSUME "name" \in DOMAIN op, op.name = "copy" PROVE BinaryStream!CopyIsFaithful
  BY DEF BinaryStream!CopyIsFaithful
<1>1. op \in CopyOps
  BY OpIsOneOf DEF StreamsTyped
<1>2. PICK read \in Nat, written \in Nat : CopyGoes(op, stream["in"], stream["out"], read, written)
  BY <1>1 DEF Copying
<1>3. PICK in \in Members, from \in Members, out \in Members, begun \in Members :
        /\ in = stream["in"] /\ from = op.begun["in"]
        /\ out = stream["out"] /\ begun = op.begun["out"]
  BY <1>1, OutIs DEF CopyOps
<1>4. PICK at \in Nat : at = IF out.kind = "append" THEN Len(begun.data) ELSE begun.pos
  BY <1>3 DEF Members
<1>5. Target(begun) = at /\ out.kind = begun.kind
  BY <1>2, <1>3, <1>4 DEF CopyGoes, Target
<1>6. /\ in.pos = from.pos + read /\ from.pos \in Nat
      /\ (IF out.kind = "append" THEN Len(out.data) ELSE out.pos) = at + written
      /\ written <= read /\ read <= op.n /\ read - written <= Chunk
      /\ read = 0 \/ from.pos + read <= Len(from.data)
      /\ written = 0 \/ at + written <= Len(out.data)
      /\ \A i \in 1 .. written : out.data[at + i] = from.data[from.pos + i]
      /\ Outside(out, begun, at, written)
      /\ op.at = "done" => written = op.n
  BY <1>2, <1>3, <1>5 DEF CopyGoes, Members
<1>7. /\ in.pos - from.pos = read
      /\ (IF out.kind = "append" THEN Len(out.data) - at ELSE out.pos - at) = written
  BY <1>2, <1>4, <1>6
<1>8. SubSeq(out.data, at + 1, at + written) = SubSeq(from.data, from.pos + 1, from.pos + written)
  <2>1. out.data \in Seq(Int) /\ from.data \in Seq(Int) /\ Len(from.data) \in Nat
    BY <1>3 DEF Members
  <2>2. written = 0 \/ from.pos + written <= Len(from.data)
    BY <1>2, <1>6, <2>1
  <2>3. PICK w \in Seq(Int) : /\ w = SubSeq(from.data, from.pos + 1, from.pos + written)
                              /\ Len(w) = written
                              /\ \A i \in 1 .. written : w[i] = from.data[from.pos + i]
    BY <1>2, <1>6, <2>1, <2>2, PartIs
  <2>4. /\ Len(w) = 0 \/ at + Len(w) <= Len(out.data)
        /\ \A i \in 1 .. Len(w) : out.data[at + i] = w[i]
    BY <1>6, <2>3
  <2>5. at \in Nat /\ w \in Seq(Int) /\ out.data \in Seq(Int)
    BY <1>4, <2>1, <2>3
  <2>6. SubSeq(out.data, at + 1, at + Len(w)) = w
    BY <2>4, <2>5, WindowIs
  <2>. QED BY <2>3, <2>6
<1>9. BinaryStream!OnlyWindow(at, written)
  <2>1. DOMAIN begun.data = 1 .. Len(begun.data)
    BY <1>3 DEF Members
  <2>. QED BY <1>3, <1>6, <2>1 DEF Outside, BinaryStream!OnlyWindow
<1>10. 0 <= written
  BY <1>2
<1>. QED BY <1>3, <1>4, <1>6, <1>7, <1>8, <1>9, <1>10 DEF BinaryStream!CopyIsFaithful

-----------------------------------------------------------------------------

StreamsInv == StreamsTyped /\ Patching /\ Copying

LEMMA ReturnKeeps ==
    ASSUME StreamsTyped, BinaryStream!Return
    PROVE  StreamsTyped' /\ Shape /\ op' = [at |-> "idle"]
<1>1. stream' = [stream EXCEPT !["out"] = BinaryStream!Renamed("out", stream["out"])]
      /\ op' = [at |-> "idle"]
  BY DEF BinaryStream!Return
<1>2. Keeps(stream["out"], BinaryStream!Renamed("out", stream["out"]))
  BY OutIs, RenamedIs DEF Keeps, InBlock
<1>. QED BY <1>1, <1>2, OutIs, OneReplaced DEF StreamsTyped

LEMMA StreamStep ==
    ASSUME BinaryStream!ProperBounds, StreamsInv, BinaryStream!Next
    PROVE  StreamsInv' /\ Shape
<1>. USE DEF StreamsInv
<1>1. CASE \/ \E s \in Sides : \/ BinaryStream!Seek(s) \/ BinaryStream!Read(s)
                               \/ BinaryStream!getc(s) \/ BinaryStream!ungetc(s)
           \/ BinaryStream!Write("out") \/ BinaryStream!putc("out")
           \/ BinaryStream!Return
  <2>1. StreamsTyped' /\ Shape /\ op' = [at |-> "idle"]
    BY <1>1, ClientKeeps, ReturnKeeps
  <2>. QED BY <2>1, OpIsOneOf DEF Patching, Copying
<1>2. CASE \/ BinaryStream!CallPatch \/ BinaryStream!PatchTell \/ BinaryStream!PatchSeek
           \/ BinaryStream!PatchWrite \/ BinaryStream!PatchReturn
  <2>1. StreamsTyped' /\ Shape /\ op' \in PatchOps /\ Patching'
    BY <1>2, CallPatchKeeps, PatchTellKeeps, PatchSeekKeeps, PatchWriteKeeps, PatchReturnKeeps
  <2>. QED BY <2>1, OpIsOneOf DEF Copying
<1>3. CASE BinaryStream!CallCopy \/ BinaryStream!CopyRead \/ BinaryStream!CopyWrite
  <2>1. StreamsTyped' /\ Shape /\ op' \in CopyOps /\ Copying'
    BY <1>3, CallCopyKeeps, CopyReadKeeps, CopyWriteKeeps
  <2>. QED BY <2>1, OpIsOneOf DEF Patching
<1>. QED BY <1>1, <1>2, <1>3 DEF BinaryStream!Next, Sides

LEMMA StreamsBegin ==
    ASSUME BinaryStream!ProperBounds, BinaryStream!Init
    PROVE  StreamsInv
<1>1. PICK kinds \in BinaryStream!Kinds, lengths \in [Sides -> 0 .. MaxLen] :
        stream = [s \in Sides |-> [kind |-> kinds[s], data |-> BinaryStream!Content(s, lengths[s]),
                                   pos |-> 0]]
  BY DEF BinaryStream!Init, Sides
<1>2. ASSUME NEW s \in Sides PROVE stream[s] \in Members /\ InBlock(stream[s])
  <2>1. PICK n \in Nat : n = lengths[s]
    BY <1>1 DEF BinaryStream!ProperBounds
  <2>2. PICK data : data = BinaryStream!Content(s, n)
    OBVIOUS
  <2>3. data \in Seq(Int) /\ Len(data) = n
    <3>1. data \in [1 .. n -> Int]
      BY <2>2 DEF BinaryStream!Content
    <3>. QED BY <2>1, <3>1
  <2>4. kinds[s] \in {"cursor", "file", "append", "closed"}
    BY <1>1, <1>2 DEF BinaryStream!Kinds, Sides
  <2>5. stream[s] = [kind |-> kinds[s], data |-> data, pos |-> 0]
    BY <1>1, <1>2, <2>1, <2>2
  <2>. QED BY <2>1, <2>3, <2>4, <2>5 DEF Members, InBlock
<1>3. stream \in [Sides -> Members] /\ op = [at |-> "idle"]
  BY <1>1, <1>2 DEF BinaryStream!Init
<1>. QED BY <1>2, <1>3, OpIsOneOf DEF StreamsInv, StreamsTyped, Patching, Copying

LEMMA StreamsInvariant == Spec => [](part = "BinaryStream" => StreamsInv)
<1>1. Init => (part = "BinaryStream" => StreamsInv)
  BY StreamsBegin, UtilitiesAssumption DEF Init
<1>2. (part = "BinaryStream" => StreamsInv) /\ [Next]_vars => (part = "BinaryStream" => StreamsInv)'
  <2>. SUFFICES ASSUME part = "BinaryStream" => StreamsInv, [Next]_vars, part' = "BinaryStream"
                PROVE  StreamsInv'
    OBVIOUS
  <2>1. part = "BinaryStream" /\ (BinaryStream!Next \/ UNCHANGED <<stream, op>>)
    BY DEF Next, vars
  <2>2. CASE BinaryStream!Next
    BY <2>1, <2>2, StreamStep, UtilitiesAssumption
  <2>3. CASE UNCHANGED <<stream, op>>
    BY <2>1, <2>3 DEF StreamsInv, StreamsTyped, Patching, Copying
  <2>. QED BY <2>1, <2>2, <2>3
<1>. QED BY <1>1, <1>2, PTL DEF Spec

(* patch_bytes() changes its window only, also when it throws half way,    *)
(* and comes back to where it was (binary_stream.hpp:157-162).             *)
THEOREM PatchesAreInPlace == Spec => []PatchInPlace
<1>1. (part = "BinaryStream" => StreamsInv) => PatchInPlace
  BY PatchingSuffices DEF StreamsInv, PatchInPlace
<1>. QED BY <1>1, StreamsInvariant, PTL

(* copy_from() moves a prefix of what it was asked for, unchanged, and all *)
(* of it if it returns; what an exception loses fits into the buffer       *)
(* (binary_stream.hpp:136-155).                                            *)
THEOREM CopiesAreFaithful == Spec => []CopyIsFaithful
<1>1. (part = "BinaryStream" => StreamsInv) => CopyIsFaithful
  BY CopyingSuffices, UtilitiesAssumption DEF StreamsInv, CopyIsFaithful
<1>. QED BY <1>1, StreamsInvariant, PTL

(* No call moves a memory cursor out of its block, or resizes the block    *)
(* (memory_cursor.hpp:41-103).                                             *)
THEOREM CursorsStayInBounds == Spec => CursorInBounds
<1>1. /\ part = "BinaryStream" => StreamsInv
      /\ [Next]_vars
      => [part = "BinaryStream" => BinaryStream!CursorStaysInBounds]_vars
  <2>. SUFFICES ASSUME StreamsInv, Next, part = "BinaryStream"
                PROVE  BinaryStream!CursorStaysInBounds
    OBVIOUS
  <2>1. Shape
    BY StreamStep, UtilitiesAssumption DEF Next
  <2>2. ASSUME NEW s \in Sides, stream[s].kind = "cursor"
        PROVE  /\ stream'[s].pos \in 0 .. Len(stream[s].data)
               /\ Len(stream'[s].data) = Len(stream[s].data)
    BY <2>1, <2>2 DEF Shape, Keeps, Members, InBlock
  <2>. QED BY <2>2 DEF BinaryStream!CursorStaysInBounds, Sides
<1>. QED BY <1>1, StreamsInvariant, PTL DEF Spec, CursorInBounds

-----------------------------------------------------------------------------
(* Numbers that travel.  The provers know nothing of exponentiation; its   *)
(* definition is part of UtilitiesAssumption, up to the widest type, and   *)
(* the laws follow by looking at the least exponent that breaks them.      *)

LEMMA LeastNumber ==
    ASSUME NEW S, S \subseteq Nat, S # {}
    PROVE  \E x \in S : \A y \in S : x <= y
<1>. DEFINE LessThan == OpToRel(<, Nat)
<1>1. IsWellFoundedOn(LessThan, Nat)
  BY NatLessThanWellFounded
<1>2. \A x, y \in Nat : <<y, x>> \in LessThan <=> y < x
  BY DEF OpToRel
<1>. HIDE DEF LessThan
<1>3. PICK x \in S : \A y \in S : <<y, x>> \notin LessThan
  BY <1>1, WFMin
<1>4. ASSUME NEW y \in S PROVE x <= y
  <2>1. x \in Nat /\ y \in Nat /\ ~(y < x)
    BY <1>2, <1>3
  <2>. QED BY <2>1
<1>. QED BY <1>4

LEMMA PowersArePositive ==
    ASSUME StreamNumbers!ProperBytes, NEW i \in 0 .. MaxSize
    PROVE  Base ^ i \in Int /\ Base ^ i > 0
<1>. DEFINE Bad == {n \in 0 .. MaxSize : ~(Base ^ n \in Int /\ Base ^ n > 0)}
<1>. USE DEF StreamNumbers!ProperBytes
<1>. SUFFICES ASSUME ~(Base ^ i \in Int /\ Base ^ i > 0) PROVE FALSE
  OBVIOUS
<1>1. Bad # {}
  OBVIOUS
<1>2. PICK n \in Bad : \A m \in Bad : n <= m
  <2>1. Bad \subseteq Nat
    OBVIOUS
  <2>. HIDE DEF Bad
  <2>. QED BY <1>1, <2>1, LeastNumber
<1>3. n # 0
  BY DEF StreamNumbers!ProperBytes
<1>4. n - 1 \in 0 .. MaxSize - 1 /\ n - 1 \notin Bad /\ (n - 1) + 1 = n
  BY <1>2, <1>3
<1>5. PICK p \in Int : p = Base ^ (n - 1) /\ p > 0
  BY <1>4
<1>6. Base ^ n = Base * p
  BY <1>4, <1>5
<1>7. PICK b \in Int : b = Base /\ b > 1
  OBVIOUS
<1>8. b * p > 0 /\ b * p \in Int
  BY <1>5, <1>7
<1>. QED BY <1>6, <1>7, <1>8

LEMMA PowerOfSum ==
    ASSUME StreamNumbers!ProperBytes, NEW i \in Nat, NEW j \in Nat, i + j <= MaxSize
    PROVE  Base ^ (i + j) = Base ^ i * Base ^ j
<1>. DEFINE Bad == {n \in 0 .. MaxSize - i : Base ^ (i + n) # Base ^ i * Base ^ n}
<1>. USE DEF StreamNumbers!ProperBytes
<1>. SUFFICES ASSUME Base ^ (i + j) # Base ^ i * Base ^ j PROVE FALSE
  OBVIOUS
<1>1. Bad # {}
  <2>1. j \in 0 .. MaxSize - i
    OBVIOUS
  <2>. QED BY <2>1
<1>2. PICK n \in Bad : \A m \in Bad : n <= m
  <2>1. Bad \subseteq Nat
    OBVIOUS
  <2>. HIDE DEF Bad
  <2>. QED BY <1>1, <2>1, LeastNumber
<1>3. PICK b \in Int, p \in Int : b = Base /\ p = Base ^ i
  <2>1. i \in 0 .. MaxSize
    OBVIOUS
  <2>2. Base ^ i \in Int
    BY <2>1, PowersArePositive
  <2>3. Base \in Int
    OBVIOUS
  <2>. HIDE DEF StreamNumbers!ProperBytes
  <2>. QED BY <2>2, <2>3, Zenon
<1>4. n # 0
  BY <1>3
<1>5. /\ n - 1 \in 0 .. MaxSize - 1 /\ i + (n - 1) \in 0 .. MaxSize - 1 /\ n - 1 \notin Bad
      /\ (n - 1) + 1 = n /\ (i + (n - 1)) + 1 = i + n
      /\ n - 1 \in 0 .. MaxSize - i
  BY <1>2, <1>4
<1>6. PICK q \in Int : q = Base ^ (n - 1)
  <2>1. n - 1 \in 0 .. MaxSize
    BY <1>5
  <2>2. Base ^ (n - 1) \in Int
    BY <2>1, PowersArePositive
  <2>. QED BY <2>2
<1>7. Base ^ (i + (n - 1)) = p * q
  BY <1>3, <1>5, <1>6
<1>8. Base ^ (i + n) = b * (p * q)
  BY <1>3, <1>5, <1>7
<1>9. Base ^ n = b * q
  BY <1>3, <1>5, <1>6
<1>10. b * (p * q) = p * (b * q)
  OBVIOUS
<1>. QED BY <1>3, <1>8, <1>9, <1>10

LEMMA QuotientIs ==
    ASSUME NEW a \in Int, a > 0, NEW q \in Int, NEW r \in Int, 0 <= r, r < a
    PROVE  (a * q + r) \div a = q /\ (a * q + r) % a = r
<1>. DEFINE x == a * q + r
<1>1. x \in Int
  OBVIOUS
<1>2. PICK p \in Int, s \in Int : p = x \div a /\ s = x % a /\ 0 <= s /\ s < a /\ x = a * p + s
  BY <1>1, Division
<1>3. a * (q - p) = s - r
  BY <1>2
<1>4. q - p < 1
  BY <1>2, <1>3
<1>5. q - p > -1
  BY <1>2, <1>3
<1>6. q = p
  BY <1>4, <1>5
<1>. QED BY <1>2, <1>6

LEMMA QuotientOfSum ==
    ASSUME NEW a \in Int, a > 0, NEW k \in Int, NEW r \in Int
    PROVE  /\ (a * k + r) \div a = k + (r \div a)
           /\ (a * k + r) % a = r % a
<1>1. PICK q \in Int, s \in Int : q = r \div a /\ s = r % a /\ 0 <= s /\ s < a /\ r = a * q + s
  BY Division
<1>2. a * k + r = a * (k + q) + s
  BY <1>1
<1>3. k + q \in Int
  OBVIOUS
<1>. QED BY <1>1, <1>2, <1>3, QuotientIs

LEMMA LowDigit ==
    ASSUME StreamNumbers!ProperBytes, NEW v \in Nat,
           NEW n \in 0 .. MaxSize, NEW i \in 0 .. n - 1
    PROVE  StreamNumbers!Digit(v % Base ^ n, i) = StreamNumbers!Digit(v, i)
<1>. DEFINE k == n - i - 1
<1>1. MaxSize \in Nat /\ Base \in Int /\ Base > 1
  BY DEF StreamNumbers!ProperBytes
<1>2. /\ i \in 0 .. MaxSize /\ k \in 0 .. MaxSize /\ k \in 0 .. MaxSize - 1
      /\ i \in Nat /\ k + 1 \in Nat /\ i + (k + 1) <= MaxSize /\ i + (k + 1) = n
  BY <1>1
<1>. HIDE DEF k
<1>3. Base ^ i \in Int /\ Base ^ i > 0
  BY <1>2, PowersArePositive
<1>4. Base ^ k \in Int
  BY <1>2, PowersArePositive
<1>5. Base ^ n \in Int /\ Base ^ n > 0
  BY PowersArePositive
<1>6. Base ^ (k + 1) = Base * Base ^ k
  BY <1>2 DEF StreamNumbers!ProperBytes
<1>7. Base ^ (i + (k + 1)) = Base ^ i * Base ^ (k + 1)
  BY <1>2, PowerOfSum
<1>8. PICK b \in Int, p \in Int, c \in Int, m \in Int :
         b = Base /\ p = Base ^ i /\ c = Base ^ k /\ m = Base ^ n /\ b > 1 /\ p > 0 /\ m > 0
  BY <1>1, <1>3, <1>4, <1>5
<1>9. m = p * (b * c)
  BY <1>2, <1>6, <1>7, <1>8
<1>10. PICK q \in Int, r \in Int : r = v % m /\ v = m * q + r
  <2>1. v \in Int
    OBVIOUS
  <2>2. v \div m \in Int /\ v % m \in Int /\ v = m * (v \div m) + (v % m)
    BY <1>8, <2>1, Division
  <2>. QED BY <2>2
<1>11. PICK d \in Int : d = c * q
  OBVIOUS
<1>12. v = p * (b * d) + r
  <2>1. m * q = (p * (b * c)) * q
    BY <1>9
  <2>2. (p * (b * c)) * q = p * (b * (c * q))
    OBVIOUS
  <2>. QED BY <1>10, <1>11, <2>1, <2>2
<1>13. PICK e \in Int : e = b * d
  OBVIOUS
<1>14. (p * e + r) \div p = e + (r \div p)
  BY <1>8, QuotientOfSum
<1>15. PICK x \in Int : x = r \div p
  BY <1>8, Division
<1>16. b > 0
  BY <1>8
<1>17. (b * d + x) % b = x % b
  BY <1>16, QuotientOfSum
<1>18. (v \div p) % b = (r \div p) % b
  BY <1>12, <1>13, <1>14, <1>15, <1>17
<1>. QED BY <1>8, <1>10, <1>18 DEF StreamNumbers!Digit

LEMMA HighDigit ==
    ASSUME StreamNumbers!ProperBytes, NEW v \in Nat,
           NEW n \in 0 .. MaxSize, NEW i \in n .. MaxSize
    PROVE  StreamNumbers!Digit(v % Base ^ n, i) = 0
<1>. DEFINE k == i - n
<1>1. MaxSize \in Nat /\ Base \in Int /\ Base > 1
  BY DEF StreamNumbers!ProperBytes
<1>2. /\ i \in 0 .. MaxSize /\ k \in 0 .. MaxSize
      /\ n \in Nat /\ k \in Nat /\ n + k <= MaxSize /\ n + k = i
  BY <1>1
<1>. HIDE DEF k
<1>3. Base ^ i \in Int /\ Base ^ i > 0
  BY <1>2, PowersArePositive
<1>4. Base ^ k \in Int /\ Base ^ k > 0
  BY <1>2, PowersArePositive
<1>5. Base ^ n \in Int /\ Base ^ n > 0
  BY PowersArePositive
<1>6. Base ^ (n + k) = Base ^ n * Base ^ k
  BY <1>2, PowerOfSum
<1>7. PICK b \in Int, p \in Int, c \in Int, m \in Int :
         /\ b = Base /\ p = Base ^ i /\ c = Base ^ k /\ m = Base ^ n
         /\ b > 1 /\ p > 0 /\ c > 0 /\ m > 0
  BY <1>1, <1>3, <1>4, <1>5
<1>8. p = m * c
  BY <1>2, <1>6, <1>7
<1>9. m <= p
  BY <1>7, <1>8
<1>10. PICK r \in Int : r = v % m /\ 0 <= r /\ r < m
  <2>1. v \in Int
    OBVIOUS
  <2>. QED BY <1>7, <2>1, Division
<1>11. r < p
  BY <1>9, <1>10
<1>12. (p * 0 + r) \div p = 0
  BY <1>7, <1>10, <1>11, QuotientIs
<1>13. r \div p = 0
  BY <1>12
<1>14. b > 0
  BY <1>7
<1>15. (b * 0 + 0) % b = 0
  BY <1>14, QuotientIs
<1>16. 0 % b = 0
  BY <1>15
<1>. QED BY <1>7, <1>10, <1>13, <1>16 DEF StreamNumbers!Digit

Sent == transfer.value % Base ^ transfer.bytes

(* What is in the stream, and what has been read from it.                  *)
NumbersInv ==
    /\ transfer \in StreamNumbers!Transfers
    /\ DOMAIN dest = 1 .. transfer.readerSize
    /\ wire \in {Pending, <<>>, StreamNumbers!Memory(Sent, transfer.bytes, transfer.endian)}
    /\ wire = <<>> => dest = StreamNumbers!Memory(Sent, transfer.readerSize, transfer.reader)

LEMMA MemoryIs ==
    ASSUME NEW v, NEW size \in Nat, NEW target
    PROVE  LET m == StreamNumbers!Memory(v, size, target)
           IN  /\ DOMAIN m = 1 .. size /\ m = [i \in 1 .. size |-> m[i]]
               /\ \A i \in 1 .. size :
                     m[i] = StreamNumbers!Digit(v, IF target = "LE" THEN i - 1 ELSE size - i)
BY DEF StreamNumbers!Memory

(* The low bytes of an object are those of the number modulo what they can *)
(* hold, in the order of the machine.                                      *)
LEMMA LowBytes ==
    ASSUME StreamNumbers!ProperBytes, NEW v \in Nat, NEW size \in 1 .. MaxSize,
           NEW n \in 1 .. size, NEW target \in {"LE", "BE"}
    PROVE  LET offset == StreamNumbers!Offset(target, size, n)
           IN  SubSeq(StreamNumbers!Memory(v, size, target), offset + 1, offset + n)
                  = StreamNumbers!Memory(v % Base ^ n, n, target)
<1>. DEFINE offset == StreamNumbers!Offset(target, size, n)
            src == StreamNumbers!Memory(v, size, target)
            window == SubSeq(src, offset + 1, offset + n)
            low == StreamNumbers!Memory(v % Base ^ n, n, target)
<1>1. MaxSize \in Nat
  BY DEF StreamNumbers!ProperBytes
<1>2. offset = (IF target = "LE" THEN 0 ELSE size - n) /\ offset \in 0 .. size - n
  BY <1>1 DEF StreamNumbers!Offset
<1>3. window = [i \in 1 .. n |-> src[offset + i]]
  <2>. HIDE DEF src
  <2>. QED BY <1>1, <1>2
<1>4. ASSUME NEW i \in 1 .. n PROVE src[offset + i] = low[i]
  <2>1. offset + i \in 1 .. size
    BY <1>1, <1>2
  <2>2. CASE target = "LE"
    <3>1. src[offset + i] = StreamNumbers!Digit(v, i - 1)
      <4>1. (offset + i) - 1 = i - 1
        BY <1>2, <2>2
      <4>. QED BY <2>1, <2>2, <4>1 DEF StreamNumbers!Memory
    <3>2. low[i] = StreamNumbers!Digit(v % Base ^ n, i - 1)
      BY <2>2 DEF StreamNumbers!Memory
    <3>3. n \in 0 .. MaxSize /\ i - 1 \in 0 .. n - 1
      BY <1>1
    <3>4. StreamNumbers!Digit(v % Base ^ n, i - 1) = StreamNumbers!Digit(v, i - 1)
      BY <3>3, LowDigit
    <3>. QED BY <3>1, <3>2, <3>4
  <2>3. CASE target = "BE"
    <3>1. src[offset + i] = StreamNumbers!Digit(v, n - i)
      <4>1. size - (offset + i) = n - i
        BY <1>1, <1>2, <2>3
      <4>. QED BY <2>1, <2>3, <4>1 DEF StreamNumbers!Memory
    <3>2. low[i] = StreamNumbers!Digit(v % Base ^ n, n - i)
      BY <2>3 DEF StreamNumbers!Memory
    <3>3. n \in 0 .. MaxSize /\ n - i \in 0 .. n - 1
      BY <1>1
    <3>4. StreamNumbers!Digit(v % Base ^ n, n - i) = StreamNumbers!Digit(v, n - i)
      BY <3>3, LowDigit
    <3>. QED BY <3>1, <3>2, <3>4
  <2>. QED BY <2>2, <2>3
<1>5. low = [i \in 1 .. n |-> low[i]]
  BY DEF StreamNumbers!Memory
<1>. HIDE DEF window, src, low
<1>6. window = low
  BY <1>3, <1>4, <1>5
<1>. QED BY <1>6 DEF window, src, low

(* Reversed, the bytes of a number are those of the other machine.         *)
LEMMA OrderedIs ==
    ASSUME NEW v, NEW n \in Nat, NEW endian \in {"LE", "BE"}, NEW target \in {"LE", "BE"}
    PROVE  /\ StreamNumbers!Ordered(StreamNumbers!Memory(v, n, target), endian, target)
                 = StreamNumbers!Memory(v, n, endian)
           /\ StreamNumbers!Ordered(StreamNumbers!Memory(v, n, endian), endian, target)
                 = StreamNumbers!Memory(v, n, target)
<1>1. ASSUME NEW a \in {"LE", "BE"}, NEW b \in {"LE", "BE"}, a # b
      PROVE  StreamNumbers!Reverse(StreamNumbers!Memory(v, n, a)) = StreamNumbers!Memory(v, n, b)
  <2>. DEFINE m == StreamNumbers!Memory(v, n, a)
              w == StreamNumbers!Memory(v, n, b)
  <2>1. DOMAIN m = 1 .. n /\ Len(m) = n
    BY DEF StreamNumbers!Memory
  <2>2. StreamNumbers!Reverse(m) = [i \in 1 .. n |-> m[(n - i) + 1]]
    BY <2>1 DEF StreamNumbers!Reverse
  <2>3. ASSUME NEW i \in 1 .. n PROVE m[(n - i) + 1] = w[i]
    <3>1. (n - i) + 1 \in 1 .. n /\ ((n - i) + 1) - 1 = n - i /\ n - ((n - i) + 1) = i - 1
      OBVIOUS
    <3>2. CASE a = "LE" /\ b = "BE"
      BY <3>1, <3>2 DEF StreamNumbers!Memory
    <3>3. CASE a = "BE" /\ b = "LE"
      BY <3>1, <3>3 DEF StreamNumbers!Memory
    <3>. QED BY <1>1, <3>2, <3>3
  <2>4. w = [i \in 1 .. n |-> w[i]]
    BY DEF StreamNumbers!Memory
  <2>. HIDE DEF m, w
  <2>5. StreamNumbers!Reverse(m) = w
    BY <2>2, <2>3, <2>4
  <2>. QED BY <2>5 DEF m, w
<1>2. CASE endian = target
  BY <1>2 DEF StreamNumbers!Ordered
<1>3. CASE endian # target
  <2>1. /\ StreamNumbers!Reverse(StreamNumbers!Memory(v, n, target)) = StreamNumbers!Memory(v, n, endian)
        /\ StreamNumbers!Reverse(StreamNumbers!Memory(v, n, endian)) = StreamNumbers!Memory(v, n, target)
    BY <1>1, <1>3
  <2>. QED BY <1>3, <2>1 DEF StreamNumbers!Ordered
<1>. QED BY <1>2, <1>3

LEMMA TransferIs ==
    ASSUME StreamNumbers!ProperBytes, transfer \in StreamNumbers!Transfers
    PROVE  /\ transfer.value \in Nat /\ transfer.size \in 1 .. MaxSize
           /\ transfer.bytes \in 1 .. transfer.size /\ transfer.bytes \in Nat
           /\ transfer.readerSize \in 1 .. MaxSize /\ transfer.bytes \in 1 .. transfer.readerSize
           /\ transfer.endian \in {"LE", "BE"} /\ transfer.writer \in {"LE", "BE"}
           /\ transfer.reader \in {"LE", "BE"}
<1>1. MaxSize \in Nat /\ MaxSize \in 0 .. MaxSize
  BY DEF StreamNumbers!ProperBytes
<1>2. Base ^ MaxSize \in Int
  BY <1>1, PowersArePositive
<1>. QED BY <1>1, <1>2 DEF StreamNumbers!Transfers, StreamNumbers!Endians

LEMMA WrittenIs ==
    ASSUME StreamNumbers!ProperBytes, NumbersInv, StreamNumbers!write_num
    PROVE  NumbersInv'
<1>. DEFINE t == transfer
            offset == StreamNumbers!Offset(t.writer, t.size, t.bytes)
            src == StreamNumbers!Memory(t.value, t.size, t.writer)
            low == StreamNumbers!Memory(Sent, t.bytes, t.writer)
            sent == StreamNumbers!Memory(Sent, t.bytes, t.endian)
<1>1. transfer \in StreamNumbers!Transfers /\ UNCHANGED <<transfer, dest>>
  BY DEF NumbersInv, StreamNumbers!write_num
<1>2. wire' = StreamNumbers!Ordered(SubSeq(src, offset + 1, offset + t.bytes), t.endian, t.writer)
  BY DEF StreamNumbers!write_num
<1>3. SubSeq(src, offset + 1, offset + t.bytes) = low
  BY <1>1, TransferIs, LowBytes DEF Sent
<1>4. StreamNumbers!Ordered(low, t.endian, t.writer) = sent
  BY <1>1, TransferIs, OrderedIs
<1>5. wire' = sent
  BY <1>2, <1>3, <1>4
<1>6. sent # <<>>
  <2>1. 1 \in DOMAIN sent
    BY <1>1, TransferIs DEF StreamNumbers!Memory
  <2>. QED BY <2>1
<1>7. Sent' = Sent
  BY <1>1 DEF Sent
<1>8. sent = StreamNumbers!Memory(Sent', transfer'.bytes, transfer'.endian)
  BY <1>1, <1>7
<1>. HIDE DEF sent
<1>. QED BY <1>1, <1>5, <1>6, <1>8 DEF NumbersInv

LEMMA ReadIs ==
    ASSUME StreamNumbers!ProperBytes, NumbersInv, StreamNumbers!read_num
    PROVE  NumbersInv'
<1>. DEFINE t == transfer
            offset == StreamNumbers!Offset(t.reader, t.readerSize, t.bytes)
            bytes == StreamNumbers!Memory(Sent, t.bytes, t.reader)
            all == StreamNumbers!Memory(Sent, t.readerSize, t.reader)
<1>1. transfer \in StreamNumbers!Transfers /\ UNCHANGED transfer /\ wire' = <<>>
  BY DEF NumbersInv, StreamNumbers!read_num
<1>2. /\ t.value \in Nat /\ t.readerSize \in 1 .. MaxSize /\ t.bytes \in 1 .. t.readerSize
      /\ t.bytes \in Nat /\ t.reader \in {"LE", "BE"} /\ t.endian \in {"LE", "BE"}
      /\ MaxSize \in Nat
  BY <1>1, TransferIs DEF StreamNumbers!ProperBytes
<1>3. StreamNumbers!Ordered(wire, t.endian, t.reader) = bytes
  <2>1. wire = StreamNumbers!Memory(Sent, t.bytes, t.endian)
    BY DEF NumbersInv, StreamNumbers!read_num
  <2>. QED BY <1>2, <2>1, OrderedIs
<1>4. dest' = [i \in 1 .. t.readerSize |->
                  IF i - offset \in 1 .. t.bytes THEN bytes[i - offset]
                  ELSE StreamNumbers!Cleared[i]]
  <2>1. DOMAIN bytes = 1 .. t.bytes /\ DOMAIN dest = 1 .. t.readerSize
    BY DEF NumbersInv, StreamNumbers!Memory
  <2>2. dest' = [i \in DOMAIN dest |->
                    IF i - offset \in DOMAIN bytes THEN bytes[i - offset]
                    ELSE StreamNumbers!Cleared[i]]
    BY <1>3 DEF StreamNumbers!read_num
  <2>. HIDE DEF bytes, offset
  <2>. QED BY <2>1, <2>2
<1>5. offset = (IF t.reader = "LE" THEN 0 ELSE t.readerSize - t.bytes)
  BY DEF StreamNumbers!Offset
<1>6. all = [i \in 1 .. t.readerSize |-> all[i]]
  BY DEF StreamNumbers!Memory
<1>7. ASSUME NEW i \in 1 .. t.readerSize, i - offset \in 1 .. t.bytes
      PROVE  bytes[i - offset] = all[i]
  <2>1. CASE t.reader = "LE"
    BY <1>2, <1>5, <1>7, <2>1 DEF StreamNumbers!Memory
  <2>2. CASE t.reader = "BE"
    <3>1. t.bytes - (i - offset) = t.readerSize - i
      BY <1>2, <1>5, <2>2
    <3>. QED BY <1>2, <1>7, <2>2, <3>1 DEF StreamNumbers!Memory
  <2>. QED BY <1>2, <2>1, <2>2
<1>8. ASSUME NEW i \in 1 .. t.readerSize, i - offset \notin 1 .. t.bytes
      PROVE  StreamNumbers!Cleared[i] = 0 /\ all[i] = 0
  <2>1. t.bytes < t.readerSize
    BY <1>2, <1>5, <1>8
  <2>2. StreamNumbers!Cleared[i] = 0
    BY <2>1, <1>8 DEF StreamNumbers!Cleared, NumbersInv
  <2>3. t.bytes \in 0 .. MaxSize
    BY <1>2
  <2>4. CASE t.reader = "LE"
    <3>1. i - 1 \in t.bytes .. MaxSize
      BY <1>2, <1>5, <1>8, <2>4
    <3>2. StreamNumbers!Digit(Sent, i - 1) = 0
      BY <1>2, <2>3, <3>1, HighDigit DEF Sent
    <3>. QED BY <2>2, <2>4, <3>2 DEF StreamNumbers!Memory
  <2>5. CASE t.reader = "BE"
    <3>1. t.readerSize - i \in t.bytes .. MaxSize
      BY <1>2, <1>5, <1>8, <2>5
    <3>2. StreamNumbers!Digit(Sent, t.readerSize - i) = 0
      BY <1>2, <2>3, <3>1, HighDigit DEF Sent
    <3>. QED BY <2>2, <2>5, <3>2 DEF StreamNumbers!Memory
  <2>. QED BY <1>2, <2>4, <2>5
<1>9. dest' = all
  <2>. HIDE DEF bytes, all, offset
  <2>. QED BY <1>4, <1>6, <1>7, <1>8
<1>10. all = StreamNumbers!Memory(Sent', transfer'.readerSize, transfer'.reader)
  BY <1>1 DEF Sent
<1>11. DOMAIN dest' = 1 .. t.readerSize
  BY <1>9 DEF StreamNumbers!Memory
<1>. HIDE DEF all
<1>. QED BY <1>1, <1>9, <1>10, <1>11 DEF NumbersInv

(* The bytes in a stream are those of the number in the order asked for,   *)
(* whatever machine writes them, and whatever machine reads them obtains   *)
(* the number, modulo what so many bytes can hold (binary_stream.hpp).         *)
THEOREM NumbersAlwaysTravel == Spec => []NumbersTravel
<1>1. StreamNumbers!ProperBytes
  BY UtilitiesAssumption
<1>2. Init => (part = "StreamNumbers" => NumbersInv)
  <2>. SUFFICES ASSUME Init, part = "StreamNumbers" PROVE NumbersInv
    OBVIOUS
  <2>1. StreamNumbers!Init
    BY DEF Init
  <2>2. wire = Pending /\ Pending # <<>>
    BY <1>1, <2>1 DEF StreamNumbers!Init, StreamNumbers!ProperBytes
  <2>. QED BY <2>1, <2>2 DEF StreamNumbers!Init, NumbersInv
<1>3. (part = "StreamNumbers" => NumbersInv) /\ [Next]_vars => (part = "StreamNumbers" => NumbersInv)'
  <2>. SUFFICES ASSUME part = "StreamNumbers" => NumbersInv, [Next]_vars, part' = "StreamNumbers"
                PROVE  NumbersInv'
    OBVIOUS
  <2>1. CASE Next
    <3>1. NumbersInv /\ (StreamNumbers!write_num \/ StreamNumbers!read_num)
      BY <2>1 DEF Next, StreamNumbers!Next
    <3>. QED BY <1>1, <3>1, WrittenIs, ReadIs
  <2>2. CASE UNCHANGED vars
    BY <2>2 DEF vars, NumbersInv, Sent
  <2>. QED BY <2>1, <2>2
<1>4. (part = "StreamNumbers" => NumbersInv) => NumbersTravel
  BY DEF NumbersInv, NumbersTravel, StreamNumbers!NumbersTravel, Sent
<1>. QED BY <1>2, <1>3, <1>4, PTL DEF Spec

-----------------------------------------------------------------------------
(* Base directories.                                                       *)

(* The provers do not know that a literal is in STRING.                    *)
Names == STRING \cup {".config", ".cache", ".local", "share"}
Paths == Seq(Names)

LEMMA StringsAreNames == Seq(STRING) \subseteq Paths
<1>. SUFFICES ASSUME NEW s \in Seq(STRING) PROVE s \in Seq(Names)
  BY DEF Paths
<1>1. Len(s) \in Nat /\ s \in [1 .. Len(s) -> STRING]
  OBVIOUS
<1>2. s \in [1 .. Len(s) -> Names]
  BY <1>1 DEF Names
<1>. QED BY <1>1, <1>2

Lookups == [at : {"idle", "test", "create", "returned", "threw"}, kind : Dirs \cup {Unset},
            dir : Paths \cup {Unset}]

(* Who has begun to look knows a path; and a directory is in a directory,  *)
(* because the missing ones are made from the root down.                   *)
DirsTyped ==
    /\ env \in [HOME : Homes, XDG : [Dirs -> Settings], entry : UserEntries]
    /\ call \in [Threads -> Lookups]
    /\ \A t \in Threads : call[t].at \in {"test", "create", "returned"} => call[t].dir \in Paths
    /\ tree \in [dirs : SUBSET (Paths \ {<<>>}), files : SUBSET Paths]

Rooted == \A dir \in tree.dirs : SysDirs!Ancestors(dir) \subseteq tree.dirs

LEMMA AncestorsAre ==
    ASSUME NEW dir \in Paths, NEW n \in 1 .. Len(dir)
    PROVE  /\ SubSeq(dir, 1, n) \in Paths /\ Len(SubSeq(dir, 1, n)) = n
           /\ SubSeq(dir, 1, n) # <<>>
           /\ \A m \in 1 .. n : SubSeq(SubSeq(dir, 1, n), 1, m) = SubSeq(dir, 1, m)
<1>1. SubSeq(dir, 1, n) \in Paths /\ Len(SubSeq(dir, 1, n)) = n
  BY DEF Paths
<1>2. SubSeq(dir, 1, n) # <<>>
  BY <1>1
<1>3. ASSUME NEW m \in 1 .. n PROVE SubSeq(SubSeq(dir, 1, n), 1, m) = SubSeq(dir, 1, m)
  BY DEF Paths
<1>. QED BY <1>1, <1>2, <1>3

LEMMA HomeIsAPath ==
    ASSUME SysDirs!ProperEnvironments, DirsTyped, SysDirs!home_dir # Unset
    PROVE  SysDirs!home_dir \in Paths
<1>1. env.HOME \in Homes /\ env.entry \in UserEntries
  BY DEF DirsTyped
<1>2. (Homes \cup UserEntries) \ {Unset} \subseteq Paths
  BY StringsAreNames DEF SysDirs!ProperEnvironments
<1>. QED BY <1>1, <1>2 DEF SysDirs!home_dir

LEMMA LookupKeeps ==
    ASSUME SysDirs!ProperEnvironments, DirsTyped, NEW t \in Threads, NEW kind \in Dirs,
           SysDirs!Lookup(t, kind)
    PROVE  /\ DirsTyped' /\ UNCHANGED tree
           /\ \A s \in Threads : call'[s].at = "returned" => call'[s] = call[s]
<1>1. PICK entry : entry = [at |-> IF SysDirs!home_dir = Unset THEN "threw" ELSE "test",
                            kind |-> kind,
                            dir |-> IF SysDirs!home_dir = Unset THEN Unset
                                    ELSE IF env.XDG[kind] # Unset THEN env.XDG[kind]
                                    ELSE SysDirs!Fallback(kind)]
  OBVIOUS
<1>2. call' = [call EXCEPT ![t] = entry] /\ env' = env /\ tree' = tree
  BY <1>1 DEF SysDirs!Lookup
<1>3. /\ entry.at \in {"threw", "test"} /\ entry.kind \in Dirs
      /\ entry.dir \in Paths \cup {Unset} /\ (entry.at = "test" => entry.dir \in Paths)
      /\ entry = [at |-> entry.at, kind |-> entry.kind, dir |-> entry.dir]
  <2>1. CASE SysDirs!home_dir = Unset
    BY <1>1, <2>1
  <2>2. CASE SysDirs!home_dir # Unset
    <3>1. env.XDG[kind] # Unset => env.XDG[kind] \in Paths
      <4>1. env.XDG[kind] \in Settings
        BY DEF DirsTyped
      <4>. QED BY <4>1, StringsAreNames DEF SysDirs!ProperEnvironments
    <3>2. SysDirs!Fallback(kind) \in Paths
      <4>1. PICK home \in Paths : home = SysDirs!home_dir
        BY <2>2, HomeIsAPath
      <4>2. kind \in {"config", "cache", "data", "state"}
        BY DEF SysDirs!ProperEnvironments
      <4>3. PICK rest : rest = CASE kind = "config" -> <<".config">>
                                 [] kind = "cache" -> <<".cache">>
                                 [] kind = "data" -> <<".local", "share">>
                                 [] kind = "state" -> <<".local", "share">>
        OBVIOUS
      <4>4. rest \in Paths
        <5>1. /\ <<".config">> \in Seq(Names) /\ <<".cache">> \in Seq(Names)
              /\ <<".local", "share">> \in Seq(Names)
          BY DEF Names
        <5>2. rest \in {<<".config">>, <<".cache">>, <<".local", "share">>}
          BY <4>2, <4>3
        <5>. QED BY <5>1, <5>2 DEF Paths
      <4>5. home \o rest \in Paths
        BY <4>4 DEF Paths
      <4>. QED BY <4>1, <4>3, <4>5 DEF SysDirs!Fallback
    <3>. QED BY <1>1, <2>2, <3>1, <3>2
  <2>. QED BY <2>1, <2>2
<1>4. entry \in Lookups
  BY <1>3 DEF Lookups
<1>. QED BY <1>2, <1>3, <1>4 DEF DirsTyped

LEMMA LeaveIs ==
    ASSUME DirsTyped, NEW t \in Threads, NEW how \in {"create", "returned", "threw"},
           call[t].dir \in Paths, SysDirs!Leave(t, how), UNCHANGED env
    PROVE  /\ UNCHANGED tree => DirsTyped'
           /\ \A s \in Threads : call'[s].at = "returned"
                => call'[s].dir = call[s].dir /\ ((s = t /\ how = "returned") \/ call[s].at = "returned")
BY DEF DirsTyped, SysDirs!Leave, Lookups

LEMMA TestKeeps ==
    ASSUME DirsTyped, Rooted, SysDirs!CreatedBeforeReturn, NEW t \in Threads, SysDirs!Test(t)
    PROVE  DirsTyped' /\ Rooted' /\ SysDirs!CreatedBeforeReturn'
<1>1. call[t].dir \in Paths /\ tree' = tree /\ env' = env
  BY DEF DirsTyped, SysDirs!Test
<1>2. PICK how \in {"create", "returned", "threw"} :
        SysDirs!Leave(t, how) /\ (how = "returned" => call[t].dir \in tree.dirs)
  BY DEF SysDirs!Test
<1>3. DirsTyped'
  BY <1>1, <1>2, LeaveIs
<1>4. ASSUME NEW s \in Threads, call'[s].at = "returned"
      PROVE  call'[s].dir # <<>> /\ SysDirs!Ancestors(call'[s].dir) \subseteq tree.dirs
  <2>1. call'[s].dir = call[s].dir /\ ((s = t /\ how = "returned") \/ call[s].at = "returned")
    BY <1>1, <1>2, <1>4, LeaveIs
  <2>2. CASE s = t /\ how = "returned"
    BY <1>2, <2>1, <2>2 DEF DirsTyped, Rooted
  <2>3. CASE call[s].at = "returned"
    BY <2>1, <2>3 DEF SysDirs!CreatedBeforeReturn
  <2>. QED BY <2>1, <2>2, <2>3
<1>. QED BY <1>1, <1>3, <1>4 DEF Rooted, SysDirs!CreatedBeforeReturn

LEMMA CreateKeeps ==
    ASSUME DirsTyped, Rooted, SysDirs!CreatedBeforeReturn, NEW t \in Threads, SysDirs!Create(t)
    PROVE  DirsTyped' /\ Rooted' /\ SysDirs!CreatedBeforeReturn'
<1>1. PICK dir \in Paths : dir = call[t].dir
  BY DEF DirsTyped, SysDirs!Create
<1>2. PICK missing : missing = {p \in SysDirs!Ancestors(dir) : p \notin tree.dirs}
  OBVIOUS
<1>3. env' = env
  BY DEF SysDirs!Create
<1>4. ASSUME NEW how \in {"returned", "threw"}, SysDirs!Leave(t, how), tree' = tree,
             how = "returned" => missing = {} /\ dir # <<>>
      PROVE  DirsTyped' /\ Rooted' /\ SysDirs!CreatedBeforeReturn'
  <2>1. DirsTyped'
    BY <1>1, <1>3, <1>4, LeaveIs
  <2>2. ASSUME NEW s \in Threads, call'[s].at = "returned"
        PROVE  call'[s].dir # <<>> /\ SysDirs!Ancestors(call'[s].dir) \subseteq tree.dirs
    <3>1. call'[s].dir = call[s].dir /\ ((s = t /\ how = "returned") \/ call[s].at = "returned")
      BY <1>1, <1>3, <1>4, <2>2, LeaveIs
    <3>2. CASE s = t /\ how = "returned"
      BY <1>1, <1>2, <1>4, <3>1, <3>2
    <3>3. CASE call[s].at = "returned"
      BY <3>1, <3>3 DEF SysDirs!CreatedBeforeReturn
    <3>. QED BY <3>1, <3>2, <3>3
  <2>. QED BY <1>4, <2>1, <2>2 DEF Rooted, SysDirs!CreatedBeforeReturn
<1>5. ASSUME NEW p \in missing, \A q \in missing : Len(p) <= Len(q),
             tree' = [tree EXCEPT !.dirs = @ \cup {p}], call' = call
      PROVE  DirsTyped' /\ Rooted' /\ SysDirs!CreatedBeforeReturn'
  <2>1. PICK n \in 1 .. Len(dir) : p = SubSeq(dir, 1, n)
    BY <1>2 DEF SysDirs!Ancestors
  <2>2. n \in Nat /\ p \in Paths /\ Len(p) = n /\ p # <<>>
    BY <2>1, AncestorsAre DEF Paths
  <2>3. tree'.dirs = tree.dirs \cup {p} /\ tree'.files = tree.files
        /\ tree' = [dirs |-> tree'.dirs, files |-> tree'.files]
    BY <1>5 DEF DirsTyped
  <2>4. DirsTyped'
    BY <1>3, <1>5, <2>2, <2>3 DEF DirsTyped
  <2>5. SysDirs!Ancestors(p) \subseteq tree'.dirs
    <3>. SUFFICES ASSUME NEW m \in 1 .. n, NEW q, q = SubSeq(p, 1, m), q \notin tree.dirs
                  PROVE  q = p
      BY <2>2, <2>3 DEF SysDirs!Ancestors
    <3>1. q = SubSeq(dir, 1, m) /\ m \in 1 .. Len(dir) /\ Len(q) = m
      BY <2>1, AncestorsAre DEF Paths
    <3>2. q \in missing
      BY <1>2, <3>1 DEF SysDirs!Ancestors
    <3>3. Len(p) <= Len(q)
      BY <1>5, <3>2
    <3>4. m = n
      BY <2>2, <3>1, <3>3
    <3>. QED BY <2>1, <3>1, <3>4
  <2>6. Rooted'
    BY <2>3, <2>5 DEF Rooted
  <2>7. SysDirs!CreatedBeforeReturn'
    BY <1>5, <2>3 DEF SysDirs!CreatedBeforeReturn
  <2>. QED BY <2>4, <2>6, <2>7
<1>6. \/ \E how \in {"returned", "threw"} :
           /\ SysDirs!Leave(t, how) /\ tree' = tree
           /\ how = "returned" => missing = {} /\ dir # <<>>
      \/ \E p \in missing :
           /\ \A q \in missing : Len(p) <= Len(q)
           /\ tree' = [tree EXCEPT !.dirs = @ \cup {p}] /\ call' = call
  BY <1>1, <1>2 DEF SysDirs!Create
<1>. QED BY <1>4, <1>5, <1>6

(* A base directory that was returned exists, with all that it is in,      *)
(* whoever has created what meanwhile (sys_dirs.cpp:222-231).              *)
THEOREM BaseDirectoriesAreCreated == Spec => []CreatedBeforeReturn
<1>. DEFINE Inv == part = "SysDirs" => DirsTyped /\ Rooted /\ SysDirs!CreatedBeforeReturn
<1>1. Init => Inv
  <2>. SUFFICES ASSUME Init, part = "SysDirs"
                PROVE  DirsTyped /\ Rooted /\ SysDirs!CreatedBeforeReturn
    OBVIOUS
  <2>1. SysDirs!Init
    BY DEF Init
  <2>2. DirsTyped
    <3>1. tree \in [dirs : SUBSET (Paths \ {<<>>}), files : SUBSET Paths]
      <4>1. tree \in [dirs : SUBSET (Seq(STRING) \ {<<>>}), files : SUBSET Seq(STRING)]
        BY <2>1, UtilitiesAssumption DEF SysDirs!Init, SysDirs!ProperEnvironments
      <4>. QED BY <4>1, StringsAreNames
    <3>2. call \in [Threads -> Lookups] /\ \A t \in Threads : call[t].at = "idle"
      BY <2>1 DEF SysDirs!Init, Lookups
    <3>. QED BY <2>1, <3>1, <3>2 DEF SysDirs!Init, DirsTyped
  <2>3. Rooted
    BY <2>1, UtilitiesAssumption DEF SysDirs!Init, SysDirs!ProperEnvironments, Rooted
  <2>4. SysDirs!CreatedBeforeReturn
    BY <2>1 DEF SysDirs!Init, SysDirs!CreatedBeforeReturn
  <2>. QED BY <2>2, <2>3, <2>4
<1>2. Inv /\ [Next]_vars => Inv'
  <2>. SUFFICES ASSUME Inv, [Next]_vars, part' = "SysDirs"
                PROVE  (DirsTyped /\ Rooted /\ SysDirs!CreatedBeforeReturn)'
    OBVIOUS
  <2>1. part = "SysDirs" /\ (SysDirs!Next \/ UNCHANGED <<env, tree, call>>)
    BY DEF Next, vars
  <2>2. DirsTyped /\ Rooted /\ SysDirs!CreatedBeforeReturn
    BY <2>1
  <2>3. ASSUME NEW t \in Threads, NEW kind \in Dirs, SysDirs!Lookup(t, kind)
        PROVE  (DirsTyped /\ Rooted /\ SysDirs!CreatedBeforeReturn)'
    <3>1. /\ DirsTyped' /\ UNCHANGED tree
          /\ \A s \in Threads : call'[s].at = "returned" => call'[s] = call[s]
      BY <2>2, <2>3, LookupKeeps, UtilitiesAssumption
    <3>. QED BY <2>2, <3>1 DEF Rooted, SysDirs!CreatedBeforeReturn
  <2>4. ASSUME NEW t \in Threads, SysDirs!Test(t)
        PROVE  (DirsTyped /\ Rooted /\ SysDirs!CreatedBeforeReturn)'
    BY <2>2, <2>4, TestKeeps
  <2>5. ASSUME NEW t \in Threads, SysDirs!Create(t)
        PROVE  (DirsTyped /\ Rooted /\ SysDirs!CreatedBeforeReturn)'
    BY <2>2, <2>5, CreateKeeps
  <2>6. CASE UNCHANGED <<env, tree, call>>
    BY <2>2, <2>6 DEF DirsTyped, Rooted, SysDirs!CreatedBeforeReturn
  <2>. QED BY <2>1, <2>3, <2>4, <2>5, <2>6 DEF SysDirs!Next
<1>3. Inv => CreatedBeforeReturn
  BY DEF CreatedBeforeReturn
<1>. QED BY <1>1, <1>2, <1>3, PTL DEF Spec

=============================================================================
