----------------------------- MODULE DsoProofs -----------------------------
(***************************************************************************)
(* Proofs about Dso, for any number of objects and libraries.              *)
(***************************************************************************)
EXTENDS Dso, FiniteSetTheorems, TLAPS

(* A program has finitely many objects; no library has the handle of none; *)
(* and close() is not called while a library is open (it keeps the handle).*)
ProperUse ==
    /\ IsFiniteSet(Dsos)
    /\ Null \notin Libraries /\ Absent \notin Libraries /\ Null # Absent
    /\ ~CloseOpen

Typed ==
    /\ handle \in [Dsos -> Libraries \cup {Null, Absent}]
    /\ refs \in [Libraries -> Int]

Holders(l) == {d \in Dsos : handle[d] = l}

(* One object obtains library l.                                           *)
LEMMA OneMore ==
    ASSUME ProperUse, NEW l \in Libraries, NEW d \in Dsos \ Holders(l),
           Holders(l)' = Holders(l) \cup {d}
    PROVE  Cardinality(Holders(l)') = Cardinality(Holders(l)) + 1
<1>1. IsFiniteSet(Holders(l))
  BY FS_Subset DEF ProperUse, Holders
<1>. QED BY <1>1, FS_AddElement

(* One object gives library l back.                                        *)
LEMMA OneLess ==
    ASSUME ProperUse, NEW l \in Libraries, NEW d \in Holders(l),
           Holders(l)' = Holders(l) \ {d}
    PROVE  Cardinality(Holders(l)') = Cardinality(Holders(l)) - 1
<1>1. IsFiniteSet(Holders(l))
  BY FS_Subset DEF ProperUse, Holders
<1>. QED BY <1>1, FS_RemoveElement

(* One object hands library l to another one.                              *)
LEMMA HandedOver ==
    ASSUME ProperUse, NEW l \in Libraries,
           NEW rhs \in Holders(l), NEW d \in Dsos \ Holders(l),
           Holders(l)' = (Holders(l) \ {rhs}) \cup {d}
    PROVE  Cardinality(Holders(l)') = Cardinality(Holders(l))
<1>1. IsFiniteSet(Holders(l)) /\ IsFiniteSet(Holders(l) \ {rhs})
  BY FS_Subset DEF ProperUse, Holders
<1>2. Cardinality(Holders(l) \ {rhs}) = Cardinality(Holders(l)) - 1
  BY <1>1, FS_RemoveElement
<1>3. Cardinality(Holders(l)') = Cardinality(Holders(l) \ {rhs}) + 1
  BY <1>1, FS_AddElement
<1>. QED BY <1>1, <1>2, <1>3, FS_CardinalityType

-----------------------------------------------------------------------------
(* Every step keeps the types.                                             *)
LEMMA TypedStep ==
    ASSUME ProperUse, Typed, [Next]_vars
    PROVE  Typed'
<1>. USE DEF ProperUse, Typed
<1>1. ASSUME NEW d \in Dsos, Construct(d) \/ Open(d) PROVE Typed'
  BY <1>1 DEF Construct, Open, LoadDso
<1>2. ASSUME NEW d \in Dsos, Destroy(d) PROVE Typed'
  BY <1>2 DEF Destroy, GivenBack, IsOpen, Alive
<1>3. ASSUME NEW d \in Dsos, NEW rhs \in Dsos, MoveConstruct(d, rhs) PROVE Typed'
  BY <1>3 DEF MoveConstruct
<1>4. ASSUME NEW d \in Dsos, NEW rhs \in Dsos, MoveAssign(d, rhs) PROVE Typed'
  BY <1>4 DEF MoveAssign, GivenBack, IsOpen, Alive
<1>5. ASSUME NEW d \in Dsos, Close(d) PROVE Typed'
  BY <1>5 DEF Close
<1>6. CASE UNCHANGED vars
  BY <1>6 DEF vars
<1>. QED BY <1>1, <1>2, <1>3, <1>4, <1>5, <1>6 DEF Next

(* An object without a library loads one, or none.                         *)
LEMMA LoadKeeps ==
    ASSUME ProperUse, Typed, LoadedWhileHeld,
           NEW d \in Dsos, handle[d] \in {Null, Absent}, LoadDso(d)
    PROVE  LoadedWhileHeld'
<1>. USE DEF ProperUse, Typed, LoadedWhileHeld
<1>1. CASE handle' = [handle EXCEPT ![d] = Null] /\ UNCHANGED refs
  <2>1. \A l \in Libraries : Holders(l)' = Holders(l)
    BY <1>1 DEF Holders
  <2>. QED BY <1>1, <2>1 DEF Holders
<1>2. ASSUME NEW l \in Libraries,
             handle' = [handle EXCEPT ![d] = l], refs' = [refs EXCEPT ![l] = @ + 1]
      PROVE  LoadedWhileHeld'
  <2>1. Cardinality(Holders(l)') = Cardinality(Holders(l)) + 1
    <3>1. d \in Dsos \ Holders(l) /\ Holders(l)' = Holders(l) \cup {d}
      BY <1>2 DEF Holders
    <3>. QED BY <3>1, OneMore
  <2>2. \A k \in Libraries \ {l} : Holders(k)' = Holders(k)
    BY <1>2 DEF Holders
  <2>3. refs'[l] = refs[l] + 1 /\ \A k \in Libraries \ {l} : refs'[k] = refs[k]
    BY <1>2
  <2>. QED BY <2>1, <2>2, <2>3 DEF Holders
<1>. QED BY <1>1, <1>2 DEF LoadDso

(* close() as a part of other members: when the object lets its library go *)
(* at the same time, one holder and one reference go.                      *)
LEMMA GiveBackKeeps ==
    ASSUME ProperUse, Typed, LoadedWhileHeld,
           NEW d \in Dsos, NEW empty \in {Null, Absent},
           refs' = GivenBack(d), handle' = [handle EXCEPT ![d] = empty]
    PROVE  LoadedWhileHeld'
<1>. USE DEF ProperUse, Typed, LoadedWhileHeld
<1>1. ASSUME NEW l \in Libraries PROVE refs'[l] = Cardinality(Holders(l)')
  <2>1. CASE handle[d] = l
    <3>1. d \in Holders(l) /\ Holders(l)' = Holders(l) \ {d}
      BY <2>1 DEF Holders
    <3>2. refs'[l] = refs[l] - 1
      BY <2>1 DEF GivenBack, IsOpen, Alive
    <3>3. Cardinality(Holders(l)') = Cardinality(Holders(l)) - 1
      BY <3>1, OneLess
    <3>. QED BY <3>2, <3>3 DEF Holders
  <2>2. CASE handle[d] # l
    <3>1. Holders(l)' = Holders(l) /\ refs'[l] = refs[l]
      BY <2>2 DEF Holders, GivenBack, IsOpen, Alive
    <3>. QED BY <3>1 DEF Holders
  <2>. QED BY <2>1, <2>2
<1>. QED BY <1>1 DEF Holders

(* A move between two objects: the library of the one that is assigned to  *)
(* is given back (a new object has none), that of the other changes hands. *)
LEMMA MoveKeeps ==
    ASSUME ProperUse, Typed, LoadedWhileHeld,
           NEW d \in Dsos, NEW rhs \in Dsos, d # rhs,
           refs' = GivenBack(d),
           handle' = [handle EXCEPT ![d] = handle[rhs], ![rhs] = Null]
    PROVE  LoadedWhileHeld'
<1>. USE DEF ProperUse, Typed, LoadedWhileHeld
<1>1. ASSUME NEW l \in Libraries PROVE refs'[l] = Cardinality(Holders(l)')
  <2>. refs[l] = Cardinality(Holders(l))
    BY DEF Holders
  <2>1. CASE handle[d] = l
    <3>1. refs'[l] = refs[l] - 1
      BY <2>1 DEF GivenBack, IsOpen, Alive
    <3>2. \E gone \in Holders(l) : Holders(l)' = Holders(l) \ {gone}
      <4>1. CASE handle[rhs] = l
        BY <2>1, <4>1 DEF Holders
      <4>2. CASE handle[rhs] # l
        BY <2>1, <4>2 DEF Holders
      <4>. QED BY <4>1, <4>2
    <3>. QED BY <3>1, <3>2, OneLess
  <2>2. CASE handle[d] # l
    <3>1. refs'[l] = refs[l]
      BY <2>2 DEF GivenBack, IsOpen, Alive
    <3>2. CASE handle[rhs] = l
      <4>1. rhs \in Holders(l) /\ d \in Dsos \ Holders(l)
            /\ Holders(l)' = (Holders(l) \ {rhs}) \cup {d}
        BY <2>2, <3>2 DEF Holders
      <4>. QED BY <3>1, <4>1, HandedOver
    <3>3. CASE handle[rhs] # l
      <4>1. Holders(l)' = Holders(l)
        BY <2>2, <3>3 DEF Holders
      <4>. QED BY <3>1, <4>1
    <3>. QED BY <3>2, <3>3
  <2>. QED BY <2>1, <2>2
<1>. QED BY <1>1 DEF Holders

LEMMA HeldStep ==
    ASSUME ProperUse, Typed, LoadedWhileHeld, [Next]_vars
    PROVE  LoadedWhileHeld'
<1>1. ASSUME NEW d \in Dsos, Construct(d) \/ Open(d) PROVE LoadedWhileHeld'
  <2>1. handle[d] \in {Null, Absent} /\ LoadDso(d)
    BY <1>1 DEF Construct, Open, IsOpen, Alive
  <2>. QED BY <2>1, LoadKeeps
<1>2. ASSUME NEW d \in Dsos, Destroy(d) PROVE LoadedWhileHeld'
  BY <1>2, GiveBackKeeps DEF Destroy
<1>3. ASSUME NEW d \in Dsos, NEW rhs \in Dsos, MoveConstruct(d, rhs) PROVE LoadedWhileHeld'
  <2>1. d # rhs /\ refs' = GivenBack(d)
    BY <1>3 DEF MoveConstruct, GivenBack, IsOpen, Alive
  <2>. QED BY <1>3, <2>1, MoveKeeps DEF MoveConstruct
<1>4. ASSUME NEW d \in Dsos, NEW rhs \in Dsos, MoveAssign(d, rhs) PROVE LoadedWhileHeld'
  <2>1. CASE d = rhs
    <3>1. handle' = [handle EXCEPT ![d] = Null]
      BY <1>4, <2>1 DEF MoveAssign, Typed
    <3>. QED BY <1>4, <3>1, GiveBackKeeps DEF MoveAssign
  <2>2. CASE d # rhs
    BY <1>4, <2>2, MoveKeeps DEF MoveAssign
  <2>. QED BY <2>1, <2>2
<1>5. ASSUME NEW d \in Dsos, Close(d) PROVE LoadedWhileHeld'
  BY <1>5 DEF Close, ProperUse
<1>6. CASE UNCHANGED vars
  BY <1>6 DEF vars, LoadedWhileHeld
<1>. QED BY <1>1, <1>2, <1>3, <1>4, <1>5, <1>6 DEF Next

(* A library stays loaded exactly as long as some object holds it, over    *)
(* all moves, self-assignments and failures of dlopen() (dso.cpp:26-70):   *)
(* the loader's count is the number of objects with its handle.            *)
THEOREM LibrariesAreLoadedWhileHeld ==
    ASSUME ProperUse
    PROVE  Spec => []LoadedWhileHeld
<1>1. Init => Typed /\ LoadedWhileHeld
  <2>. SUFFICES ASSUME Init PROVE Typed /\ LoadedWhileHeld
    OBVIOUS
  <2>1. \A l \in Libraries : {d \in Dsos : handle[d] = l} = {}
    BY DEF Init, ProperUse
  <2>. QED BY <2>1, FS_EmptySet DEF Init, Typed, LoadedWhileHeld
<1>2. Typed /\ LoadedWhileHeld /\ [Next]_vars => Typed' /\ LoadedWhileHeld'
  BY TypedStep, HeldStep
<1>. QED BY <1>1, <1>2, PTL DEF Spec

=============================================================================
