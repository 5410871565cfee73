----------------------- MODULE BinaryFileStreamProofs -----------------------
(***************************************************************************)
(* Proofs about BinaryFileStream, for any number of objects, files and     *)
(* sizes.                                                                  *)
(***************************************************************************)
EXTENDS BinaryFileStream, FiniteSetTheorems, TLAPS

Members == [fp : Files \cup {Null}, size : Int]

(* The values that stand for no object, no file and no open FILE are none  *)
(* of those that an object, a pointer and a size can have.                 *)
ProperValues ==
    /\ Absent \notin Members
    /\ Null \notin Files
    /\ Sizes \subseteq Int
    /\ Closed \notin Int

Typed ==
    /\ stream \in [Streams -> Members \cup {Absent}]
    /\ file \in [Files -> Int \cup {Closed}]

Owns(s, f) == Alive(s) /\ stream[s].fp = f

(* What OneFileOneOwner says with quantifiers in place of a cardinality.   *)
Owned ==
    /\ \A f \in Files : file[f] # Closed <=> \E s \in Streams : Owns(s, f)
    /\ \A f \in Files, s, r \in Streams : Owns(s, f) /\ Owns(r, f) => s = r

-----------------------------------------------------------------------------
(* Every step keeps the types.                                             *)
LEMMA TypedStep ==
    ASSUME ProperValues, Typed, [Next]_vars
    PROVE  Typed'
<1>. USE DEF ProperValues, Typed, Members, Alive, Fresh
<1>1. ASSUME NEW s \in Streams, Construct(s) \/ Destroy(s) \/ Close(s) PROVE Typed'
  <2>1. CASE Construct(s)
    BY <2>1 DEF Construct
  <2>2. CASE Destroy(s)
    BY <2>2 DEF Destroy, Fclose
  <2>3. CASE Close(s)
    BY <2>3 DEF Close, IsOpen, Fclose
  <2>. QED BY <1>1, <2>1, <2>2, <2>3
<1>2. ASSUME NEW s \in Streams, NEW rhs \in Streams, MoveConstruct(s, rhs) PROVE Typed'
  BY <1>2 DEF MoveConstruct, MovedFrom
<1>3. ASSUME NEW s \in Streams, NEW rhs \in Streams, MoveAssign(s, rhs) PROVE Typed'
  <2>1. Fclose(stream[s].fp) \in [Files -> Int \cup {Closed}]
    BY DEF Fclose
  <2>2. ASSUME NEW source \in Members
        PROVE  [[stream EXCEPT ![s] = source] EXCEPT ![rhs].fp = Null] \in [Streams -> Members \cup {Absent}]
    <3>1. CASE s = rhs
      BY <3>1
    <3>2. CASE s # rhs
      BY <1>3, <3>2 DEF MoveAssign
    <3>. QED BY <3>1, <3>2
  <2>3. stream[rhs] \in Members /\ Fresh \in Members
    BY <1>3 DEF MoveAssign
  <2>. QED BY <1>3, <2>1, <2>2, <2>3 DEF MoveAssign
<1>4. ASSUME NEW s \in Streams, NEW f \in Files, NEW mode \in Modes, Open(s, f, mode) PROVE Typed'
  BY <1>4 DEF Open, Measured
<1>5. CASE UNCHANGED vars
  BY <1>5 DEF vars
<1>. QED BY <1>1, <1>2, <1>3, <1>4, <1>5 DEF Next

-----------------------------------------------------------------------------
(* Whichever of its calls fail, open() leaves f in the object; and the     *)
(* size that it remembers is the one it found, or the one it had before.   *)
LEMMA MeasuredOutcome ==
    ASSUME ProperValues, NEW s \in Streams, stream[s] \in Members, NEW f \in Files,
           NEW after \in Measured(s, f)
    PROVE  /\ after \in Members \X Int
           /\ after[1].fp = f
           /\ after[1].size = after[2] \/ (after[1].size = stream[s].size /\ after[2] = -1)
<1>. USE DEF ProperValues, Members
<1>1. CASE after = <<[fp |-> f, size |-> stream[s].size], -1>>
  BY <1>1
<1>2. CASE after = <<[fp |-> f, size |-> -1], -1>>
  BY <1>2
<1>3. ASSUME NEW n \in Sizes, after = <<[fp |-> f, size |-> n], n>>
      PROVE  after \in Members \X Int /\ after[1].fp = f /\ after[1].size = after[2]
  BY <1>3
<1>. QED BY <1>1, <1>2, <1>3 DEF Measured

-----------------------------------------------------------------------------
(* What the steps do to ownership.                                         *)

(* s closes the file that it owns, if any, and owns none.                  *)
LEMMA ClosingKeeps ==
    ASSUME ProperValues, Typed, Owned, NEW s \in Streams, Alive(s),
           file' = Fclose(stream[s].fp),
           \A f \in Files, r \in Streams : Owns(r, f)' <=> r # s /\ Owns(r, f)
    PROVE  Owned'
<1>. USE DEF ProperValues, Typed, Owned
<1>1. ASSUME NEW f \in Files PROVE file'[f] # Closed <=> \E r \in Streams : Owns(r, f)'
  <2>1. CASE Owns(s, f)
    <3>1. file'[f] = Closed
      BY <2>1 DEF Fclose, Owns
    <3>2. \A r \in Streams : ~Owns(r, f)'
      BY <2>1
    <3>. QED BY <3>1, <3>2
  <2>2. CASE ~Owns(s, f)
    <3>1. file'[f] = file[f]
      BY <2>2 DEF Fclose, Owns
    <3>2. \A r \in Streams : Owns(r, f)' <=> Owns(r, f)
      BY <2>2
    <3>. QED BY <3>1, <3>2
  <2>. QED BY <2>1, <2>2
<1>2. \A f \in Files, r, q \in Streams : Owns(r, f)' /\ Owns(q, f)' => r = q
  OBVIOUS
<1>. QED BY <1>1, <1>2

(* s closes the file that it owns, if any, and takes over that of rhs.     *)
LEMMA MovingKeeps ==
    ASSUME ProperValues, Typed, Owned,
           NEW s \in Streams, NEW rhs \in Streams, s # rhs,
           file' = IF Alive(s) THEN Fclose(stream[s].fp) ELSE file,
           \A f \in Files, r \in Streams :
              Owns(r, f)' <=> \/ r = s /\ Owns(rhs, f)
                              \/ r \notin {s, rhs} /\ Owns(r, f)
    PROVE  Owned'
<1>. USE DEF ProperValues, Typed, Owned
<1>1. ASSUME NEW f \in Files PROVE file'[f] # Closed <=> \E r \in Streams : Owns(r, f)'
  <2>1. CASE Owns(s, f)
    <3>1. file'[f] = Closed
      BY <2>1 DEF Fclose, Owns
    <3>2. \A r \in Streams : ~Owns(r, f)'
      BY <2>1
    <3>. QED BY <3>1, <3>2
  <2>2. CASE ~Owns(s, f)
    <3>1. file'[f] = file[f]
      BY <2>2 DEF Fclose, Owns
    <3>2. (\E r \in Streams : Owns(r, f)') <=> (\E r \in Streams : Owns(r, f))
      BY <2>2
    <3>. QED BY <3>1, <3>2
  <2>. QED BY <2>1, <2>2
<1>2. \A f \in Files, r, q \in Streams : Owns(r, f)' /\ Owns(q, f)' => r = q
  OBVIOUS
<1>. QED BY <1>1, <1>2

(* s, which owns no file, opens f.                                         *)
LEMMA OpeningKeeps ==
    ASSUME ProperValues, Typed, Owned, NEW s \in Streams, NEW f \in Files,
           file[f] = Closed, file'[f] # Closed,
           \A g \in Files \ {f} : file'[g] = file[g],
           \A g \in Files, r \in Streams :
              Owns(r, g)' <=> (r = s /\ g = f) \/ (r # s /\ Owns(r, g)),
           \A g \in Files : ~Owns(s, g)
    PROVE  Owned'
<1>. USE DEF Owned
<1>1. ASSUME NEW g \in Files PROVE file'[g] # Closed <=> \E r \in Streams : Owns(r, g)'
  <2>1. CASE g = f
    BY <2>1
  <2>2. CASE g # f
    BY <2>2
  <2>. QED BY <2>1, <2>2
<1>2. ASSUME NEW g \in Files, NEW r \in Streams, NEW q \in Streams, Owns(r, g)', Owns(q, g)'
      PROVE  r = q
  <2>1. CASE g = f
    BY <1>2, <2>1
  <2>2. CASE g # f
    BY <1>2, <2>2
  <2>. QED BY <2>1, <2>2
<1>. QED BY <1>1, <1>2

(* Every step leaves each open FILE with one owner, and each owner with an *)
(* open FILE.                                                              *)
LEMMA OwnedStep ==
    ASSUME ProperValues, Typed, Owned, [Next]_vars
    PROVE  Owned'
<1>. USE DEF ProperValues, Typed, Members, Alive, Owns
<1>1. ASSUME NEW s \in Streams, Construct(s) PROVE Owned'
  <2>1. \A f \in Files, r \in Streams : Owns(r, f)' <=> Owns(r, f)
    BY <1>1 DEF Construct, Fresh
  <2>2. file' = file
    BY <1>1 DEF Construct
  <2>. QED BY <2>1, <2>2 DEF Owned
<1>2. ASSUME NEW s \in Streams, Destroy(s) PROVE Owned'
  <2>1. \A f \in Files, r \in Streams : Owns(r, f)' <=> r # s /\ Owns(r, f)
    BY <1>2 DEF Destroy
  <2>. QED BY <1>2, <2>1, ClosingKeeps DEF Destroy
<1>3. ASSUME NEW s \in Streams, Close(s) PROVE Owned'
  <2>1. \A f \in Files, r \in Streams : Owns(r, f)' <=> r # s /\ Owns(r, f)
    BY <1>3 DEF Close, IsOpen, Fresh
  <2>. QED BY <1>3, <2>1, ClosingKeeps DEF Close, IsOpen
<1>4. ASSUME NEW s \in Streams, NEW rhs \in Streams, MoveConstruct(s, rhs) PROVE Owned'
  <2>1. s # rhs /\ ~Alive(s) /\ file' = file
    BY <1>4 DEF MoveConstruct
  <2>2. \A f \in Files, r \in Streams :
            Owns(r, f)' <=> (r = s /\ Owns(rhs, f)) \/ (r \notin {s, rhs} /\ Owns(r, f))
    BY <1>4, <2>1 DEF MoveConstruct, MovedFrom
  <2>. QED BY <2>1, <2>2, MovingKeeps
<1>5. ASSUME NEW s \in Streams, NEW rhs \in Streams, MoveAssign(s, rhs) PROVE Owned'
  <2>1. Alive(s) /\ Alive(rhs) /\ file' = Fclose(stream[s].fp)
    BY <1>5 DEF MoveAssign
  <2>2. CASE s = rhs
    <3>1. \A f \in Files, r \in Streams : Owns(r, f)' <=> r # s /\ Owns(r, f)
      BY <1>5, <2>2 DEF MoveAssign, Fresh
    <3>. QED BY <2>1, <3>1, ClosingKeeps
  <2>3. CASE s # rhs
    <3>1. stream' = [[stream EXCEPT ![s] = stream[rhs]] EXCEPT ![rhs].fp = Null]
      BY <1>5, <2>3 DEF MoveAssign
    <3>2. \A f \in Files, r \in Streams :
              Owns(r, f)' <=> (r = s /\ Owns(rhs, f)) \/ (r \notin {s, rhs} /\ Owns(r, f))
      BY <2>1, <2>3, <3>1
    <3>. QED BY <2>1, <2>3, <3>2, MovingKeeps
  <2>. QED BY <2>2, <2>3
<1>6. ASSUME NEW s \in Streams, NEW f \in Files, NEW mode \in Modes, Open(s, f, mode)
      PROVE  Owned'
  <2>1. PICK after \in Members \X Int :
            /\ after[1].fp = f
            /\ stream' = [stream EXCEPT ![s] = after[1]]
            /\ file' = [file EXCEPT ![f] = after[2]]
    <3>. DEFINE plain == <<[stream[s] EXCEPT !.fp = f], -1>>
    <3>1. stream[s] \in Members
      BY <1>6 DEF Open
    <3>2. \A after \in Measured(s, f) : after \in Members \X Int /\ after[1].fp = f
      BY <3>1, MeasuredOutcome
    <3>3. plain \in Members \X Int /\ plain[1].fp = f
      BY <3>1
    <3>. HIDE DEF plain
    <3>4. \E after \in Measured(s, f) \cup {plain} :
            /\ stream' = [stream EXCEPT ![s] = after[1]]
            /\ file' = [file EXCEPT ![f] = after[2]]
      BY <1>6 DEF Open, plain
    <3>. QED BY <3>2, <3>3, <3>4
  <2>2. file[f] = Closed /\ file'[f] # Closed /\ \A g \in Files \ {f} : file'[g] = file[g]
    BY <1>6, <2>1 DEF Open
  <2>3. \A g \in Files, r \in Streams :
            Owns(r, g)' <=> (r = s /\ g = f) \/ (r # s /\ Owns(r, g))
    BY <2>1
  <2>4. \A g \in Files : ~Owns(s, g)
    BY <1>6 DEF Open, IsOpen
  <2>. HIDE DEF Owns
  <2>. QED BY <2>2, <2>3, <2>4, OpeningKeeps
<1>7. CASE UNCHANGED vars
  BY <1>7 DEF vars, Owned
<1>. HIDE DEF ProperValues, Typed, Members, Alive, Owns
<1>. QED BY <1>1, <1>2, <1>3, <1>4, <1>5, <1>6, <1>7 DEF Next

-----------------------------------------------------------------------------
(* The remembered size.                                                    *)

(* Closing the file of one object says nothing of the files of others.     *)
LEMMA OthersStayOpen ==
    ASSUME ProperValues, Typed, Owned,
           NEW s \in Streams, Alive(s), NEW r \in Streams \ {s}, IsOpen(r)
    PROVE  Fclose(stream[s].fp)[stream[r].fp] = file[stream[r].fp]
<1>1. stream[r].fp \in Files
  BY DEF Typed, Members, IsOpen, Alive
<1>2. stream[s].fp # stream[r].fp
  BY <1>1 DEF Owned, Owns, IsOpen
<1>. QED BY <1>1, <1>2 DEF Fclose, Typed

LEMMA LengthStep ==
    ASSUME ProperValues, Typed, Owned, LengthIsOfThisFile, ~ReuseMoved, [Next]_vars
    PROVE  LengthIsOfThisFile'
<1>. USE DEF ProperValues, Typed, Members, Alive, IsOpen, LengthIsOfThisFile
<1>1. ASSUME NEW s \in Streams, Construct(s) PROVE LengthIsOfThisFile'
  BY <1>1 DEF Construct, Fresh
<1>2. ASSUME NEW s \in Streams, Destroy(s) PROVE LengthIsOfThisFile'
  BY <1>2, OthersStayOpen DEF Destroy
<1>3. ASSUME NEW s \in Streams, Close(s) PROVE LengthIsOfThisFile'
  BY <1>3, OthersStayOpen DEF Close, Fresh
<1>4. ASSUME NEW s \in Streams, NEW rhs \in Streams, MoveConstruct(s, rhs)
      PROVE  LengthIsOfThisFile'
  BY <1>4 DEF MoveConstruct, MovedFrom
<1>5. ASSUME NEW s \in Streams, NEW rhs \in Streams, MoveAssign(s, rhs)
      PROVE  LengthIsOfThisFile'
  <2>1. Alive(s) /\ Alive(rhs) /\ file' = Fclose(stream[s].fp)
    BY <1>5 DEF MoveAssign
  <2>2. CASE s = rhs
    <3>1. ~IsOpen(s)' /\ \A r \in Streams \ {s} : stream'[r] = stream[r]
      BY <1>5, <2>2 DEF MoveAssign, Fresh
    <3>. QED BY <2>1, <3>1, OthersStayOpen
  <2>3. CASE s # rhs
    <3>1. /\ stream'[s] = stream[rhs] /\ ~IsOpen(rhs)'
          /\ \A r \in Streams \ {s, rhs} : stream'[r] = stream[r]
      BY <1>5, <2>3 DEF MoveAssign
    <3>. QED BY <2>1, <2>3, <3>1, OthersStayOpen
  <2>. QED BY <2>2, <2>3
<1>6. ASSUME NEW s \in Streams, NEW f \in Files, NEW mode \in Modes, Open(s, f, mode)
      PROVE  LengthIsOfThisFile'
  <2>. DEFINE plain == <<[stream[s] EXCEPT !.fp = f], -1>>
  <2>1. stream[s] \in Members /\ stream[s].size = -1 /\ file[f] = Closed
    BY <1>6 DEF Open
  <2>2. \A after \in Measured(s, f) :
            after \in Members \X Int /\ after[1].fp = f /\ after[1].size = after[2]
    BY <2>1, MeasuredOutcome
  <2>3. plain \in Members \X Int /\ plain[1].fp = f /\ plain[1].size = plain[2]
    BY <2>1
  <2>. HIDE DEF plain
  <2>4. PICK after \in Members \X Int :
            /\ after[1].fp = f /\ after[1].size = after[2]
            /\ stream' = [stream EXCEPT ![s] = after[1]]
            /\ file' = [file EXCEPT ![f] = after[2]]
    <3>1. \E after \in Measured(s, f) \cup {plain} :
            /\ stream' = [stream EXCEPT ![s] = after[1]]
            /\ file' = [file EXCEPT ![f] = after[2]]
      BY <1>6 DEF Open, plain
    <3>. QED BY <2>2, <2>3, <3>1
  <2>5. ASSUME NEW r \in Streams \ {s}, IsOpen(r) PROVE stream[r].fp # f
    BY <2>1, <2>5 DEF Owned, Owns
  <2>. QED BY <2>1, <2>4, <2>5
<1>7. CASE UNCHANGED vars
  BY <1>7 DEF vars
<1>. QED BY <1>1, <1>2, <1>3, <1>4, <1>5, <1>6, <1>7 DEF Next

-----------------------------------------------------------------------------
(* The theorems.                                                           *)

LEMMA Initially ==
    ASSUME ProperValues, Init
    PROVE  Typed /\ Owned /\ LengthIsOfThisFile
BY DEF Init, ProperValues, Typed, Owned, Owns, Alive, IsOpen, LengthIsOfThisFile

(* One owner, or none, counted.                                            *)
LEMMA OwnersCounted ==
    ASSUME Owned
    PROVE  OneFileOneOwner
<1>. SUFFICES ASSUME NEW f \in Files
              PROVE  Cardinality({s \in Streams : Owns(s, f)}) = IF file[f] = Closed THEN 0 ELSE 1
  BY DEF OneFileOneOwner, Owns
<1>1. CASE file[f] = Closed
  <2>1. {s \in Streams : Owns(s, f)} = {}
    BY <1>1 DEF Owned
  <2>. QED BY <1>1, <2>1, FS_EmptySet
<1>2. CASE file[f] # Closed
  <2>1. PICK s \in Streams : Owns(s, f)
    BY <1>2 DEF Owned
  <2>2. {r \in Streams : Owns(r, f)} = {s}
    BY <2>1 DEF Owned
  <2>. QED BY <1>2, <2>2, FS_Singleton
<1>. QED BY <1>1, <1>2

(* An open FILE has exactly one owner and what an object owns is open,     *)
(* however objects are moved, assigned to themselves, closed and           *)
(* destroyed, and whichever call in open() fails                           *)
(* (binary_file_stream.cpp:5-90).                                          *)
THEOREM FilesHaveOneOwner ==
    ASSUME ProperValues
    PROVE  Spec => []OneFileOneOwner
<1>1. Init => Typed /\ Owned
  BY Initially
<1>2. Typed /\ Owned /\ [Next]_vars => Typed' /\ Owned'
  BY TypedStep, OwnedStep
<1>3. Owned => OneFileOneOwner
  BY OwnersCounted
<1>. QED BY <1>1, <1>2, <1>3, PTL DEF Spec

(* get_length() of an open stream is about the file it owns, as long as no *)
(* object whose file was moved out is opened again: only file_size_ of     *)
(* such an object is stale (binary_file_stream.cpp:11-22).                 *)
THEOREM LengthsAreOfTheirFiles ==
    ASSUME ProperValues, ~ReuseMoved
    PROVE  Spec => []LengthIsOfThisFile
<1>1. Init => Typed /\ Owned /\ LengthIsOfThisFile
  BY Initially
<1>2. Typed /\ Owned /\ LengthIsOfThisFile /\ [Next]_vars
        => Typed' /\ Owned' /\ LengthIsOfThisFile'
  BY TypedStep, OwnedStep, LengthStep
<1>. QED BY <1>1, <1>2, PTL DEF Spec

=============================================================================
