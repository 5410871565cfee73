-------------------------- MODULE ArcStringProofs --------------------------
(***************************************************************************)
(* Proofs about ArcString, for any number of threads, handles and control  *)
(* blocks, with and without moves and self-assignments.                    *)
(***************************************************************************)
EXTENDS ArcString, FiniteSetTheorems, TLAPS

-----------------------------------------------------------------------------
(* The inductive invariant.                                                *)

(* The types of everything but the counts, whose range follows from        *)
(* CountsHandles.                                                          *)
Typed ==
    /\ life \subseteq Handles
    /\ rep \in [Handles -> Reps \cup {Null}]
    /\ block \in [Reps -> {"raw", "live", "freed"}]
    /\ refCnt \in [Reps -> Int]
    /\ pc \in [Threads -> Locations]
    /\ after \in [Threads -> {"idle", "read", "steal"}]
    /\ dst \in [Threads -> Handles \cup {Null}]
    /\ src \in [Threads -> Handles \cup {Null}]

(* A thread works on a handle exactly during an operation, and has another *)
(* one to copy or move from when the operation needs it.                   *)
Located ==
    \A t \in Threads :
        /\ pc[t] = "idle" <=> dst[t] = Null
        /\ pc[t] = "idle" => src[t] = Null
        /\ pc[t] \in {"read", "add", "steal"} \/ after[t] # "idle" =>
              src[t] # Null /\ dst[t] \in life
        /\ pc[t] = "steal" => after[t] = "steal"
        /\ pc[t] \in {"read", "add"} => after[t] # "steal"

(* What the callers' duty comes to while the operations last: a handle     *)
(* that is written is used by one thread, and so is one moved from.        *)
Apart ==
    \A t, u \in Threads :
        t # u /\ dst[t] # Null =>
            /\ dst[t] # dst[u] /\ dst[t] # src[u]
            /\ after[t] = "steal" => src[t] # src[u]

(* A handle that is about to receive a reference is empty; one that has    *)
(* read its reference but not counted it shares it with the right-hand     *)
(* side, whose count protects both; a handle without a lifetime is empty.  *)
Borrowed ==
    /\ \A t \in Threads :
          /\ pc[t] \in {"read", "steal"} => rep[dst[t]] = Null
          /\ pc[t] = "add" => rep[dst[t]] = rep[src[t]]
          /\ pc[t] = "add" /\ src[t] = dst[t] => rep[dst[t]] = Null
    /\ \A h \in Handles :
          h \notin life /\ (\A t \in Threads : dst[t] # h) => rep[h] = Null

(* A thread that has counted down to zero has the block for itself.        *)
Deleting ==
    /\ \A t \in Threads :
          pc[t] = "delete" =>
            /\ rep[dst[t]] # Null /\ refCnt[rep[dst[t]]] = 0
            /\ \A u \in Threads \ {t} : pc[u] = "delete" => rep[dst[u]] # rep[dst[t]]
    /\ \A r \in Reps :
          block[r] = "live" /\ refCnt[r] = 0 =>
            \E t \in Threads : pc[t] = "delete" /\ rep[dst[t]] = r

(* Nobody holds a block that was not yet allocated.                        *)
Allocated == \A h \in Handles : rep[h] # Null => block[rep[h]] # "raw"

IInv ==
    /\ Typed
    /\ Located
    /\ Apart
    /\ Borrowed
    /\ Deleting
    /\ Allocated
    /\ NoDangling
    /\ CountsHandles

-----------------------------------------------------------------------------
(* The steps that begin an operation, and those in the middle of one.      *)
Beginning(t) ==
    \/ \E h \in Handles : Destroy(t, h)
    \/ \E h, from \in Handles :
          \/ CopyConstruct(t, h, from) \/ CopyAssign(t, h, from)
          \/ MoveConstruct(t, h, from) \/ MoveAssign(t, h, from)

Inner(t) ==
    \/ ReleaseSub(t) \/ ReleaseDelete(t) \/ ReleaseNull(t)
    \/ Read(t) \/ Add(t) \/ Steal(t)

LEMMA Steps ==
    ASSUME [Next]_vars
    PROVE  \/ \E t \in Threads, h \in Handles : Construct(t, h)
           \/ \E t \in Threads : Beginning(t)
           \/ \E t \in Threads : Inner(t)
           \/ UNCHANGED vars
<1>. QED BY DEF Next, Beginning, Inner

LEMMA TypedStep ==
    ASSUME Typed, Located, [Next]_vars
    PROVE  Typed'
<1>. USE ArcStringAssumption DEF Typed, Located, Locations
<1>1. ASSUME NEW t \in Threads, NEW h \in Handles, Construct(t, h) PROVE Typed'
  BY <1>1 DEF Construct
<1>2. ASSUME NEW t \in Threads, Beginning(t) PROVE Typed'
  BY <1>2 DEF Beginning, Begin, CopyConstruct, CopyAssign, MoveConstruct, MoveAssign, Destroy
<1>3. ASSUME NEW t \in Threads, ReleaseSub(t) \/ ReleaseDelete(t) \/ Read(t) PROVE Typed'
  BY <1>3 DEF ReleaseSub, ReleaseDelete, Read, Continue
<1>4. ASSUME NEW t \in Threads, ReleaseNull(t) \/ Add(t) \/ Steal(t) PROVE Typed'
  BY <1>4 DEF ReleaseNull, Add, Steal, Continue, End
<1>5. CASE UNCHANGED vars
  BY <1>5 DEF vars
<1>. QED BY <1>1, <1>2, <1>3, <1>4, <1>5, Steps DEF Inner

LEMMA LocatedStep ==
    ASSUME Typed, Located, [Next]_vars
    PROVE  Located'
<1>. USE ArcStringAssumption DEF Typed, Located, Locations
<1>1. ASSUME NEW t \in Threads, NEW h \in Handles, Construct(t, h) PROVE Located'
  BY <1>1 DEF Construct
<1>2. ASSUME NEW t \in Threads, Beginning(t) PROVE Located'
  BY <1>2 DEF Beginning, Begin, CopyConstruct, CopyAssign, MoveConstruct, MoveAssign, Destroy,
              Exclusive, Active
<1>3. ASSUME NEW t \in Threads, ReleaseSub(t) \/ ReleaseDelete(t) \/ Read(t) PROVE Located'
  BY <1>3 DEF ReleaseSub, ReleaseDelete, Read, Continue
<1>4. ASSUME NEW t \in Threads, ReleaseNull(t) \/ Add(t) \/ Steal(t) PROVE Located'
  BY <1>4 DEF ReleaseNull, Add, Steal, Continue, End
<1>5. CASE UNCHANGED vars
  BY <1>5 DEF vars
<1>. QED BY <1>1, <1>2, <1>3, <1>4, <1>5, Steps DEF Inner

LEMMA ApartStep ==
    ASSUME Typed, Located, Apart, [Next]_vars
    PROVE  Apart'
<1>. USE ArcStringAssumption DEF Typed, Located, Apart, Locations
<1>1. ASSUME NEW t \in Threads, NEW h \in Handles, Construct(t, h) PROVE Apart'
  BY <1>1 DEF Construct
<1>2. ASSUME NEW t \in Threads, Beginning(t) PROVE Apart'
  BY <1>2 DEF Beginning, Begin, CopyConstruct, CopyAssign, MoveConstruct, MoveAssign, Destroy,
              Exclusive, Shared, Active
<1>3. ASSUME NEW t \in Threads, ReleaseSub(t) \/ ReleaseDelete(t) \/ Read(t) PROVE Apart'
  BY <1>3 DEF ReleaseSub, ReleaseDelete, Read, Continue
<1>4. ASSUME NEW t \in Threads, ReleaseNull(t) \/ Add(t) \/ Steal(t) PROVE Apart'
  BY <1>4 DEF ReleaseNull, Add, Steal, Continue, End
<1>5. CASE UNCHANGED vars
  BY <1>5 DEF vars
<1>. QED BY <1>1, <1>2, <1>3, <1>4, <1>5, Steps DEF Inner

LEMMA BorrowedStep ==
    ASSUME Typed, Located, Apart, Borrowed, [Next]_vars
    PROVE  Borrowed'
<1>. USE ArcStringAssumption DEF Typed, Located, Apart, Borrowed, Locations
<1>1. ASSUME NEW t \in Threads, NEW h \in Handles, Construct(t, h) PROVE Borrowed'
  BY <1>1 DEF Construct, Exclusive, Active
<1>2. ASSUME NEW t \in Threads, Beginning(t) PROVE Borrowed'
  BY <1>2 DEF Beginning, Begin, CopyConstruct, CopyAssign, MoveConstruct, MoveAssign, Destroy,
              Exclusive, Shared, Active
<1>3. ASSUME NEW t \in Threads, ReleaseSub(t) \/ ReleaseDelete(t) \/ Read(t) PROVE Borrowed'
  BY <1>3 DEF ReleaseSub, ReleaseDelete, Read, Continue
<1>4. ASSUME NEW t \in Threads, ReleaseNull(t) \/ Add(t) \/ Steal(t) PROVE Borrowed'
  BY <1>4 DEF ReleaseNull, Add, Steal, Continue, End
<1>5. CASE UNCHANGED vars
  BY <1>5 DEF vars
<1>. QED BY <1>1, <1>2, <1>3, <1>4, <1>5, Steps DEF Inner

-----------------------------------------------------------------------------
(* Counting.                                                               *)

Holders(r) == {h \in Handles : rep[h] = r /\ Counted(h)}

LEMMA HoldersAreFinite ==
    ASSUME NEW r
    PROVE  /\ IsFiniteSet(Holders(r))
           /\ Cardinality(Holders(r)) \in Nat
           /\ Cardinality(Holders(r)) = 0 <=> Holders(r) = {}
           /\ Cardinality(Holders(r)) <= Cardinality(Handles)
<1>1. IsFiniteSet(Holders(r)) /\ Cardinality(Holders(r)) <= Cardinality(Handles)
  BY ArcStringAssumption, FS_Subset DEF Holders
<1>. QED BY <1>1, FS_CardinalityType, FS_EmptySet

(* The count in the words of this module: in particular it is zero exactly *)
(* when nobody holds the block.                                            *)
LEMMA Count ==
    ASSUME CountsHandles, NEW r \in Reps
    PROVE  /\ refCnt[r] = Cardinality(Holders(r))
           /\ refCnt[r] \in Nat
           /\ refCnt[r] = 0 <=> Holders(r) = {}
<1>. QED BY HoldersAreFinite DEF CountsHandles, Holders

(* One handle begins to be counted.                                        *)
LEMMA OneMore ==
    ASSUME NEW r, NEW h, h \notin Holders(r), Holders(r)' = Holders(r) \cup {h}
    PROVE  Cardinality(Holders(r)') = Cardinality(Holders(r)) + 1
<1>. QED BY HoldersAreFinite, FS_AddElement

(* One handle is no longer counted.                                        *)
LEMMA OneLess ==
    ASSUME NEW r, NEW h \in Holders(r), Holders(r)' = Holders(r) \ {h}
    PROVE  Cardinality(Holders(r)') = Cardinality(Holders(r)) - 1
<1>. QED BY HoldersAreFinite, FS_RemoveElement

(* One handle hands its reference to another one.                          *)
LEMMA HandedOver ==
    ASSUME NEW r, NEW from \in Holders(r), NEW h, h \notin Holders(r),
           Holders(r)' = (Holders(r) \ {from}) \cup {h}
    PROVE  Cardinality(Holders(r)') = Cardinality(Holders(r))
<1>1. IsFiniteSet(Holders(r) \ {from})
      /\ Cardinality(Holders(r) \ {from}) = Cardinality(Holders(r)) - 1
  BY HoldersAreFinite, FS_RemoveElement
<1>2. Cardinality(Holders(r)') = Cardinality(Holders(r) \ {from}) + 1
  BY <1>1, FS_AddElement
<1>. QED BY <1>1, <1>2, HoldersAreFinite

(* A step that changes neither the counts nor the sets they count.         *)
LEMMA QuietCount ==
    ASSUME CountsHandles, UNCHANGED refCnt, \A r \in Reps : Holders(r)' = Holders(r)
    PROVE  CountsHandles'
<1>. QED BY DEF CountsHandles, Holders

(* A step after which one count is right and the others are untouched.     *)
LEMMA CountOf ==
    ASSUME CountsHandles, NEW r \in Reps,
           refCnt'[r] = Cardinality(Holders(r)'),
           \A q \in Reps \ {r} : refCnt'[q] = refCnt[q] /\ Holders(q)' = Holders(q)
    PROVE  CountsHandles'
<1>. QED BY DEF CountsHandles, Holders

(* The thread in release() is counted until its fetch_sub, and the         *)
(* right-hand side of a copy or move until the end of it.                  *)
LEMMA CountedNow ==
    ASSUME Typed, Located, Apart, Borrowed, NEW t \in Threads
    PROVE  /\ pc[t] = "release" => dst[t] \in Holders(rep[dst[t]])
           /\ pc[t] \in {"read", "steal", "add"} /\ src[t] # dst[t] =>
                 src[t] \in Holders(rep[src[t]])
<1>. QED BY ArcStringAssumption DEF Typed, Located, Apart, Borrowed, Holders, Counted, Locations

LEMMA CountStep ==
    ASSUME IInv, [Next]_vars
    PROVE  CountsHandles'
<1>. USE ArcStringAssumption DEF IInv, Typed, Located, Locations
<1>1. ASSUME NEW t \in Threads, NEW h \in Handles, Construct(t, h) PROVE CountsHandles'
  <2>1. PICK r \in Reps : /\ block[r] = "raw"
                          /\ refCnt' = [refCnt EXCEPT ![r] = 1]
                          /\ rep' = [rep EXCEPT ![h] = r]
    BY <1>1 DEF Construct
  <2>2. h \notin life /\ UNCHANGED <<pc, dst>> /\ rep[h] = Null
        /\ \A u \in Threads : dst[u] # h
    BY <1>1 DEF Construct, Exclusive, Active, Borrowed
  <2>3. Holders(r) = {} /\ Holders(r)' = {h}
    BY <2>1, <2>2 DEF Holders, Counted, Allocated
  <2>4. Cardinality(Holders(r)') = 1
    BY <2>3, FS_Singleton
  <2>5. \A q \in Reps \ {r} : Holders(q)' = Holders(q)
    BY <2>1, <2>2 DEF Holders, Counted
  <2>. QED BY <2>1, <2>4, <2>5, CountOf
<1>2. ASSUME NEW t \in Threads, Beginning(t) PROVE CountsHandles'
  <2>1. UNCHANGED refCnt /\ \A r \in Reps : Holders(r)' = Holders(r)
    BY <1>2 DEF Beginning, Begin, CopyConstruct, CopyAssign, MoveConstruct, MoveAssign, Destroy,
                Exclusive, Active, Holders, Counted
  <2>. QED BY <2>1, QuietCount
<1>3. ASSUME NEW t \in Threads, ReleaseSub(t) PROVE CountsHandles'
  <2>1. PICK h \in Handles, r \in Reps \cup {Null} : h = dst[t] /\ r = rep[h]
    BY <1>3 DEF ReleaseSub
  <2>2. pc[t] = "release" /\ UNCHANGED <<rep, dst>>
        /\ pc' \in {[pc EXCEPT ![t] = "null"], [pc EXCEPT ![t] = "delete"]}
    BY <1>3 DEF ReleaseSub, Continue
  <2>3. \A q \in Reps \ {r} : Holders(q)' = Holders(q)
    BY <2>1, <2>2 DEF Holders, Counted
  <2>4. CASE r = Null
    BY <1>3, <2>1, <2>3, <2>4, QuietCount DEF ReleaseSub
  <2>5. CASE r # Null
    <3>1. refCnt' = [refCnt EXCEPT ![r] = @ - 1]
      BY <1>3, <2>1, <2>5 DEF ReleaseSub
    <3>2. h \in Holders(r)
      BY <2>1, <2>2, CountedNow
    <3>3. Holders(r)' = Holders(r) \ {h}
      BY <2>1, <2>2 DEF Holders, Counted, Apart
    <3>4. refCnt'[r] = Cardinality(Holders(r)')
      BY <2>5, <3>1, <3>2, <3>3, OneLess, Count
    <3>. QED BY <2>3, <2>5, <3>1, <3>4, CountOf
  <2>. QED BY <2>4, <2>5
<1>4. ASSUME NEW t \in Threads, ReleaseDelete(t) PROVE CountsHandles'
  <2>1. UNCHANGED refCnt /\ \A r \in Reps : Holders(r)' = Holders(r)
    BY <1>4 DEF ReleaseDelete, Continue, Holders, Counted
  <2>. QED BY <2>1, QuietCount
<1>5. ASSUME NEW t \in Threads, ReleaseNull(t) PROVE CountsHandles'
  <2>1. rep' = [rep EXCEPT ![dst[t]] = Null] /\ UNCHANGED refCnt /\ pc[t] = "null"
        /\ (\A u \in Threads \ {t} : pc'[u] = pc[u] /\ dst'[u] = dst[u])
        /\ dst'[t] \in {Null, dst[t]}
    BY <1>5 DEF ReleaseNull, Continue, End
  <2>2. \A r \in Reps : Holders(r)' = Holders(r)
    BY <2>1 DEF Holders, Counted
  <2>. QED BY <2>1, <2>2, QuietCount
<1>6. ASSUME NEW t \in Threads, Read(t) PROVE CountsHandles'
  <2>1. UNCHANGED refCnt /\ \A r \in Reps : Holders(r)' = Holders(r)
    BY <1>6 DEF Read, Continue, Holders, Counted, Borrowed
  <2>. QED BY <2>1, QuietCount
<1>7. ASSUME NEW t \in Threads, Add(t) PROVE CountsHandles'
  <2>1. PICK h \in Handles, r \in Reps : h = dst[t] /\ r = rep[h]
    BY <1>7 DEF Add
  <2>2. pc[t] = "add" /\ UNCHANGED rep /\ refCnt' = [refCnt EXCEPT ![r] = @ + 1]
        /\ pc' = [pc EXCEPT ![t] = "idle"] /\ dst' = [dst EXCEPT ![t] = Null]
    BY <1>7, <2>1 DEF Add, End
  <2>3. \A q \in Reps \ {r} : Holders(q)' = Holders(q)
    BY <2>1, <2>2 DEF Holders, Counted
  <2>4. h \notin Holders(r)
    BY <2>1, <2>2 DEF Holders, Counted
  <2>5. Holders(r)' = Holders(r) \cup {h}
    BY <2>1, <2>2 DEF Holders, Counted, Apart
  <2>6. refCnt'[r] = Cardinality(Holders(r)')
    BY <2>2, <2>4, <2>5, OneMore, Count
  <2>. QED BY <2>2, <2>3, <2>6, CountOf
<1>8. ASSUME NEW t \in Threads, Steal(t) PROVE CountsHandles'
  <2>1. PICK h \in Handles, from \in Handles, r \in Reps \cup {Null} :
          h = dst[t] /\ from = src[t] /\ r = rep[from]
    BY <1>8 DEF Steal
  <2>2. pc[t] = "steal" /\ UNCHANGED refCnt /\ rep[h] = Null
        /\ rep' = [rep EXCEPT ![h] = r, ![from] = Null]
        /\ pc' = [pc EXCEPT ![t] = "idle"] /\ dst' = [dst EXCEPT ![t] = Null]
    BY <1>8, <2>1 DEF Steal, End, Borrowed
  <2>3. \A q \in Reps \ {r} : Holders(q)' = Holders(q)
    BY <2>1, <2>2 DEF Holders, Counted
  <2>4. CASE r = Null
    BY <2>2, <2>3, <2>4, QuietCount
  <2>5. CASE r # Null
    <3>1. from # h
      BY <2>1, <2>2, <2>5
    <3>2. from \in Holders(r)
      BY <2>1, <2>2, <3>1, CountedNow
    <3>3. h \notin Holders(r)
      BY <2>2, <2>5 DEF Holders
    <3>4. Holders(r)' = (Holders(r) \ {from}) \cup {h}
      <4>1. Counted(h)' /\ \A k \in Handles \ {h} : Counted(k)' <=> Counted(k)
        BY <2>1, <2>2 DEF Counted, Apart
      <4>2. rep'[h] = r /\ rep'[from] = Null
            /\ \A k \in Handles \ {h, from} : rep'[k] = rep[k]
        BY <2>1, <2>2, <3>1
      <4>. QED BY <2>1, <2>5, <4>1, <4>2 DEF Holders
    <3>5. Cardinality(Holders(r)') = Cardinality(Holders(r))
      BY <3>2, <3>3, <3>4, HandedOver
    <3>. QED BY <2>2, <2>3, <2>5, <3>5, CountOf, Count
  <2>. QED BY <2>4, <2>5
<1>9. CASE UNCHANGED vars
  <2>1. UNCHANGED refCnt /\ \A r \in Reps : Holders(r)' = Holders(r)
    BY <1>9 DEF vars, Holders, Counted
  <2>. QED BY <2>1, QuietCount
<1>. QED BY <1>1, <1>2, <1>3, <1>4, <1>5, <1>6, <1>7, <1>8, <1>9, Steps DEF Inner

-----------------------------------------------------------------------------
(* Blocks.                                                                 *)

LEMMA AllocatedStep ==
    ASSUME IInv, [Next]_vars
    PROVE  Allocated'
<1>. USE ArcStringAssumption DEF IInv, Typed, Located, Allocated, Locations
<1>1. ASSUME NEW t \in Threads, NEW h \in Handles, Construct(t, h) PROVE Allocated'
  BY <1>1 DEF Construct
<1>2. ASSUME NEW t \in Threads, Beginning(t) PROVE Allocated'
  BY <1>2 DEF Beginning, Begin, CopyConstruct, CopyAssign, MoveConstruct, MoveAssign, Destroy
<1>3. ASSUME NEW t \in Threads, ReleaseSub(t) \/ ReleaseDelete(t) \/ Read(t) PROVE Allocated'
  BY <1>3 DEF ReleaseSub, ReleaseDelete, Read
<1>4. ASSUME NEW t \in Threads, ReleaseNull(t) \/ Add(t) \/ Steal(t) PROVE Allocated'
  BY <1>4 DEF ReleaseNull, Add, Steal
<1>5. CASE UNCHANGED vars
  BY <1>5 DEF vars
<1>. QED BY <1>1, <1>2, <1>3, <1>4, <1>5, Steps DEF Inner

(* The thread whose fetch_sub returned one finds no other handle counted;  *)
(* what is counted is not being deleted.                                   *)
LEMMA DeletingAlone ==
    ASSUME IInv, NEW t \in Threads, pc[t] = "delete", NEW h \in Handles \ {dst[t]},
           rep[h] = rep[dst[t]]
    PROVE  \E u \in Threads : dst[u] = h /\ pc[u] = "null"
<1>. USE ArcStringAssumption DEF IInv, Typed, Located, Locations
<1>. DEFINE r == rep[dst[t]]
<1>1. r \in Reps /\ Holders(r) = {}
  BY Count DEF Deleting
<1>2. PICK u \in Threads : dst[u] = h /\ pc[u] \in {"add", "delete", "null"}
  BY <1>1 DEF Holders, Counted
<1>3. pc[u] # "delete"
  BY <1>1, <1>2 DEF Deleting
<1>4. CASE pc[u] = "add"
  <2>1. src[u] # dst[u] /\ rep[src[u]] = r
    BY <1>1, <1>2, <1>4 DEF Borrowed
  <2>2. src[u] \in Holders(r)
    BY <1>4, <2>1, CountedNow
  <2>. QED BY <1>1, <2>2
<1>. QED BY <1>2, <1>3, <1>4

LEMMA NoDanglingStep ==
    ASSUME IInv, [Next]_vars
    PROVE  NoDangling'
<1>. USE ArcStringAssumption DEF IInv, Typed, Located, NoDangling, Locations
<1>1. ASSUME NEW t \in Threads, NEW h \in Handles, Construct(t, h) PROVE NoDangling'
  BY <1>1 DEF Construct
<1>2. ASSUME NEW t \in Threads, Beginning(t) PROVE NoDangling'
  BY <1>2 DEF Beginning, Begin, CopyConstruct, CopyAssign, MoveConstruct, MoveAssign, Destroy
<1>3. ASSUME NEW t \in Threads, ReleaseSub(t) PROVE NoDangling'
  BY <1>3 DEF ReleaseSub, Continue
<1>4. ASSUME NEW t \in Threads, ReleaseDelete(t) PROVE NoDangling'
  <2>1. pc[t] = "delete" /\ UNCHANGED <<rep, dst>>
        /\ block' = [block EXCEPT ![rep[dst[t]]] = "freed"]
        /\ pc' = [pc EXCEPT ![t] = "null"]
    BY <1>4 DEF ReleaseDelete, Continue
  <2>. QED BY <2>1, DeletingAlone
<1>5. ASSUME NEW t \in Threads, Read(t) PROVE NoDangling'
  BY <1>5 DEF Read, Continue, Borrowed, Apart
<1>6. ASSUME NEW t \in Threads, ReleaseNull(t) PROVE NoDangling'
  BY <1>6 DEF ReleaseNull, Continue, End
<1>7. ASSUME NEW t \in Threads, Add(t) PROVE NoDangling'
  BY <1>7 DEF Add, End
<1>8. ASSUME NEW t \in Threads, Steal(t) PROVE NoDangling'
  BY <1>8 DEF Steal, End, Borrowed, Apart
<1>9. CASE UNCHANGED vars
  BY <1>9 DEF vars
<1>. QED BY <1>1, <1>2, <1>3, <1>4, <1>5, <1>6, <1>7, <1>8, <1>9, Steps DEF Inner

LEMMA DeletingStep ==
    ASSUME IInv, [Next]_vars
    PROVE  Deleting'
<1>. USE ArcStringAssumption DEF IInv, Typed, Located, Deleting, Locations
<1>1. ASSUME NEW t \in Threads, NEW h \in Handles, Construct(t, h) PROVE Deleting'
  BY <1>1 DEF Construct, Allocated, Exclusive, Active
<1>2. ASSUME NEW t \in Threads, Beginning(t) PROVE Deleting'
  BY <1>2 DEF Beginning, Begin, CopyConstruct, CopyAssign, MoveConstruct, MoveAssign, Destroy
<1>3. ASSUME NEW t \in Threads, ReleaseSub(t) PROVE Deleting'
  <2>1. pc[t] = "release" /\ UNCHANGED <<rep, dst, block>>
    BY <1>3 DEF ReleaseSub, Continue
  <2>2. CASE rep[dst[t]] = Null
    BY <1>3, <2>1, <2>2 DEF ReleaseSub, Continue
  <2>3. CASE rep[dst[t]] # Null
    <3>1. refCnt' = [refCnt EXCEPT ![rep[dst[t]]] = @ - 1]
          /\ pc' = [pc EXCEPT ![t] = IF refCnt[rep[dst[t]]] = 1 THEN "delete" ELSE "null"]
      BY <1>3, <2>3 DEF ReleaseSub, Continue, LastHandle
    <3>2. refCnt[rep[dst[t]]] \in Nat \ {0}
      BY <2>1, <2>3, CountedNow, Count
    <3>. QED BY <2>1, <2>3, <3>1, <3>2
  <2>. QED BY <2>2, <2>3
<1>4. ASSUME NEW t \in Threads, ReleaseDelete(t) PROVE Deleting'
  BY <1>4 DEF ReleaseDelete, Continue
<1>5. ASSUME NEW t \in Threads, Read(t) PROVE Deleting'
  BY <1>5 DEF Read, Continue, Apart
<1>6. ASSUME NEW t \in Threads, ReleaseNull(t) PROVE Deleting'
  BY <1>6 DEF ReleaseNull, Continue, End, Apart
<1>7. ASSUME NEW t \in Threads, Add(t) PROVE Deleting'
  <2>1. pc[t] = "add" /\ rep[dst[t]] \in Reps /\ UNCHANGED <<rep, block>>
        /\ refCnt' = [refCnt EXCEPT ![rep[dst[t]]] = @ + 1]
        /\ pc' = [pc EXCEPT ![t] = "idle"] /\ dst' = [dst EXCEPT ![t] = Null]
    BY <1>7 DEF Add, End
  <2>2. refCnt[rep[dst[t]]] \in Nat \ {0}
    <3>1. src[t] # dst[t] /\ rep[src[t]] = rep[dst[t]]
      BY <2>1 DEF Borrowed
    <3>. QED BY <2>1, <3>1, CountedNow, Count
  <2>. QED BY <2>1, <2>2
<1>8. ASSUME NEW t \in Threads, Steal(t) PROVE Deleting'
  BY <1>8 DEF Steal, End, Apart
<1>9. CASE UNCHANGED vars
  BY <1>9 DEF vars
<1>. QED BY <1>1, <1>2, <1>3, <1>4, <1>5, <1>6, <1>7, <1>8, <1>9, Steps DEF Inner

-----------------------------------------------------------------------------
LEMMA InvInit ==
    ASSUME Init
    PROVE  IInv
<1>. USE ArcStringAssumption DEF Init
<1>1. Typed /\ Located /\ Apart /\ Borrowed /\ Deleting /\ Allocated /\ NoDangling
  BY DEF Typed, Located, Apart, Borrowed, Deleting, Allocated, NoDangling, Locations
<1>2. CountsHandles
  <2>1. \A r \in Reps : {h \in Handles : rep[h] = r /\ Counted(h)} = {}
    OBVIOUS
  <2>. QED BY <2>1, FS_EmptySet DEF CountsHandles
<1>. QED BY <1>1, <1>2 DEF IInv

LEMMA InvStep ==
    ASSUME IInv, [Next]_vars
    PROVE  IInv'
<1>1. Typed' /\ Located' /\ Apart' /\ Borrowed'
  BY TypedStep, LocatedStep, ApartStep, BorrowedStep DEF IInv
<1>. QED BY <1>1, DeletingStep, AllocatedStep, NoDanglingStep, CountStep DEF IInv

LEMMA Inductive == Spec => []IInv
<1>. QED BY InvInit, InvStep, PTL DEF Spec

(* The type invariant: the count stays between zero and the number of      *)
(* handles, which is a consequence of what it counts.                      *)
THEOREM TypeCorrect == Spec => []TypeOK
<1>1. IInv => TypeOK
  <2>. SUFFICES ASSUME IInv PROVE TypeOK
    OBVIOUS
  <2>1. Cardinality(Handles) \in Nat
    BY ArcStringAssumption, FS_CardinalityType
  <2>2. \A r \in Reps : refCnt[r] \in 0 .. Cardinality(Handles)
    BY <2>1, Count, HoldersAreFinite DEF IInv
  <2>. QED BY <2>2 DEF IInv, Typed, TypeOK
<1>. QED BY <1>1, Inductive, PTL

(* The reference count of a message is the number of handles that hold it, *)
(* however the copies, moves, assignments and destructors of any number of *)
(* threads interleave (error.cpp:18-75).                                   *)
THEOREM CountIsOfHandles == Spec => []CountsHandles
<1>. QED BY Inductive, PTL DEF IInv

(* No handle refers to a message that was deleted (error.cpp:18-75): a     *)
(* copy that has read the pointer and not yet counted is protected by the  *)
(* handle it copies from.                                                  *)
THEOREM HandlesDoNotDangle == Spec => []NoDangling
<1>. QED BY Inductive, PTL DEF IInv

(* A message whose count has come down to zero is being deleted by exactly *)
(* one thread, the one whose fetch_sub returned one (error.cpp:70).        *)
THEOREM LastHandleDeletes == Spec => []LastOneDeletes
<1>1. IInv => LastOneDeletes
  <2>. SUFFICES ASSUME IInv, NEW r \in Reps, block[r] = "live", refCnt[r] = 0
                PROVE  Cardinality({t \in Threads : pc[t] = "delete" /\ rep[dst[t]] = r}) = 1
    BY DEF LastOneDeletes
  <2>1. PICK t \in Threads : {u \in Threads : pc[u] = "delete" /\ rep[dst[u]] = r} = {t}
    BY DEF IInv, Deleting
  <2>. QED BY <2>1, FS_Singleton
<1>. QED BY <1>1, Inductive, PTL

-----------------------------------------------------------------------------
(* Without moves and self-assignments a handle keeps a message until it is *)
(* destroyed: what a copy reads is there, and stays until the copy counts. *)
Full ==
    /\ \A t \in Threads :
          /\ after[t] # "steal"
          /\ src[t] # Null => src[t] # dst[t] /\ src[t] \in life /\ rep[src[t]] # Null
          /\ pc[t] \in {"release", "delete", "null"} /\ after[t] = "idle" => dst[t] \notin life
    /\ \A h \in life : (\A t \in Threads : dst[t] # h) => rep[h] # Null

LEMMA FullStep ==
    ASSUME ~Moves, ~SelfAssign, IInv, Full, [Next]_vars
    PROVE  Full'
<1>. USE ArcStringAssumption DEF IInv, Typed, Located, Full, Locations
<1>1. ASSUME NEW t \in Threads, NEW h \in Handles, Construct(t, h) PROVE Full'
  BY <1>1 DEF Construct, Exclusive, Active
<1>2. ASSUME NEW t \in Threads, Beginning(t) PROVE Full'
  BY <1>2 DEF Beginning, Begin, CopyConstruct, CopyAssign, MoveConstruct, MoveAssign, Destroy,
              Exclusive, Shared, Active
<1>3. ASSUME NEW t \in Threads, ReleaseSub(t) \/ ReleaseDelete(t) PROVE Full'
  BY <1>3 DEF ReleaseSub, ReleaseDelete, Continue
<1>4. ASSUME NEW t \in Threads, ReleaseNull(t) PROVE Full'
  BY <1>4 DEF ReleaseNull, Continue, End, Apart
<1>5. ASSUME NEW t \in Threads, Read(t) PROVE Full'
  BY <1>5 DEF Read, Continue, Apart
<1>6. ASSUME NEW t \in Threads, Add(t) \/ Steal(t) PROVE Full'
  BY <1>6 DEF Add, Steal, End
<1>7. CASE UNCHANGED vars
  BY <1>7 DEF vars
<1>. QED BY <1>1, <1>2, <1>3, <1>4, <1>5, <1>6, <1>7, Steps DEF Inner

(* The comment of error.hpp:75 is true of RuntimeError, which has no       *)
(* moves, in every interleaving, if no handle is assigned to itself: the   *)
(* self-assignment that the run arc_self finds is the only way to an empty *)
(* message.                                                                *)
THEOREM NeverEmptyUnlessSelfAssigned ==
    ASSUME ~SelfAssign
    PROVE  Spec => []NeverEmpty
<1>1. CASE Moves
  <2>1. NeverEmpty
    BY <1>1 DEF NeverEmpty
  <2>. QED BY <2>1, PTL
<1>2. CASE ~Moves
  <2>1. Init => Full
    BY ArcStringAssumption DEF Init, Full
  <2>2. Full /\ IInv /\ [Next]_vars => Full'
    BY <1>2, FullStep
  <2>3. Full /\ IInv => NeverEmpty
    BY ArcStringAssumption
    DEF Full, NeverEmpty, IInv, Typed, Located, Borrowed, Exclusive, Active
  <2>. QED BY <2>1, <2>2, <2>3, Inductive, PTL DEF Spec
<1>. QED BY <1>1, <1>2

=============================================================================
