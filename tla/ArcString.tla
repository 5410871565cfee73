----------------------------- MODULE ArcString ------------------------------
(***************************************************************************)
(* clst::detail::ArcString (clst/clst/error.hpp, clst/error.cpp): handles  *)
(* to an immutable string with an atomic reference count, the message of a *)
(* RuntimeError.  Exceptions are copied and destroyed by whichever thread  *)
(* handles them, so threads work on the same count at the same time; one   *)
(* handle is used by one thread at a time, except that several may copy    *)
(* from it.  Each atomic operation, and each access to rep_ between two of *)
(* them, is a step.                                                        *)
(***************************************************************************)
EXTENDS Integers, FiniteSets

CONSTANTS
    Threads,
    Handles,    \* the ArcString objects
    Reps,       \* BOUND: the control blocks ever allocated
    Null,       \* the null pointer
    Moves,      \* handles are moved from (RuntimeError deletes its moves)
    SelfAssign  \* handles are assigned to themselves

ASSUME ArcStringAssumption ==
    /\ IsFiniteSet(Threads) /\ IsFiniteSet(Handles)
    /\ Null \notin Reps \cup Handles
    /\ Moves \in BOOLEAN /\ SelfAssign \in BOOLEAN

VARIABLES
    life,   \* the handles whose lifetime has begun
    rep,    \* rep_ of each handle
    block,  \* "raw", "live" or "freed", for each control block
    refCnt, \* ref_cnt of each control block
    pc,     \* where each thread is
    dst,    \* the handle it works on
    src,    \* the handle it copies or moves from
    after   \* where an assignment goes on after its release()

vars == <<life, rep, block, refCnt, pc, dst, src, after>>

Locations == {"idle", "release", "delete", "null", "read", "add", "steal"}

Init ==
    /\ life = {}
    /\ rep = [h \in Handles |-> Null]
    /\ block = [r \in Reps |-> "raw"]
    /\ refCnt = [r \in Reps |-> 0]
    /\ pc = [t \in Threads |-> "idle"]
    /\ dst = [t \in Threads |-> Null]
    /\ src = [t \in Threads |-> Null]
    /\ after = [t \in Threads |-> "idle"]

(* The caller's duty: nobody else uses the handle, or only to copy from it.*)
Active == {t \in Threads : pc[t] # "idle"}
Exclusive(h) == \A t \in Active : dst[t] # h /\ src[t] # h
Shared(h) ==
    /\ h \in life
    /\ \A t \in Active : dst[t] # h /\ ~(src[t] = h /\ after[t] = "steal")

Begin(t, location, h, from, then) ==
    /\ pc[t] = "idle"
    /\ Exclusive(h)
    /\ pc' = [pc EXCEPT ![t] = location]
    /\ after' = [after EXCEPT ![t] = then]
    /\ dst' = [dst EXCEPT ![t] = h]
    /\ src' = [src EXCEPT ![t] = from]
    /\ UNCHANGED <<rep, block, refCnt>>

Continue(t, location) ==
    pc' = [pc EXCEPT ![t] = location] /\ UNCHANGED <<dst, src, after>>

(* The operation ends.                                                     *)
End(t) ==
    /\ pc' = [pc EXCEPT ![t] = "idle"]
    /\ dst' = [dst EXCEPT ![t] = Null]
    /\ src' = [src EXCEPT ![t] = Null]
    /\ after' = [after EXCEPT ![t] = "idle"]

-----------------------------------------------------------------------------
(* The operations, each a number of steps.                                 *)

Construct(t, h) ==
    /\ pc[t] = "idle" /\ h \notin life /\ Exclusive(h)
    /\ \E r \in Reps :
          /\ block[r] = "raw"
          /\ block' = [block EXCEPT ![r] = "live"]
          /\ refCnt' = [refCnt EXCEPT ![r] = 1]
          /\ rep' = [rep EXCEPT ![h] = r]
    /\ life' = life \cup {h}
    /\ UNCHANGED <<pc, dst, src, after>>

(* The copy is made of a handle that is not empty; as far as the module    *)
(* lets handles be moved from, that is a precondition.                     *)
CopyConstruct(t, h, from) ==
    /\ h \notin life /\ from # h /\ Shared(from) /\ rep[from] # Null
    /\ Begin(t, "read", h, from, "idle")
    /\ life' = life \cup {h}

CopyAssign(t, h, from) ==
    /\ h \in life /\ Shared(from) /\ rep[from] # Null
    /\ h = from => SelfAssign
    /\ Begin(t, "release", h, from, "read")
    /\ UNCHANGED life

MoveConstruct(t, h, from) ==
    /\ Moves
    /\ h \notin life /\ from # h /\ from \in life /\ Exclusive(from)
    /\ Begin(t, "steal", h, from, "steal")
    /\ life' = life \cup {h}

MoveAssign(t, h, from) ==
    /\ Moves
    /\ h \in life /\ from \in life /\ Exclusive(from)
    /\ Begin(t, "release", h, from, "steal")
    /\ UNCHANGED life

Destroy(t, h) ==
    /\ h \in life
    /\ Begin(t, "release", h, Null, "idle")
    /\ life' = life \ {h}

-----------------------------------------------------------------------------
(* MUTANTS of LastHandle: whoever brings the count to one deletes;         *)
(* nobody deletes, as the old count is never zero.                         *)
LastHandleTooEarly(old) == old <= 2
LastHandleNever(old) == old = 0

LastHandle(old) == old = 1

(* release(): fetch_sub(1) == 1 decides who deletes the block.             *)
ReleaseSub(t) ==
    /\ pc[t] = "release"
    /\ LET r == rep[dst[t]]
       IN  IF r = Null
           THEN Continue(t, "null") /\ UNCHANGED refCnt
           ELSE /\ refCnt' = [refCnt EXCEPT ![r] = @ - 1]
                /\ Continue(t, IF LastHandle(refCnt[r]) THEN "delete" ELSE "null")
    /\ UNCHANGED <<life, rep, block>>

ReleaseDelete(t) ==
    /\ pc[t] = "delete"
    /\ block' = [block EXCEPT ![rep[dst[t]]] = "freed"]
    /\ Continue(t, "null")
    /\ UNCHANGED <<life, rep, refCnt>>

(* rep_ = nullptr; then the assignment goes on, or the operation ends.     *)
ReleaseNull(t) ==
    /\ pc[t] = "null"
    /\ rep' = [rep EXCEPT ![dst[t]] = Null]
    /\ IF after[t] = "idle" THEN End(t) ELSE Continue(t, after[t])
    /\ UNCHANGED <<life, block, refCnt>>

(* rep_ = rhs.rep_                                                         *)
Read(t) ==
    /\ pc[t] = "read"
    /\ rep' = [rep EXCEPT ![dst[t]] = rep[src[t]]]
    /\ Continue(t, "add")
    /\ UNCHANGED <<life, block, refCnt>>

(* rep_->ref_cnt.fetch_add(1); undefined if rep_ is null.                  *)
Add(t) ==
    /\ pc[t] = "add" /\ rep[dst[t]] # Null
    /\ refCnt' = [refCnt EXCEPT ![rep[dst[t]]] = @ + 1]
    /\ End(t)
    /\ UNCHANGED <<life, rep, block>>

(* MUTANT of Steal: rhs keeps its pointer.                                 *)
StealCopying(t) ==
    /\ pc[t] = "steal"
    /\ rep' = [rep EXCEPT ![dst[t]] = rep[src[t]]]
    /\ End(t)
    /\ UNCHANGED <<life, block, refCnt>>

(* Move: rep_ = rhs.rep_, rhs.rep_ = nullptr.                              *)
Steal(t) ==
    /\ pc[t] = "steal"
    /\ rep' = [rep EXCEPT ![dst[t]] = rep[src[t]], ![src[t]] = Null]
    /\ End(t)
    /\ UNCHANGED <<life, block, refCnt>>

Next ==
    \E t \in Threads :
        \/ \E h \in Handles : Construct(t, h) \/ Destroy(t, h)
        \/ \E h, from \in Handles :
              \/ CopyConstruct(t, h, from) \/ CopyAssign(t, h, from)
              \/ MoveConstruct(t, h, from) \/ MoveAssign(t, h, from)
        \/ ReleaseSub(t) \/ ReleaseDelete(t) \/ ReleaseNull(t)
        \/ Read(t) \/ Add(t) \/ Steal(t)

Spec == Init /\ [][Next]_vars
-----------------------------------------------------------------------------
(* Properties                                                              *)

(* Types; a count never exceeds the number of handles, nor goes below 0.   *)
TypeOK ==
    /\ life \subseteq Handles
    /\ rep \in [Handles -> Reps \cup {Null}]
    /\ block \in [Reps -> {"raw", "live", "freed"}]
    /\ refCnt \in [Reps -> 0 .. Cardinality(Handles)]
    /\ pc \in [Threads -> Locations]
    /\ after \in [Threads -> {"idle", "read", "steal"}]
    /\ dst \in [Threads -> Handles \cup {Null}]
    /\ src \in [Threads -> Handles \cup {Null}]

(* The handles whose reference is counted: not yet by a copy before its    *)
(* fetch_add, and no more by a release() after its fetch_sub.              *)
Counted(h) == \A t \in Threads : dst[t] = h => pc[t] \notin {"add", "delete", "null"}

(* The count of a block is the number of handles that hold it, in every    *)
(* interleaving of copies, assignments and destructors.                    *)
CountsHandles ==
    \A r \in Reps : refCnt[r] = Cardinality({h \in Handles : rep[h] = r /\ Counted(h)})

(* No handle dangles, whether it is in use or at rest, and so no block is  *)
(* read, counted or deleted after it was freed.                            *)
NoDangling ==
    \A h \in Handles :
        rep[h] # Null /\ (\A t \in Threads : dst[t] = h => pc[t] # "null") =>
            block[rep[h]] = "live"

(* The last handle deletes: a block that nobody counts any more is being   *)
(* deleted, by exactly one thread.                                         *)
LastOneDeletes ==
    \A r \in Reps :
        block[r] = "live" /\ refCnt[r] = 0 =>
            Cardinality({t \in Threads : pc[t] = "delete" /\ rep[dst[t]] = r}) = 1

(* "Disable implicit move, to prevent empty ArcString." (error.hpp:75): a  *)
(* RuntimeError that is not being copied to or destroyed has its message,  *)
(* and a copy finds one to count.                                          *)
NeverEmpty ==
    ~Moves =>
        /\ \A h \in life : Exclusive(h) => rep[h] # Null
        /\ \A t \in Threads : pc[t] = "add" => rep[dst[t]] # Null

=============================================================================
