-------------------------------- MODULE Dso --------------------------------
(***************************************************************************)
(* clst::Dso: objects that own a reference to a dynamic library, counted   *)
(* by the loader.                                                          *)
(***************************************************************************)
EXTENDS Integers, FiniteSets

CONSTANTS
    Dsos,           \* the variables of type Dso of a program
    Libraries,      \* what dlopen() returns: one handle for each library
    Null,           \* handle_ without a library
    Absent,         \* a variable that is not constructed
    CloseOpen,      \* whether close() is called while a library is open
    MaxRefs         \* bound on the references to one library

VARIABLES
    handle,     \* handle_ of each object
    refs        \* the loader's count: dlopen() adds one, dlclose() takes one

vars == <<handle, refs>>

Alive(d) == handle[d] # Absent
IsOpen(d) == Alive(d) /\ handle[d] # Null

Init ==
    /\ handle = [d \in Dsos |-> Absent]
    /\ refs = [l \in Libraries |-> 0]

(* dlopen(), which may fail and return null.                               *)
LoadDso(d) ==
    \/ handle' = [handle EXCEPT ![d] = Null] /\ UNCHANGED refs
    \/ \E l \in Libraries :
        /\ refs[l] < MaxRefs
        /\ handle' = [handle EXCEPT ![d] = l]
        /\ refs' = [refs EXCEPT ![l] = @ + 1]

(* close() as a part of other members: dlclose(handle_) if there is one.   *)
GivenBack(d) == IF IsOpen(d) THEN [refs EXCEPT ![handle[d]] = @ - 1] ELSE refs

(* Dso() is the case of a null handle.                                     *)
Construct(d) == ~Alive(d) /\ LoadDso(d)

Destroy(d) ==
    /\ Alive(d)
    /\ refs' = GivenBack(d)
    /\ handle' = [handle EXCEPT ![d] = Absent]

MoveConstruct(d, rhs) ==
    /\ ~Alive(d) /\ Alive(rhs)
    /\ handle' = [handle EXCEPT ![d] = handle[rhs], ![rhs] = Null]
    /\ UNCHANGED refs

(* MUTANT of MoveAssign: the library of the object is not given back.      *)
MoveAssignOver(d, rhs) ==
    /\ Alive(d) /\ Alive(rhs)
    /\ handle' = [handle EXCEPT ![d] = handle[rhs], ![rhs] = Null]
    /\ UNCHANGED refs

(* Onto itself it closes the library, and ends with a null handle.         *)
MoveAssign(d, rhs) ==
    /\ Alive(d) /\ Alive(rhs)
    /\ refs' = GivenBack(d)
    /\ handle' = [handle EXCEPT ![d] = handle[rhs], ![rhs] = Null]

(* open() of an object with a handle returns false and changes nothing.    *)
Open(d) == Alive(d) /\ ~IsOpen(d) /\ LoadDso(d)

(* close() called by a client: handle_ keeps its value.                    *)
Close(d) ==
    /\ CloseOpen /\ IsOpen(d)
    /\ refs[handle[d]] > -MaxRefs
    /\ refs' = GivenBack(d)
    /\ UNCHANGED handle

Next ==
    \E d \in Dsos :
        \/ Construct(d) \/ Destroy(d) \/ Open(d) \/ Close(d)
        \/ \E rhs \in Dsos : MoveConstruct(d, rhs) \/ MoveAssign(d, rhs)

Spec == Init /\ [][Next]_vars

-----------------------------------------------------------------------------
(* A library stays loaded exactly as long as some object holds it: over    *)
(* all moves and self-assignments the loader's count is the number of      *)
(* objects with its handle.                                                *)
LoadedWhileHeld ==
    \A l \in Libraries : refs[l] = Cardinality({d \in Dsos : handle[d] = l})

(* "Can't copy ourselves." (dso.hpp:11): a handle has a single owner, so   *)
(* that each dlopen() is matched by one dlclose() at most, and no library  *)
(* is closed that is not open any more.                                    *)
ClosedOnce == \A l \in Libraries : refs[l] >= 0

=============================================================================
