-------------------------- MODULE BinaryFileStream --------------------------
(***************************************************************************)
(* The life cycle of clst::BinaryFileStream: objects that open, close,     *)
(* move and destroy an owned FILE, and remember the size that it had when  *)
(* it was opened.  What is read and written is in BinaryStream.            *)
(***************************************************************************)
EXTENDS Integers, FiniteSets

CONSTANTS
    Streams,        \* the variables of type BinaryFileStream of a program
    Files,          \* the FILE objects of stdio
    Sizes,          \* the sizes that files have
    Null,           \* fp_ without a file
    Closed,         \* a FILE that is not open
    Absent,         \* a variable that is not constructed
    ReuseMoved      \* whether an object whose file was moved out is opened again

VARIABLES
    stream,     \* the members of each object: fp_ and file_size_
    file        \* for each FILE: Closed, or its size as far as it could be
                \* determined when it was opened (-1: not asked, or not known)

vars == <<stream, file>>

Modes == {"Read", "Write", "Append", "ReadExtended", "WriteExtended", "AppendExtended"}
Readable == {"Read", "ReadExtended"}

Alive(s) == stream[s] # Absent
IsOpen(s) == Alive(s) /\ stream[s].fp # Null

Fresh == [fp |-> Null, size |-> -1]

Init ==
    /\ stream = [s \in Streams |-> Absent]
    /\ file = [f \in Files |-> Closed]

(* fclose(), where there is something to close.                            *)
Fclose(fp) == IF fp = Null THEN file ELSE [file EXCEPT ![fp] = Closed]

Construct(s) ==
    /\ ~Alive(s)
    /\ stream' = [stream EXCEPT ![s] = Fresh]
    /\ UNCHANGED file

(* The destructor closes whatever the object still owns.                   *)
Destroy(s) ==
    /\ Alive(s)
    /\ file' = Fclose(stream[s].fp)
    /\ stream' = [stream EXCEPT ![s] = Absent]

(* Only fp_ is taken out of rhs: its file_size_ stays as it was.           *)
MovedFrom(rhs) == [stream[rhs] EXCEPT !.fp = Null]

(* MUTANT of MoveConstruct: file_size_ is not among the initializers.      *)
MoveConstructUnsized(s, rhs) ==
    /\ ~Alive(s) /\ Alive(rhs)
    /\ stream' = [stream EXCEPT ![s] = [Fresh EXCEPT !.fp = stream[rhs].fp], ![rhs] = MovedFrom(rhs)]
    /\ UNCHANGED file

MoveConstruct(s, rhs) ==
    /\ ~Alive(s) /\ Alive(rhs)
    /\ stream' = [stream EXCEPT ![s] = stream[rhs], ![rhs] = MovedFrom(rhs)]
    /\ UNCHANGED file

(* MUTANT of MoveAssign: the file that the object owned is forgotten.      *)
MoveAssignOver(s, rhs) ==
    /\ Alive(s) /\ Alive(rhs)
    /\ stream' = [[stream EXCEPT ![s] = stream[rhs]] EXCEPT ![rhs].fp = Null]
    /\ UNCHANGED file

(* close(), then the members of rhs; if rhs is the object itself, they are *)
(* those that close() has left.                                            *)
MoveAssign(s, rhs) ==
    /\ Alive(s) /\ Alive(rhs)
    /\ LET source == IF rhs = s /\ IsOpen(s) THEN Fresh ELSE stream[rhs] IN
        stream' = [[stream EXCEPT ![s] = source] EXCEPT ![rhs].fp = Null]
    /\ file' = Fclose(stream[s].fp)

(* Determining the size of a file that was just opened for reading: the    *)
(* members that open() leaves, and the size it found.  A seek to the end   *)
(* may fail (then file_size_ is not touched), and so may the tell.         *)
Measured(s, f) ==
    {<<[fp |-> f, size |-> stream[s].size], -1>>, <<[fp |-> f, size |-> -1], -1>>}
        \cup {<<[fp |-> f, size |-> n], n>> : n \in Sizes}

(* open() of an object that has no file, when fopen() succeeds; in every   *)
(* other case it returns false with nothing changed.  It returns false     *)
(* also when the size remains unknown, and the file is then open.          *)
Open(s, f, mode) ==
    /\ Alive(s) /\ ~IsOpen(s)
    /\ ReuseMoved \/ stream[s].size = -1
    /\ file[f] = Closed
    /\ \E after \in IF mode \in Readable THEN Measured(s, f)
                    ELSE {<<[stream[s] EXCEPT !.fp = f], -1>>} :
        /\ stream' = [stream EXCEPT ![s] = after[1]]
        /\ file' = [file EXCEPT ![f] = after[2]]

(* close() without a file returns false and changes nothing.               *)
Close(s) ==
    /\ IsOpen(s)
    /\ file' = Fclose(stream[s].fp)
    /\ stream' = [stream EXCEPT ![s] = Fresh]

Next ==
    \E s \in Streams :
        \/ Construct(s) \/ Destroy(s) \/ Close(s)
        \/ \E rhs \in Streams : MoveConstruct(s, rhs) \/ MoveAssign(s, rhs)
        \/ \E f \in Files, mode \in Modes : Open(s, f, mode)

Spec == Init /\ [][Next]_vars

-----------------------------------------------------------------------------
(* However objects are moved, assigned to themselves, closed and           *)
(* destroyed, and also when open() has failed half way: an open FILE has   *)
(* exactly one owner (none is leaked, none is closed by two destructors),  *)
(* and what an object owns is open.                                        *)
OneFileOneOwner ==
    \A f \in Files :
        Cardinality({s \in Streams : Alive(s) /\ stream[s].fp = f})
            = IF file[f] = Closed THEN 0 ELSE 1

(* get_length() of an open stream is about the file it owns now, not about *)
(* one that it, or the object it was moved from, had before.               *)
LengthIsOfThisFile ==
    \A s \in Streams : IsOpen(s) => stream[s].size = file[stream[s].fp]

=============================================================================
