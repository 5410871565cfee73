----------------------------- MODULE Utilities -----------------------------
(***************************************************************************)
(* The small parts of the library, which do not use each other, next to    *)
(* each other: each behaviour exercises one of them, the variables of the  *)
(* others rest.                                                            *)
(***************************************************************************)
EXTENDS Integers, FiniteSets

CONSTANTS
    Null, Absent, Closed, Pending, NoValue, Unset,
    AddressSpace, Alignments, MaxBlocks,                    \* Arena
    Streams, Files, FileSizes,                              \* BinaryFileStream
    MaxLen, Chunk,                                          \* BinaryStream
    Base, MaxSize,                                          \* StreamNumbers
    Dsos, Libraries, MaxRefs,                               \* Dso
    TypeSizes, IntSize,                                     \* NumCast
    Threads, Dirs, Settings, Homes, UserEntries, Trees,     \* SysDirs
    Rests                                                   \* no value: another part is exercised

VARIABLES
    part,                       \* the part that is exercised
    begin, cur, end, blocks,    \* Arena
    owner, file,                \* BinaryFileStream
    stream, op,                 \* BinaryStream
    transfer, wire, dest,       \* StreamNumbers
    handle, refs,               \* Dso
    conversion, result,         \* NumCast
    point, code, decoded,       \* Morton
    env, tree, call             \* SysDirs

Arena == INSTANCE Arena

BinaryFileStream == INSTANCE BinaryFileStream WITH
    stream <- owner, Sizes <- FileSizes, ReuseMoved <- FALSE

BinaryStream == INSTANCE BinaryStream WITH None <- Null

StreamNumbers == INSTANCE StreamNumbers

Dso == INSTANCE Dso WITH CloseOpen <- FALSE

NumCast == INSTANCE NumCast WITH call <- conversion, Sizes <- TypeSizes

Morton == INSTANCE Morton

SysDirs == INSTANCE SysDirs WITH Kinds <- Dirs

(* What the parts assume of their constants: the code's preconditions, and *)
(* that the values standing for nothing are none of the others.            *)
ASSUME UtilitiesAssumption ==
    /\ Arena!ProperAlignments
    /\ Absent \notin [fp : Files \cup {Null}, size : Int]
    /\ Null \notin Files /\ FileSizes \subseteq Int /\ Closed \notin Int
    /\ IsFiniteSet(Dsos)
    /\ Null \notin Libraries /\ Absent \notin Libraries /\ Null # Absent
    /\ NumCast!ProperSizes
    /\ StreamNumbers!ProperBytes
    /\ BinaryStream!ProperBounds
    /\ SysDirs!ProperEnvironments

Parts == {"Arena", "BinaryFileStream", "BinaryStream", "StreamNumbers", "Dso", "NumCast",
          "Morton", "SysDirs"}

Init ==
    /\ part \in Parts
    /\ IF part = "Arena" THEN Arena!Init
       ELSE begin = Rests /\ cur = Rests /\ end = Rests /\ blocks = Rests
    /\ IF part = "BinaryFileStream" THEN BinaryFileStream!Init
       ELSE owner = Rests /\ file = Rests
    /\ IF part = "BinaryStream" THEN BinaryStream!Init
       ELSE stream = Rests /\ op = Rests
    /\ IF part = "StreamNumbers" THEN StreamNumbers!Init
       ELSE transfer = Rests /\ wire = Rests /\ dest = Rests
    /\ IF part = "Dso" THEN Dso!Init
       ELSE handle = Rests /\ refs = Rests
    /\ IF part = "NumCast" THEN NumCast!Init
       ELSE conversion = Rests /\ result = Rests
    /\ IF part = "Morton" THEN Morton!Init
       ELSE point = Rests /\ code = Rests /\ decoded = Rests
    /\ IF part = "SysDirs" THEN SysDirs!Init
       ELSE env = Rests /\ tree = Rests /\ call = Rests

Next ==
    /\ UNCHANGED part
    /\ IF part = "Arena" THEN Arena!Next ELSE UNCHANGED <<begin, cur, end, blocks>>
    /\ IF part = "BinaryFileStream" THEN BinaryFileStream!Next ELSE UNCHANGED <<owner, file>>
    /\ IF part = "BinaryStream" THEN BinaryStream!Next ELSE UNCHANGED <<stream, op>>
    /\ IF part = "StreamNumbers" THEN StreamNumbers!Next ELSE UNCHANGED <<transfer, wire, dest>>
    /\ IF part = "Dso" THEN Dso!Next ELSE UNCHANGED <<handle, refs>>
    /\ IF part = "NumCast" THEN NumCast!Next ELSE UNCHANGED <<conversion, result>>
    /\ IF part = "Morton" THEN Morton!Next ELSE UNCHANGED <<point, code, decoded>>
    /\ IF part = "SysDirs" THEN SysDirs!Next ELSE UNCHANGED <<env, tree, call>>

vars == <<part, begin, cur, end, blocks, owner, file, stream, op, transfer, wire, dest, handle,
          refs, conversion, result, point, code, decoded, env, tree, call>>

Spec == Init /\ [][Next]_vars

-----------------------------------------------------------------------------
(* The properties of the parts, each about the behaviours that exercise    *)
(* its part.                                                               *)

(* Pieces of an arena are aligned, inside it, and never overlap.           *)
BlocksAreApart == part = "Arena" => Arena!BlocksAreApart

(* An open FILE is owned by exactly one stream, through moves and failures *)
(* of open().                                                              *)
OneFileOneOwner == part = "BinaryFileStream" => BinaryFileStream!OneFileOneOwner

(* get_length() is about the file that the stream owns.                    *)
LengthIsOfThisFile == part = "BinaryFileStream" => BinaryFileStream!LengthIsOfThisFile

(* patch_bytes() changes what it was asked to change, and comes back.      *)
PatchInPlace == part = "BinaryStream" => BinaryStream!PatchInPlace

(* copy_from() copies a prefix, all of it if it returns.                   *)
CopyIsFaithful == part = "BinaryStream" => BinaryStream!CopyIsFaithful

(* A memory cursor stays within its block, and the block keeps its length. *)
CursorInBounds == [][part = "BinaryStream" => BinaryStream!CursorStaysInBounds]_vars

(* Numbers go through a stream between any two machines.                   *)
NumbersTravel == part = "StreamNumbers" => StreamNumbers!NumbersTravel

(* A library is loaded as long as a Dso holds it.                          *)
LoadedWhileHeld == part = "Dso" => Dso!LoadedWhileHeld

(* num_cast() returns the same number or nothing.                          *)
CastIsExact == part = "NumCast" => NumCast!CastIsExact

(* A Morton code interleaves its coordinates, and is decoded to them.      *)
CodeInterleaves == part = "Morton" => Morton!CodeInterleaves

(* A base directory exists when it is returned.                            *)
CreatedBeforeReturn == part = "SysDirs" => SysDirs!CreatedBeforeReturn

=============================================================================
