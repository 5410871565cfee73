--------------------------- MODULE StreamNumbers ---------------------------
(***************************************************************************)
(* WriteStream::write_num and ReadStream::read_num: a number goes through  *)
(* a stream from one machine to another, in a byte order that both sides   *)
(* name, and possibly in fewer bytes than its type has.                    *)
(***************************************************************************)
EXTENDS Integers, SequencesExt

CONSTANTS
    Base,           \* number of values of a byte
    MaxSize,        \* the largest sizeof(T)
    Pending         \* not written or read yet

(* A byte has more than one value.  The powers up to the widest type are   *)
(* spelled out for the proofs, whose provers do not know what ^ means.     *)
ProperBytes ==
    /\ Base \in Nat /\ Base > 1 /\ MaxSize \in Nat
    /\ Base ^ 0 = 1 /\ \A n \in 0 .. MaxSize - 1 : Base ^ (n + 1) = Base * Base ^ n
    /\ Pending # <<>>

VARIABLES
    transfer,   \* what is sent, as which type, in which form, between whom
    wire,       \* the bytes in the stream
    dest        \* the object representation of the number that was read

vars == <<transfer, wire, dest>>

Endians == {"LE", "BE"}

(* The byte of v that has weight Base^i.                                   *)
Digit(v, i) == (v \div Base ^ i) % Base

(* How a machine stores v in size bytes.                                   *)
Memory(v, size, target) ==
    [i \in 1 .. size |-> Digit(v, IF target = "LE" THEN i - 1 ELSE size - i)]

(* MUTANT of Offset: the low bytes come first on every machine.            *)
OffsetNone(target, size, bytes) == 0

(* Where the low bytes of an object begin.                                 *)
Offset(target, size, bytes) == IF target = "LE" THEN 0 ELSE size - bytes

(* std::reverse, where the order asked for is not that of the machine.     *)
Ordered(part, endian, target) == IF endian # target THEN Reverse(part) ELSE part

(* An unsigned number of size bytes is written in the low bytes of it, and *)
(* read into a type of readerSize bytes.  A signed one has all three equal.*)
Transfers ==
    {t \in [value : 0 .. Base ^ MaxSize - 1, size : 1 .. MaxSize, bytes : 1 .. MaxSize,
            readerSize : 1 .. MaxSize, endian : Endians, writer : Endians, reader : Endians] :
        t.value < Base ^ t.size /\ t.bytes <= t.size /\ t.bytes <= t.readerSize}

Init ==
    /\ transfer \in Transfers
    /\ wire = Pending
    /\ dest = [i \in 1 .. transfer.readerSize |-> Base - 1]

write_num ==
    /\ wire = Pending
    /\ LET offset == Offset(transfer.writer, transfer.size, transfer.bytes)
           src == Memory(transfer.value, transfer.size, transfer.writer)
       IN  wire' = Ordered(SubSeq(src, offset + 1, offset + transfer.bytes),
                           transfer.endian, transfer.writer)
    /\ UNCHANGED <<transfer, dest>>

(* dest = 0 if not all of its bytes are going to be read.                  *)
Cleared == IF transfer.bytes < transfer.readerSize THEN [i \in DOMAIN dest |-> 0] ELSE dest

read_num ==
    /\ wire \notin {Pending, <<>>}
    /\ LET offset == Offset(transfer.reader, transfer.readerSize, transfer.bytes)
           part == Ordered(wire, transfer.endian, transfer.reader)
       IN  dest' = [i \in DOMAIN dest |->
                        IF i - offset \in DOMAIN part THEN part[i - offset] ELSE Cleared[i]]
    /\ wire' = <<>>
    /\ UNCHANGED transfer

Next == write_num \/ read_num

Spec == Init /\ [][Next]_vars

-----------------------------------------------------------------------------
(* The bytes in the stream depend on the number and the order asked for    *)
(* only, not on the machine that writes them; whatever the machine that    *)
(* reads them, and whatever its destination held before, it obtains the    *)
(* number modulo what the bytes can hold.                                  *)
NumbersTravel ==
    LET t == transfer
        sent == t.value % Base ^ t.bytes
    IN  /\ wire \notin {Pending, <<>>} => wire = Memory(sent, t.bytes, t.endian)
        /\ wire = <<>> => dest = Memory(sent, t.readerSize, t.reader)

=============================================================================
