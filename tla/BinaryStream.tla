---------------------------- MODULE BinaryStream ----------------------------
(***************************************************************************)
(* The generic operations of clst::WriteStream, patch_bytes (patch_num is  *)
(* the same with encoded bytes) and copy_from, over the two streams of the *)
(* library: a memory cursor, which checks its bounds, and a file, which    *)
(* may fail at any call and half way through.  The bytes are never looked  *)
(* at by the code.  So when an operation begins, a stream holds bytes that *)
(* all differ, which tells where each one goes, whatever was done before.  *)
(***************************************************************************)
EXTENDS Integers, Sequences, FiniteSetsExt

CONSTANTS
    MaxLen,         \* bound on the length of a stream; beyond it the disk is full
    Chunk,          \* the size of the buffer of copy_from (4 MiB in the code)
    None

ProperBounds == MaxLen \in Nat /\ Chunk \in Nat \ {0}

VARIABLES
    stream,     \* the source "in" and the target "out": kind, bytes, position
    op          \* the generic operation in progress

vars == <<stream, op>>

Kinds == [in : {"cursor", "file", "closed"}, out : {"cursor", "file", "append", "closed"}]
Froms == {"Begin", "Current", "End"}

(* What a stream of length n holds, and what clients write to it.          *)
Content(s, n) == [i \in 1 .. n |-> i + (IF s = "in" THEN 10 ELSE 20)]
Renamed(s, st) == [st EXCEPT !.data = Content(s, Len(st.data))]
Patch(n) == [i \in 1 .. n |-> i + 30]

Init ==
    /\ \E kinds \in Kinds, lengths \in [{"in", "out"} -> 0 .. MaxLen] :
        stream = [s \in {"in", "out"} |->
                    [kind |-> kinds[s], data |-> Content(s, lengths[s]), pos |-> 0]]
    /\ op = [at |-> "idle"]

-----------------------------------------------------------------------------
(* The calls of a stream: the set of what may come of each.                *)

Outcome(st, thrown, bytes) == [stream |-> st, thrown |-> thrown, bytes |-> bytes]

(* MUTANT of CursorSeeks: SeekFrom::Current is not checked against len_.   *)
CursorSeeksUnchecked(st, offset, from) ==
    LET at == offset + (CASE from = "Begin" -> 0 [] from = "Current" -> st.pos
                          [] from = "End" -> Len(st.data))
    IN  IF at < 0 \/ (from # "Current" /\ at > Len(st.data)) THEN {Outcome(st, TRUE, <<>>)}
        ELSE {Outcome([st EXCEPT !.pos = at], FALSE, <<>>)}

CursorSeeks(st, offset, from) ==
    LET at == offset + (CASE from = "Begin" -> 0 [] from = "Current" -> st.pos
                          [] from = "End" -> Len(st.data))
    IN  IF at < 0 \/ at > Len(st.data) THEN {Outcome(st, TRUE, <<>>)}
        ELSE {Outcome([st EXCEPT !.pos = at], FALSE, <<>>)}

(* fseeko(): may go past the end, and may fail.                            *)
FileSeeks(st, offset, from) ==
    LET at == offset + (CASE from = "Begin" -> 0 [] from = "Current" -> st.pos
                          [] from = "End" -> Len(st.data))
    IN  {Outcome(st, TRUE, <<>>)}
            \cup {Outcome([st EXCEPT !.pos = p], FALSE, <<>>) : p \in {at} \cap 0 .. MaxLen}

Seeks(st, offset, from) ==
    IF st.kind = "cursor" THEN CursorSeeks(st, offset, from) ELSE FileSeeks(st, offset, from)

(* The position, which a file may fail to tell.                            *)
TellFails(st) == st.kind # "cursor"

Consumed(st, n) == Outcome([st EXCEPT !.pos = @ + n], FALSE, SubSeq(st.data, st.pos + 1, st.pos + n))

CursorReads(st, n) ==
    IF n > Len(st.data) - st.pos THEN {Outcome(st, TRUE, <<>>)} ELSE {Consumed(st, n)}

(* fread() of one item of n bytes: at the end of the file, and on an       *)
(* error, part of them have gone by, and the exception does not say how    *)
(* many.  Nothing is called for n = 0.                                     *)
FileReads(st, n) ==
    LET left == IF st.pos < Len(st.data) THEN Len(st.data) - st.pos ELSE 0 IN
    {Outcome([st EXCEPT !.pos = @ + k], TRUE, <<>>) : k \in {k \in 0 .. n - 1 : k <= left}}
        \cup (IF n <= left \/ n = 0 THEN {Consumed(st, n)} ELSE {})

Reads(st, n) == IF st.kind = "cursor" THEN CursorReads(st, n) ELSE FileReads(st, n)

(* The bytes from position at on are replaced, those missing before it are *)
(* zero.                                                                   *)
Stored(st, at, bytes) ==
    IF bytes = <<>> THEN st
    ELSE [st EXCEPT
            !.data = [i \in 1 .. Max({Len(st.data), at + Len(bytes)}) |->
                        IF i - at \in DOMAIN bytes THEN bytes[i - at]
                        ELSE IF i \in DOMAIN st.data THEN st.data[i] ELSE 0],
            !.pos = at + Len(bytes)]

CursorWrites(st, bytes) ==
    IF Len(bytes) > Len(st.data) - st.pos THEN {Outcome(st, TRUE, <<>>)}
    ELSE {Outcome(Stored(st, st.pos, bytes), FALSE, <<>>)}

(* fwrite() of one item: a file opened for appending is written at its end *)
(* wherever it is positioned; an error may come after some of the bytes.   *)
FileWrites(st, bytes) ==
    LET at == IF st.kind = "append" THEN Len(st.data) ELSE st.pos
        n == Len(bytes)
        after(k) == Stored(st, at, SubSeq(bytes, 1, k))
    IN  {Outcome(after(k), TRUE, <<>>) : k \in {k \in 0 .. n - 1 : at + k <= MaxLen}}
            \cup (IF at + n <= MaxLen \/ n = 0 THEN {Outcome(after(n), FALSE, <<>>)} ELSE {})

Writes(st, bytes) == IF st.kind = "cursor" THEN CursorWrites(st, bytes) ELSE FileWrites(st, bytes)

-----------------------------------------------------------------------------
(* Clients of the streams themselves.                                      *)

IsOpen(s) == stream[s].kind # "closed"
Idle == op.at = "idle"

Client(s, outcomes) ==
    /\ Idle /\ IsOpen(s)
    /\ \E o \in outcomes : stream' = [stream EXCEPT ![s] = Renamed(s, o.stream)]
    /\ UNCHANGED op

Seek(s) ==
    \E offset \in -MaxLen .. MaxLen, from \in Froms : Client(s, Seeks(stream[s], offset, from))
Read(s) == \E n \in 0 .. MaxLen : Client(s, Reads(stream[s], n))
Write(s) == \E n \in 0 .. MaxLen : Client(s, Writes(stream[s], Patch(n)))

(* The members that only files have: one byte at a time, where the end of  *)
(* the file is no error, and a byte that is put back.                      *)
IsFile(s) == stream[s].kind \in {"file", "append"}

getc(s) ==
    /\ IsFile(s)
    /\ Client(s, FileReads(stream[s], 1)
                  \cup IF stream[s].pos >= Len(stream[s].data) THEN {Outcome(stream[s], FALSE, <<>>)}
                       ELSE {})
ungetc(s) ==
    /\ IsFile(s) /\ stream[s].pos > 0
    /\ Client(s, {Outcome([stream[s] EXCEPT !.pos = @ - 1], FALSE, <<>>)})
putc(s) == IsFile(s) /\ Client(s, FileWrites(stream[s], Patch(1)))

(* One call inside a generic operation, with outcome o: its exception ends *)
(* the operation.                                                          *)
Perform(s, o, next) ==
    /\ stream' = [stream EXCEPT ![s] = o.stream]
    /\ op' = IF o.thrown THEN [op EXCEPT !.at = "threw"] ELSE next

(* patch_bytes(offset, bytes).                                             *)
CallPatch ==
    /\ Idle /\ IsOpen("out")
    /\ \E offset \in -1 .. MaxLen, n \in 0 .. MaxLen :
        op' = [name |-> "patch", at |-> "tell", offset |-> offset, bytes |-> Patch(n),
               mark |-> None, begun |-> stream]
    /\ UNCHANGED stream

PatchTell ==
    /\ op.at = "tell"
    /\ \/ op' = [op EXCEPT !.at = "seek", !.mark = stream["out"].pos]
       \/ TellFails(stream["out"]) /\ op' = [op EXCEPT !.at = "threw"]
    /\ UNCHANGED stream

PatchSeek ==
    /\ op.at = "seek"
    /\ \E o \in Seeks(stream["out"], op.offset, "Begin") :
        Perform("out", o, [op EXCEPT !.at = "write"])

PatchWrite ==
    /\ op.at = "write"
    /\ \E o \in Writes(stream["out"], op.bytes) : Perform("out", o, [op EXCEPT !.at = "return"])

(* MUTANT of PatchReturn: the position stays behind the patch.             *)
PatchStay == op.at = "return" /\ op' = [op EXCEPT !.at = "done"] /\ UNCHANGED stream

PatchReturn ==
    /\ op.at = "return"
    /\ \E o \in Seeks(stream["out"], op.mark, "Begin") : Perform("out", o, [op EXCEPT !.at = "done"])

(* copy_from(in, n): StreamError unless both streams are open.             *)
CallCopy ==
    /\ Idle
    /\ \E n \in 0 .. MaxLen :
        op' = [name |-> "copy", n |-> n, left |-> n, size |-> Min({n, Chunk}), bytes |-> <<>>,
               begun |-> stream,
               at |-> IF ~(IsOpen("in") /\ IsOpen("out")) THEN "threw"
                      ELSE IF n > 0 THEN "read" ELSE "done"]
    /\ UNCHANGED stream

(* MUTANT of ToRead: always a full buffer.                                 *)
ToReadAll == op.size

ToRead == IF op.left > op.size THEN op.size ELSE op.left

CopyRead ==
    /\ op.at = "read"
    /\ \E o \in Reads(stream["in"], ToRead) :
        Perform("in", o, [op EXCEPT !.at = "store", !.bytes = o.bytes])

CopyWrite ==
    /\ op.at = "store"
    /\ LET left == op.left - Len(op.bytes) IN
        \E o \in Writes(stream["out"], op.bytes) :
            Perform("out", o, [op EXCEPT !.left = left, !.at = IF left > 0 THEN "read" ELSE "done"])

(* A generic operation returns to its caller, normally or by exception.    *)
Return ==
    /\ op.at \in {"done", "threw"}
    /\ op' = [at |-> "idle"]
    /\ stream' = [stream EXCEPT !["out"] = Renamed("out", @)]

Next ==
    \/ \E s \in {"in", "out"} : Seek(s) \/ Read(s) \/ getc(s) \/ ungetc(s)
    \/ Write("out") \/ putc("out")
    \/ CallPatch \/ PatchTell \/ PatchSeek \/ PatchWrite \/ PatchReturn
    \/ CallCopy \/ CopyRead \/ CopyWrite
    \/ Return

Spec == Init /\ [][Next]_vars

-----------------------------------------------------------------------------
(* A memory cursor stays within its block: no sequence of seeks, reads,    *)
(* writes, patches and copies moves it past either end, or changes the     *)
(* number of bytes.                                                        *)
CursorStaysInBounds ==
    \A s \in {"in", "out"} : stream[s].kind = "cursor" =>
        /\ stream'[s].pos \in 0 .. Len(stream[s].data)
        /\ Len(stream'[s].data) = Len(stream[s].data)

CursorInBounds == [][CursorStaysInBounds]_vars

(* The bytes of out outside a window of n bytes from position at are what  *)
(* they were when the operation began.                                     *)
OnlyWindow(at, n) ==
    \A i \in DOMAIN op.begun["out"].data :
        i \in at + 1 .. at + n \/ stream["out"].data[i] = op.begun["out"].data[i]

(* patch_bytes() and patch_num() change nothing but the bytes they were    *)
(* asked to change, also when they throw half way; when they return, those *)
(* bytes are there and the stream is where it was.  (A file opened for     *)
(* appending cannot be patched: it grows, and keeps what it had.)          *)
PatchInPlace ==
    "name" \in DOMAIN op /\ op.name = "patch" =>
        LET out == stream["out"]
            n == Len(op.bytes)
        IN  /\ OnlyWindow(op.offset, IF out.kind = "append" THEN 0 ELSE n)
            /\ op.at = "done" =>
                /\ out.pos = op.begun["out"].pos
                /\ out.kind # "append" => SubSeq(out.data, op.offset + 1, op.offset + n) = op.bytes

(* copy_from() moves a prefix of what it was asked for, byte for byte and  *)
(* in order, and nothing else; when it returns, all of it; and when it     *)
(* throws, no more than one buffer has been read and not written.          *)
CopyIsFaithful ==
    "name" \in DOMAIN op /\ op.name = "copy" =>
        LET out == stream["out"]
            from == op.begun["in"]
            at == IF out.kind = "append" THEN Len(op.begun["out"].data) ELSE op.begun["out"].pos
            read == stream["in"].pos - from.pos
            written == IF out.kind = "append" THEN Len(out.data) - at ELSE out.pos - at
        IN  /\ 0 <= written /\ written <= read /\ read <= op.n
            /\ read - written <= Chunk
            /\ SubSeq(out.data, at + 1, at + written) = SubSeq(from.data, from.pos + 1, from.pos + written)
            /\ OnlyWindow(at, written)
            /\ op.at = "done" => written = op.n

=============================================================================
