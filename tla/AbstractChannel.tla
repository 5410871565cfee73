-------------------------- MODULE AbstractChannel --------------------------
(***************************************************************************)
(* What clst::Channel promises to its callers: a first-in first-out queue  *)
(* on which emplace() blocks while the queue is full and pop() blocks      *)
(* while it is empty.  There is no mutex, no condition variable and no     *)
(* notification here: a call that can take effect takes effect, at once,   *)
(* and fairness says that such a call is not left waiting.                 *)
(***************************************************************************)
EXTENDS Naturals, Sequences

CONSTANTS Threads, Producers, Consumers, Closers, Clearers,
          Values, Bounded, Max, MayThrow

VARIABLES items, closed, call   \* call[t]: the call thread t is blocked in

vars == <<items, closed, call>>

Init ==
    /\ items = <<>>
    /\ closed = FALSE
    /\ call = [t \in Threads |-> "none"]

Begin(t) ==
    /\ call[t] = "none"
    /\ \E c \in {"emplace", "pop", "close", "clear"} :
          /\ \/ c = "emplace" /\ t \in Producers
             \/ c = "pop" /\ t \in Consumers
             \/ c = "close" /\ t \in Closers
             \/ c = "clear" /\ t \in Clearers
          /\ call' = [call EXCEPT ![t] = c]
    /\ UNCHANGED <<items, closed>>

(* t's call c takes effect and returns.                                    *)
Finish(t, c) ==
    /\ call[t] = c
    /\ call' = [call EXCEPT ![t] = "none"]

(* emplace() returns true: only while the channel is open and has room.    *)
CanPut == ~closed /\ (Bounded => Len(items) < Max)
Put(t, v) ==
    /\ Finish(t, "emplace") /\ CanPut
    /\ items' = Append(items, v)
    /\ UNCHANGED closed

(* emplace() returns false: exactly when the channel is closed.            *)
Refuse(t) ==
    /\ Finish(t, "emplace") /\ closed
    /\ UNCHANGED <<items, closed>>

(* pop() returns true, with the oldest item, closed or not.                *)
Take(t) ==
    /\ Finish(t, "pop") /\ items # <<>>
    /\ items' = Tail(items)
    /\ UNCHANGED closed

(* pop() returns false: only when closed and drained.                      *)
End(t) ==
    /\ Finish(t, "pop") /\ closed /\ items = <<>>
    /\ UNCHANGED <<items, closed>>

Close(t) ==
    /\ Finish(t, "close")
    /\ closed' = TRUE
    /\ UNCHANGED items

Clear(t) ==
    /\ Finish(t, "clear")
    /\ items' = <<>>
    /\ UNCHANGED closed

(* A call that could take effect throws instead, and has no effect.        *)
Throw(t) ==
    /\ \/ "emplace" \in MayThrow /\ Finish(t, "emplace") /\ CanPut
       \/ "pop" \in MayThrow /\ Finish(t, "pop") /\ items # <<>>
    /\ UNCHANGED <<items, closed>>

Next ==
    \E t \in Threads :
        \/ Begin(t) \/ Refuse(t) \/ Take(t) \/ End(t) \/ Close(t) \/ Clear(t)
        \/ Throw(t) \/ \E v \in Values : Put(t, v)

(* While an item stays available to blocked consumers, one of them gets    *)
(* it; while there is room for blocked producers, one of them gets it; and *)
(* the calls that never have to wait return.                               *)
Fairness ==
    /\ WF_vars(\E t \in Threads : Take(t))
    /\ WF_vars(\E t \in Threads, v \in Values : Put(t, v))
    /\ \A t \in Threads :
          WF_vars(Refuse(t)) /\ WF_vars(End(t)) /\ WF_vars(Close(t)) /\ WF_vars(Clear(t))

Spec == Init /\ [][Next]_vars /\ Fairness

=============================================================================
