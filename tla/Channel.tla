------------------------------ MODULE Channel ------------------------------
(***************************************************************************)
(* clst::Channel<T, Bounded, Sp, Sc> (clst/clst/channel.hpp): a blocking   *)
(* queue made of a std::deque, one mutex and two condition variables.      *)
(*                                                                         *)
(* Every critical section of the code is one action, taken with the mutex  *)
(* free; the notification the code issues AFTER it unlocks is an action of *)
(* its own, so other threads run in between.  A condition variable is the  *)
(* set of threads blocked on it: notify_one wakes any one of them, and a   *)
(* woken thread has to take the mutex again and to re-evaluate its         *)
(* predicate, exactly like a thread that has just entered the call.        *)
(***************************************************************************)
EXTENDS Naturals, Sequences, FiniteSets

CONSTANTS
    Threads,    \* the threads that share the channel
    Producers,  \* those that may call emplace()
    Consumers,  \* those that may call pop()
    Closers,    \* those that may call close()
    Clearers,   \* those that may call clear()
    Values,     \* the items
    Bounded,    \* template parameter Bounded
    Sp,         \* template parameter Sp: single producer
    Sc,         \* template parameter Sc: single consumer
    Max,        \* constructor argument max_items (used when Bounded)
    Backlog,    \* BOUND: no emplace() is started on an unbounded channel that
                \* holds this many items
    MayThrow    \* the calls whose element operation may throw: a subset of
                \* {"emplace", "pop"}

(* The asserted constructor precondition, and the meaning of Sp and Sc.    *)
ASSUME ChannelAssumption ==
    /\ Bounded \in BOOLEAN /\ Sp \in BOOLEAN /\ Sc \in BOOLEAN
    /\ Max \in Nat \ {0}
    /\ Backlog \in Nat
    /\ IsFiniteSet(Threads)
    /\ Producers \subseteq Threads /\ Consumers \subseteq Threads
    /\ Closers \subseteq Threads /\ Clearers \subseteq Threads
    /\ Sp => \A p, q \in Producers : p = q
    /\ Sc => \A c, d \in Consumers : c = d

VARIABLES
    items,      \* the std::deque base
    closed,     \* closed_
    pc          \* where each thread is inside the channel

vars == <<items, closed, pc>>

(***************************************************************************)
(* Where a thread can be.  "emplace", "pop": about to take the mutex and   *)
(* evaluate the predicate.  "...Wait": blocked in wait().  "notify...",    *)
(* "close...", "clear...": past the critical section, about to notify.     *)
(* "...Threw": the call ended by an exception of the element's operation.  *)
(***************************************************************************)
Locations ==
    {"idle",
     "emplace", "emplaceWait", "notifyPop", "emplaceThrew",
     "pop", "popWait", "notifyEmplace", "popThrew",
     "close", "closePop", "closeEmplace",
     "clear", "clearEmplace"}

At(location) == {t \in Threads : pc[t] = location}

(* MUTANT of HasRoom: one too many.                                        *)
HasRoomForOneMore == Bounded => Len(items) <= Max

(* The predicates of the two wait() calls, apart from closed_.             *)
HasRoom == Bounded => Len(items) < Max
HasItem == items # <<>>

(* MUTANTS of EmplaceNotifies: the single-consumer economy for everybody;  *)
(* emptiness tested after emplace_back(), when it cannot hold any more.    *)
EmplaceNotifiesWhenEmpty == items = <<>>
EmplaceNotifiesTooLate == ~Sc

(* should_notify of emplace(): a single consumer is only told when the     *)
(* queue was empty.                                                        *)
EmplaceNotifies == Sc => items = <<>>

(* MUTANT of PopNotifies: the single-producer economy for everybody.       *)
PopNotifiesWhenFull == Bounded /\ Len(items) = Max

(* should_notify of pop(): a single producer is only told when the queue   *)
(* was full; an unbounded channel has nobody to tell.                      *)
PopNotifies == Bounded /\ (Sp => Len(items) = Max)

Goto(t, location) == pc' = [pc EXCEPT ![t] = location]

(* A step that only changes where t is.                                    *)
Move(t, from, to) ==
    /\ pc[t] = from
    /\ Goto(t, to)
    /\ UNCHANGED <<items, closed>>

(* notify_one() on the condition variable whose waiters are at `blocked';  *)
(* t returns from its call.                                                *)
NotifyOne(t, blocked, awake) ==
    IF At(blocked) = {}
    THEN Goto(t, "idle")
    ELSE \E w \in At(blocked) : pc' = [pc EXCEPT ![t] = "idle", ![w] = awake]

(* notify_all(); t goes on at `next'.                                      *)
NotifyAll(t, next, blocked, awake) ==
    pc' = [u \in Threads |-> IF u = t THEN next
                             ELSE IF pc[u] = blocked THEN awake
                             ELSE pc[u]]

Init ==
    /\ items = <<>>
    /\ closed = FALSE
    /\ pc = [t \in Threads |-> "idle"]

-----------------------------------------------------------------------------
(* emplace()                                                               *)

(* A thread whose previous emplace() threw may only call it again.         *)
CallEmplace(t) ==
    /\ Bounded \/ Len(items) < Backlog
    /\ Move(t, "idle", "emplace") \/ Move(t, "emplaceThrew", "emplace")

EmplaceBlock(t) == ~closed /\ ~HasRoom /\ Move(t, "emplace", "emplaceWait")

EmplaceRefused(t) == closed /\ Move(t, "emplace", "idle")

(* MUTANT of EmplacePush: a woken producer does not test closed_ again.    *)
EmplacePushUnchecked(t, v) ==
    /\ pc[t] = "emplace" /\ HasRoom
    /\ items' = Append(items, v)
    /\ Goto(t, IF EmplaceNotifies THEN "notifyPop" ELSE "idle")
    /\ UNCHANGED closed

EmplacePush(t, v) ==
    /\ pc[t] = "emplace"
    /\ ~closed /\ HasRoom
    /\ items' = Append(items, v)
    /\ Goto(t, IF EmplaceNotifies THEN "notifyPop" ELSE "idle")
    /\ UNCHANGED closed

(* emplace_back() throws: the lock is released, nothing else happened, and *)
(* the notification that may have woken this thread is used up.            *)
EmplaceThrow(t) ==
    /\ "emplace" \in MayThrow
    /\ ~closed /\ HasRoom
    /\ Move(t, "emplace", "emplaceThrew")

NotifyPop(t) ==
    /\ pc[t] = "notifyPop"
    /\ NotifyOne(t, "popWait", "pop")
    /\ UNCHANGED <<items, closed>>

-----------------------------------------------------------------------------
(* pop(), both overloads                                                   *)

(* A thread whose previous pop() threw may only call it again.             *)
CallPop(t) == Move(t, "idle", "pop") \/ Move(t, "popThrew", "pop")

PopBlock(t) == ~closed /\ ~HasItem /\ Move(t, "pop", "popWait")

(* MUTANT of PopEnd: false as soon as the channel is closed.               *)
PopEndWhenClosed(t) == closed /\ Move(t, "pop", "idle")

(* Returns false (or an empty optional): closed and drained.               *)
PopEnd(t) == closed /\ ~HasItem /\ Move(t, "pop", "idle")

(* MUTANT of PopTake: pop_back() for pop_front().                          *)
PopTakeBack(t) ==
    /\ pc[t] = "pop" /\ HasItem
    /\ items' = SubSeq(items, 1, Len(items) - 1)
    /\ Goto(t, IF PopNotifies THEN "notifyEmplace" ELSE "idle")
    /\ UNCHANGED closed

PopTake(t) ==
    /\ pc[t] = "pop"
    /\ HasItem
    /\ items' = Tail(items)
    /\ Goto(t, IF PopNotifies THEN "notifyEmplace" ELSE "idle")
    /\ UNCHANGED closed

(* The move out of front() throws before pop_front(): the item stays.      *)
PopThrow(t) == "pop" \in MayThrow /\ HasItem /\ Move(t, "pop", "popThrew")

NotifyEmplace(t) ==
    /\ pc[t] = "notifyEmplace"
    /\ NotifyOne(t, "emplaceWait", "emplace")
    /\ UNCHANGED <<items, closed>>

-----------------------------------------------------------------------------
(* close() and clear()                                                     *)

CallClose(t) == Move(t, "idle", "close")

CloseSet(t) ==
    /\ pc[t] = "close"
    /\ closed' = TRUE
    /\ Goto(t, "closePop")
    /\ UNCHANGED items

(* MUTANTS of CloseNotifyPop: the producers are forgotten; notify_one() in *)
(* place of notify_all().                                                  *)
CloseNotifyPopOnly(t) ==
    /\ pc[t] = "closePop"
    /\ NotifyAll(t, "idle", "popWait", "pop")
    /\ UNCHANGED <<items, closed>>
CloseNotifyOnePop(t) ==
    /\ pc[t] = "closePop"
    /\ NotifyOne(t, "popWait", "pop")
    /\ UNCHANGED <<items, closed>>

CloseNotifyPop(t) ==
    /\ pc[t] = "closePop"
    /\ NotifyAll(t, IF Bounded THEN "closeEmplace" ELSE "idle", "popWait", "pop")
    /\ UNCHANGED <<items, closed>>

CloseNotifyEmplace(t) ==
    /\ pc[t] = "closeEmplace"
    /\ NotifyAll(t, "idle", "emplaceWait", "emplace")
    /\ UNCHANGED <<items, closed>>

CallClear(t) == Move(t, "idle", "clear")

(* MUTANT of ClearItems: clear() tells nobody that there is room.          *)
ClearItemsSilently(t) ==
    pc[t] = "clear" /\ items' = <<>> /\ Goto(t, "idle") /\ UNCHANGED closed

ClearItems(t) ==
    /\ pc[t] = "clear"
    /\ items' = <<>>
    /\ Goto(t, IF Bounded THEN "clearEmplace" ELSE "idle")
    /\ UNCHANGED closed

ClearNotify(t) ==
    /\ pc[t] = "clearEmplace"
    /\ NotifyAll(t, "idle", "emplaceWait", "emplace")
    /\ UNCHANGED <<items, closed>>

-----------------------------------------------------------------------------
(* A condition variable may wake a waiter that nobody notified.            *)
SpuriousWake(t) == Move(t, "popWait", "pop") \/ Move(t, "emplaceWait", "emplace")

(* The steps inside a call that give the caller no outcome yet.            *)
Inside(t) ==
    \/ EmplaceBlock(t) \/ NotifyPop(t) \/ PopBlock(t) \/ NotifyEmplace(t)
    \/ CloseSet(t) \/ CloseNotifyPop(t) \/ CloseNotifyEmplace(t)
    \/ ClearItems(t) \/ ClearNotify(t)

(* The steps that decide what a call returns.                              *)
Outcome(t) ==
    \/ \E v \in Values : EmplacePush(t, v)
    \/ EmplaceRefused(t) \/ EmplaceThrow(t)
    \/ PopTake(t) \/ PopEnd(t) \/ PopThrow(t)

Step(t) == Inside(t) \/ Outcome(t)

(* The client starts a call.                                               *)
Call(t) ==
    \/ t \in Producers /\ CallEmplace(t)
    \/ t \in Consumers /\ CallPop(t)
    \/ t \in Closers /\ CallClose(t)
    \/ t \in Clearers /\ CallClear(t)

Next == \E t \in Threads : Call(t) \/ Step(t) \/ SpuriousWake(t)

Spec == Init /\ [][Next]_vars

(***************************************************************************)
(* A thread that can run does run, and the mutex, which no critical        *)
(* section keeps across a wait(), is eventually obtained.  Clients are     *)
(* never obliged to call, and spurious wake-ups are never relied upon.     *)
(***************************************************************************)
Fairness == \A t \in Threads : WF_vars(Step(t))

FairSpec == Spec /\ Fairness

-----------------------------------------------------------------------------
(* Properties                                                              *)

(* Types, and a bounded channel never holds more than max_ items.          *)
TypeOK ==
    /\ items \in Seq(Values)
    /\ Bounded => Len(items) <= Max
    /\ closed \in BOOLEAN
    /\ pc \in [Threads -> Locations]

(* No item lies in the queue while consumers sleep: if the queue is not    *)
(* empty and a consumer is blocked in wait(), some other thread is about   *)
(* to notify, is a consumer about to look at the queue, or is a consumer   *)
(* whose pop() threw and who owes a retry.  This is what makes notify_one  *)
(* enough, and for a single consumer the notification on the               *)
(* empty-to-non-empty transition only.                                     *)
NoStrandedPop ==
    HasItem /\ At("popWait") # {} =>
        \E t \in Threads : pc[t] \in {"notifyPop", "pop", "popThrew", "closePop"}

(* No producer sleeps while there is room: dually, for emplace() on a      *)
(* bounded channel, with clear() as one more notifier, and for a single    *)
(* producer the notification on the full-to-not-full transition only.      *)
NoStrandedEmplace ==
    HasRoom /\ At("emplaceWait") # {} =>
        \E t \in Threads : pc[t] \in {"notifyEmplace", "emplace", "emplaceThrew",
                                      "clearEmplace", "closePop", "closeEmplace"}

(* Nobody sleeps through close(): a thread blocked on a closed channel is  *)
(* about to be woken by a close() that has set closed_ but has not issued  *)
(* its notify_all yet.                                                     *)
NoSleepAfterClose ==
    closed =>
        /\ At("popWait") # {} => At("closePop") # {}
        /\ At("emplaceWait") # {} => At("closePop") \cup At("closeEmplace") # {}

(* After close() the queue only drains: closed_ is never reset, and no     *)
(* emplace() that was blocked, woken or late adds an item any more; the    *)
(* items still inside are delivered in order (or dropped by clear()).      *)
OnlyDrainsAfterClose ==
    [][closed => /\ closed'
                 /\ \/ items' \in {items, <<>>}
                    \/ items # <<>> /\ items' = Tail(items)]_vars

(* close() lets everybody out: every call in progress on a closed channel  *)
(* returns (or ends by the element's exception).                           *)
CallsReturnAfterClose ==
    \A t \in Threads : closed ~> pc[t] \in {"idle", "emplaceThrew", "popThrew"}

=============================================================================
