------------------------- MODULE ChannelRefinement -------------------------
(***************************************************************************)
(* The channel with its mutex and condition variables implements the       *)
(* blocking queue of AbstractChannel.  A thread that has left its critical *)
(* section, and only has notifications to send, has returned from the      *)
(* abstract call; one that sleeps in wait() is still in it.                *)
(***************************************************************************)
EXTENDS Channel

CallOf(location) ==
    CASE location \in {"emplace", "emplaceWait"} -> "emplace"
      [] location \in {"pop", "popWait"} -> "pop"
      [] location = "close" -> "close"
      [] location = "clear" -> "clear"
      [] OTHER -> "none"

AbstractCall == [t \in Threads |-> CallOf(pc[t])]

Abstract == INSTANCE AbstractChannel WITH call <- AbstractCall

(* Every fair behaviour of the channel is one of the abstract queue:       *)
(* first-in first-out, nothing lost or delivered twice, false from pop()   *)
(* only when closed and drained (channel.hpp:120 "continue if closed but   *)
(* not empty"), and no caller left asleep next to an item or a free slot.  *)
ImplementsQueue == Abstract!Spec

(* The safety half alone: no step of the channel is more than one step of  *)
(* the queue, also where elements throw and calls are repeated.            *)
ImplementsQueueSteps == Abstract!Init /\ [][Abstract!Next]_(Abstract!vars)

=============================================================================
