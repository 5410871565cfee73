--------------------------- MODULE ChannelProofs ---------------------------
(***************************************************************************)
(* Proofs about Channel, for any number of threads and any parameters.     *)
(***************************************************************************)
EXTENDS ChannelRefinement, FiniteSetTheorems, SequenceTheorems, TLAPS

(* Every step keeps the state well typed and a bounded queue within max_.  *)
LEMMA TypeStep ==
    ASSUME TypeOK, [Next]_vars
    PROVE  TypeOK'
<1>. USE ChannelAssumption DEF TypeOK, Locations, Goto, Move, At, HasRoom, HasItem
<1>1. ASSUME NEW t \in Threads, Call(t) PROVE TypeOK'
  BY <1>1 DEF Call, CallEmplace, CallPop, CallClose, CallClear
<1>2. ASSUME NEW t \in Threads, Inside(t) PROVE TypeOK'
  <2>1. CASE EmplaceBlock(t) \/ PopBlock(t) \/ CloseSet(t)
    BY <2>1 DEF EmplaceBlock, PopBlock, CloseSet
  <2>2. CASE NotifyPop(t) \/ NotifyEmplace(t)
    BY <2>2 DEF NotifyPop, NotifyEmplace, NotifyOne
  <2>3. CASE CloseNotifyPop(t) \/ CloseNotifyEmplace(t) \/ ClearNotify(t)
    BY <2>3 DEF CloseNotifyPop, CloseNotifyEmplace, ClearNotify, NotifyAll
  <2>4. CASE ClearItems(t)
    BY <2>4, EmptySeq DEF ClearItems
  <2>. QED BY <1>2, <2>1, <2>2, <2>3, <2>4 DEF Inside
<1>3. ASSUME NEW t \in Threads, Outcome(t) PROVE TypeOK'
  <2>1. CASE \E v \in Values : EmplacePush(t, v)
    BY <2>1 DEF EmplacePush
  <2>2. CASE PopTake(t)
    BY <2>2 DEF PopTake
  <2>3. CASE EmplaceRefused(t) \/ EmplaceThrow(t) \/ PopEnd(t) \/ PopThrow(t)
    BY <2>3 DEF EmplaceRefused, EmplaceThrow, PopEnd, PopThrow
  <2>. QED BY <1>3, <2>1, <2>2, <2>3 DEF Outcome
<1>4. ASSUME NEW t \in Threads, SpuriousWake(t) PROVE TypeOK'
  BY <1>4 DEF SpuriousWake
<1>5. CASE UNCHANGED vars
  BY <1>5 DEF vars
<1>. QED BY <1>1, <1>2, <1>3, <1>4, <1>5 DEF Next, Step

(* The constructed channel is well typed.                                 *)
LEMMA TypeInit ==
    ASSUME Init
    PROVE  TypeOK
<1>1. items \in Seq(Values) /\ Len(items) = 0
  BY EmptySeq DEF Init
<1>2. closed \in BOOLEAN /\ pc \in [Threads -> Locations]
  BY DEF Init, Locations
<1>. QED BY <1>1, <1>2, ChannelAssumption DEF TypeOK

(* The type invariant, with the bound on a bounded channel's queue.        *)
THEOREM TypeCorrect == Spec => []TypeOK
<1>. QED BY TypeInit, TypeStep, PTL DEF Spec

-----------------------------------------------------------------------------
(* The inductive invariant.                                                *)

(* Only consumers are inside pop(), only producers inside emplace().       *)
RolesOK ==
    \A t \in Threads :
        /\ pc[t] \in {"pop", "popWait", "popThrew"} => t \in Consumers
        /\ pc[t] \in {"emplace", "emplaceWait", "emplaceThrew"} => t \in Producers

(* Nobody waits for room in an unbounded channel.                          *)
OnlyBoundedBlocks == At("emplaceWait") # {} => Bounded

(* The threads on their way to an item, and to a free slot.                *)
PopHelpers == {t \in Threads : pc[t] \in {"notifyPop", "pop", "popThrew"}}
EmplaceHelpers == {t \in Threads : pc[t] \in {"notifyEmplace", "emplace", "emplaceThrew"}}

(* The counting form of NoStrandedPop, and the reason it holds: while a    *)
(* consumer of a many-consumer channel is blocked, there are at least as   *)
(* many threads on their way as there are items; the single consumer needs *)
(* one notifier only.                                                      *)
PopCovered ==
    At("popWait") # {} =>
        IF Sc THEN HasItem => At("notifyPop") # {}
              ELSE Len(items) <= Cardinality(PopHelpers)

(* Likewise for blocked producers and free slots, unless a notify_all of   *)
(* clear() or close() is coming.                                           *)
EmplaceCovered ==
    At("emplaceWait") # {} /\ ~closed /\ At("clearEmplace") = {} =>
        IF Sp THEN HasRoom => At("notifyEmplace") # {}
              ELSE Max - Len(items) <= Cardinality(EmplaceHelpers)

IInv ==
    /\ TypeOK
    /\ RolesOK
    /\ OnlyBoundedBlocks
    /\ NoSleepAfterClose
    /\ PopCovered
    /\ EmplaceCovered

(* The sets that the counting invariants count are finite, and moving one  *)
(* thread in or out changes their size by at most one.                     *)
LEMMA CountThreads ==
    ASSUME NEW S \in SUBSET Threads
    PROVE  /\ Cardinality(S) \in Nat
           /\ S = {} <=> Cardinality(S) = 0
           /\ \A T \in SUBSET Threads : S \subseteq T => Cardinality(S) <= Cardinality(T)
           /\ \A t \in Threads \ S : Cardinality(S \cup {t}) = Cardinality(S) + 1
           /\ \A t \in S : Cardinality(S \ {t}) = Cardinality(S) - 1
<1>1. IsFiniteSet(Threads) /\ IsFiniteSet(S)
  BY ChannelAssumption, FS_Subset
<1>2. Cardinality(S) \in Nat /\ (S = {} <=> Cardinality(S) = 0)
  BY <1>1, FS_CardinalityType, FS_EmptySet
<1>3. ASSUME NEW T \in SUBSET Threads, S \subseteq T
      PROVE  Cardinality(S) <= Cardinality(T)
  BY <1>1, <1>3, FS_Subset
<1>4. ASSUME NEW t \in Threads \ S
      PROVE  Cardinality(S \cup {t}) = Cardinality(S) + 1
  BY <1>1, <1>4, FS_AddElement
<1>5. ASSUME NEW t \in S
      PROVE  Cardinality(S \ {t}) = Cardinality(S) - 1
  BY <1>1, <1>5, FS_RemoveElement
<1>. QED BY <1>2, <1>3, <1>4, <1>5

(* One thread leaves the set as another one joins it.                      *)
LEMMA SwapThreads ==
    ASSUME NEW S \in SUBSET Threads, NEW t \in S, NEW w \in Threads \ S
    PROVE  Cardinality((S \ {t}) \cup {w}) = Cardinality(S)
<1>. DEFINE R == S \ {t}
<1>1. Cardinality(R) = Cardinality(S) - 1 /\ Cardinality(S) \in Nat
  BY CountThreads
<1>2. R \in SUBSET Threads /\ w \in Threads \ R
  OBVIOUS
<1>3. Cardinality(R \cup {w}) = Cardinality(R) + 1
  BY <1>2, CountThreads
<1>. QED BY <1>1, <1>3

(* No step lets a thread into a call that is not its role.                 *)
LEMMA RolesStep ==
    ASSUME TypeOK, RolesOK, OnlyBoundedBlocks, [Next]_vars
    PROVE  RolesOK' /\ OnlyBoundedBlocks'
<1>. USE ChannelAssumption DEF TypeOK, RolesOK, OnlyBoundedBlocks, Goto, Move, At, HasRoom
<1>1. ASSUME NEW t \in Threads, Call(t) PROVE RolesOK' /\ OnlyBoundedBlocks'
  BY <1>1 DEF Call, CallEmplace, CallPop, CallClose, CallClear
<1>2. ASSUME NEW t \in Threads, Inside(t) PROVE RolesOK' /\ OnlyBoundedBlocks'
  <2>1. CASE EmplaceBlock(t) \/ PopBlock(t) \/ CloseSet(t) \/ ClearItems(t)
    BY <2>1 DEF EmplaceBlock, PopBlock, CloseSet, ClearItems
  <2>2. CASE NotifyPop(t) \/ NotifyEmplace(t)
    BY <2>2 DEF NotifyPop, NotifyEmplace, NotifyOne
  <2>3. CASE CloseNotifyPop(t) \/ CloseNotifyEmplace(t) \/ ClearNotify(t)
    BY <2>3 DEF CloseNotifyPop, CloseNotifyEmplace, ClearNotify, NotifyAll
  <2>. QED BY <1>2, <2>1, <2>2, <2>3 DEF Inside
<1>3. ASSUME NEW t \in Threads, Outcome(t) PROVE RolesOK' /\ OnlyBoundedBlocks'
  BY <1>3 DEF Outcome, EmplacePush, EmplaceRefused, EmplaceThrow, PopTake, PopEnd, PopThrow
<1>4. ASSUME NEW t \in Threads, SpuriousWake(t) PROVE RolesOK' /\ OnlyBoundedBlocks'
  BY <1>4 DEF SpuriousWake
<1>5. CASE UNCHANGED vars
  BY <1>5 DEF vars
<1>. QED BY <1>1, <1>2, <1>3, <1>4, <1>5 DEF Next, Step

(* No step puts a thread to sleep on a closed channel, or consumes the     *)
(* notify_all of close() without waking everybody.                         *)
LEMMA SleepStep ==
    ASSUME TypeOK, OnlyBoundedBlocks, NoSleepAfterClose, [Next]_vars
    PROVE  NoSleepAfterClose'
<1>. USE ChannelAssumption
     DEF TypeOK, OnlyBoundedBlocks, NoSleepAfterClose, Goto, Move, At
<1>1. ASSUME NEW t \in Threads, Call(t) PROVE NoSleepAfterClose'
  BY <1>1 DEF Call, CallEmplace, CallPop, CallClose, CallClear
<1>2. ASSUME NEW t \in Threads, Inside(t) PROVE NoSleepAfterClose'
  <2>1. CASE EmplaceBlock(t) \/ PopBlock(t) \/ CloseSet(t) \/ ClearItems(t)
    BY <2>1 DEF EmplaceBlock, PopBlock, CloseSet, ClearItems
  <2>2. CASE NotifyPop(t) \/ NotifyEmplace(t)
    BY <2>2 DEF NotifyPop, NotifyEmplace, NotifyOne
  <2>3. CASE CloseNotifyPop(t)
    BY <2>3 DEF CloseNotifyPop, NotifyAll
  <2>4. CASE CloseNotifyEmplace(t) \/ ClearNotify(t)
    BY <2>4 DEF CloseNotifyEmplace, ClearNotify, NotifyAll
  <2>. QED BY <1>2, <2>1, <2>2, <2>3, <2>4 DEF Inside
<1>3. ASSUME NEW t \in Threads, Outcome(t) PROVE NoSleepAfterClose'
  BY <1>3 DEF Outcome, EmplacePush, EmplaceRefused, EmplaceThrow, PopTake, PopEnd, PopThrow
<1>4. ASSUME NEW t \in Threads, SpuriousWake(t) PROVE NoSleepAfterClose'
  BY <1>4 DEF SpuriousWake
<1>5. CASE UNCHANGED vars
  BY <1>5 DEF vars
<1>. QED BY <1>1, <1>2, <1>3, <1>4, <1>5 DEF Next, Step

-----------------------------------------------------------------------------
(* PopCovered: most steps add no item, block no consumer and remove none   *)
(* of the threads that are on their way to one.                            *)
LEMMA QuietPop ==
    ASSUME TypeOK, TypeOK', PopCovered,
           At("popWait")' \subseteq At("popWait"),
           PopHelpers \subseteq PopHelpers',
           At("notifyPop") \subseteq At("notifyPop")',
           items' \in {items, <<>>}
    PROVE  PopCovered'
<1>. SUFFICES ASSUME At("popWait")' # {}
              PROVE  IF Sc THEN HasItem' => At("notifyPop")' # {}
                           ELSE Len(items)' <= Cardinality(PopHelpers')
  BY DEF PopCovered
<1>1. IF Sc THEN HasItem => At("notifyPop") # {}
            ELSE Len(items) <= Cardinality(PopHelpers)
  BY DEF PopCovered
<1>2. CASE Sc
  BY <1>1, <1>2 DEF HasItem
<1>3. CASE ~Sc
  <2>1. /\ Cardinality(PopHelpers) \in Nat /\ Cardinality(PopHelpers') \in Nat
        /\ Cardinality(PopHelpers) <= Cardinality(PopHelpers')
    BY CountThreads DEF PopHelpers
  <2>2. Len(items) \in Nat /\ Len(items)' <= Len(items)
    BY EmptySeq DEF TypeOK
  <2>3. Len(items)' \in Nat
    BY DEF TypeOK
  <2>. QED BY <1>1, <1>3, <2>1, <2>2, <2>3
<1>. QED BY <1>2, <1>3, ChannelAssumption

(* The steps that do disturb PopCovered keep the count: a push brings its   *)
(* notifier, a notifier becomes the consumer it wakes, a consumer that     *)
(* takes an item leaves one item less.                                     *)
LEMMA PopStep ==
    ASSUME TypeOK, TypeOK', RolesOK, PopCovered, [Next]_vars
    PROVE  PopCovered'
<1>. USE DEF Goto, Move, At
<1>. DEFINE Quiet == /\ At("popWait")' \subseteq At("popWait")
                     /\ PopHelpers \subseteq PopHelpers'
                     /\ At("notifyPop") \subseteq At("notifyPop")'
                     /\ items' \in {items, <<>>}
<1>0. Quiet => PopCovered'
  BY QuietPop
<1>. USE DEF TypeOK
<1>1. ASSUME NEW t \in Threads, Call(t) PROVE PopCovered'
  <2>. Quiet
    BY <1>1 DEF Call, CallEmplace, CallPop, CallClose, CallClear, PopHelpers
  <2>. QED BY <1>0
<1>2. ASSUME NEW t \in Threads, SpuriousWake(t) PROVE PopCovered'
  <2>. Quiet
    BY <1>2 DEF SpuriousWake, PopHelpers
  <2>. QED BY <1>0
<1>3. CASE UNCHANGED vars
  <2>. Quiet
    BY <1>3 DEF vars, PopHelpers
  <2>. QED BY <1>0
<1>4. ASSUME NEW t \in Threads, Inside(t) PROVE PopCovered'
  <2>1. CASE EmplaceBlock(t) \/ CloseSet(t) \/ ClearItems(t)
    <3>. Quiet
      BY <2>1 DEF EmplaceBlock, CloseSet, ClearItems, PopHelpers
    <3>. QED BY <1>0
  <2>2. CASE NotifyEmplace(t)
    <3>. Quiet
      BY <2>2 DEF NotifyEmplace, NotifyOne, PopHelpers
    <3>. QED BY <1>0
  <2>3. CASE CloseNotifyEmplace(t) \/ ClearNotify(t)
    <3>. Quiet
      BY <2>3 DEF CloseNotifyEmplace, ClearNotify, NotifyAll, PopHelpers
    <3>. QED BY <1>0
  <2>4. CASE CloseNotifyPop(t)
    <3>. At("popWait")' = {}
      BY <2>4 DEF CloseNotifyPop, NotifyAll
    <3>. QED BY DEF PopCovered
  <2>5. CASE PopBlock(t)
    <3>1. ~HasItem' /\ Len(items)' = 0
      BY <2>5, EmptySeq DEF PopBlock, HasItem
    <3>2. Cardinality(PopHelpers') \in Nat
      BY CountThreads DEF PopHelpers
    <3>. QED BY <3>1, <3>2 DEF PopCovered
  <2>6. CASE NotifyPop(t)
    <3>1. CASE At("popWait") = {}
      <4>. At("popWait")' = {}
        BY <2>6, <3>1 DEF NotifyPop, NotifyOne
      <4>. QED BY DEF PopCovered
    <3>2. CASE At("popWait") # {}
      <4>1. PICK w \in At("popWait") : pc' = [pc EXCEPT ![t] = "idle", ![w] = "pop"]
        BY <2>6, <3>2 DEF NotifyPop, NotifyOne
      <4>2. CASE Sc
        <5>. At("popWait")' = {}
          BY <4>1, <4>2, <2>6, ChannelAssumption DEF RolesOK, NotifyPop
        <5>. QED BY DEF PopCovered
      <4>3. CASE ~Sc
        <5>. DEFINE H == PopHelpers
        <5>1. PopHelpers' = (H \ {t}) \cup {w} /\ t \in H /\ w \notin H /\ H \subseteq Threads
          BY <4>1, <2>6 DEF PopHelpers, NotifyPop
        <5>2. Cardinality(PopHelpers') = Cardinality(H)
          BY <5>1, SwapThreads, <4>1
        <5>3. Len(items) <= Cardinality(H) /\ items' = items
          BY <3>2, <4>3, <2>6 DEF PopCovered, NotifyPop
        <5>. QED BY <5>2, <5>3, <4>3 DEF PopCovered
      <4>. QED BY <4>2, <4>3, ChannelAssumption
    <3>. QED BY <3>1, <3>2
  <2>. QED BY <1>4, <2>1, <2>2, <2>3, <2>4, <2>5, <2>6 DEF Inside
<1>5. ASSUME NEW t \in Threads, Outcome(t) PROVE PopCovered'
  <2>1. CASE EmplaceRefused(t) \/ EmplaceThrow(t) \/ PopThrow(t)
    <3>. Quiet
      BY <2>1 DEF EmplaceRefused, EmplaceThrow, PopThrow, PopHelpers
    <3>. QED BY <1>0
  <2>2. CASE PopEnd(t)
    <3>1. ~HasItem' /\ Len(items)' = 0
      BY <2>2, EmptySeq DEF PopEnd, HasItem
    <3>2. Cardinality(PopHelpers') \in Nat
      BY CountThreads DEF PopHelpers
    <3>. QED BY <3>1, <3>2 DEF PopCovered
  <2>3. ASSUME NEW v \in Values, EmplacePush(t, v) PROVE PopCovered'
    <3>1. At("popWait")' = At("popWait")
      BY <2>3 DEF EmplacePush
    <3>2. CASE Sc
      <4>1. CASE items = <<>>
        <5>. t \in At("notifyPop")'
          BY <2>3, <4>1 DEF EmplacePush, EmplaceNotifies
        <5>. QED BY <3>2 DEF PopCovered
      <4>2. CASE items # <<>>
        <5>1. At("notifyPop") \subseteq At("notifyPop")'
          BY <2>3 DEF EmplacePush
        <5>. QED BY <3>1, <3>2, <4>2, <5>1 DEF PopCovered, HasItem
      <4>. QED BY <4>1, <4>2
    <3>3. CASE ~Sc
      <4>. DEFINE H == PopHelpers
      <4>1. PopHelpers' = H \cup {t} /\ t \in Threads \ H /\ H \subseteq Threads
        BY <2>3, <3>3 DEF EmplacePush, EmplaceNotifies, PopHelpers
      <4>2. Cardinality(PopHelpers') = Cardinality(H) + 1 /\ Cardinality(H) \in Nat
        BY <4>1, CountThreads
      <4>3. Len(items)' = Len(items) + 1 /\ Len(items) \in Nat
        BY <2>3 DEF EmplacePush
      <4>. QED BY <3>1, <3>3, <4>2, <4>3 DEF PopCovered
    <3>. QED BY <3>2, <3>3, ChannelAssumption
  <2>4. CASE PopTake(t)
    <3>1. At("popWait")' = At("popWait")
      BY <2>4 DEF PopTake
    <3>2. CASE Sc
      <4>. At("popWait") = {}
        BY <2>4, <3>2, ChannelAssumption DEF PopTake, RolesOK
      <4>. QED BY <3>1 DEF PopCovered
    <3>3. CASE ~Sc
      <4>. DEFINE H == PopHelpers
      <4>1. PopHelpers' = H \ {t} /\ t \in H /\ H \subseteq Threads
        BY <2>4 DEF PopTake, PopHelpers
      <4>2. Cardinality(PopHelpers') = Cardinality(H) - 1 /\ Cardinality(H) \in Nat
        BY <4>1, CountThreads
      <4>3. Len(items)' = Len(items) - 1 /\ Len(items) \in Nat
        BY <2>4, EmptySeq DEF PopTake, HasItem
      <4>. QED BY <3>1, <3>3, <4>2, <4>3 DEF PopCovered
    <3>. QED BY <3>2, <3>3, ChannelAssumption
  <2>. QED BY <1>5, <2>1, <2>2, <2>3, <2>4 DEF Outcome
<1>. QED BY <1>1, <1>2, <1>3, <1>4, <1>5 DEF Next, Step

-----------------------------------------------------------------------------
(* EmplaceCovered, along the same lines.                                   *)
LEMMA QuietEmplace ==
    ASSUME TypeOK, TypeOK', EmplaceCovered,
           At("emplaceWait")' \subseteq At("emplaceWait"),
           EmplaceHelpers \subseteq EmplaceHelpers',
           At("notifyEmplace") \subseteq At("notifyEmplace")',
           At("clearEmplace") \subseteq At("clearEmplace")',
           closed => closed',
           items' = items
    PROVE  EmplaceCovered'
<1>. SUFFICES ASSUME At("emplaceWait")' # {}, ~closed', At("clearEmplace")' = {}
              PROVE  IF Sp THEN HasRoom' => At("notifyEmplace")' # {}
                           ELSE Max - Len(items)' <= Cardinality(EmplaceHelpers')
  BY DEF EmplaceCovered
<1>1. IF Sp THEN HasRoom => At("notifyEmplace") # {}
            ELSE Max - Len(items) <= Cardinality(EmplaceHelpers)
  BY DEF EmplaceCovered
<1>2. CASE Sp
  BY <1>1, <1>2 DEF HasRoom
<1>3. CASE ~Sp
  <2>1. /\ Cardinality(EmplaceHelpers) \in Nat /\ Cardinality(EmplaceHelpers') \in Nat
        /\ Cardinality(EmplaceHelpers) <= Cardinality(EmplaceHelpers')
    BY CountThreads DEF EmplaceHelpers
  <2>2. Len(items) \in Nat /\ Max \in Nat
    BY ChannelAssumption DEF TypeOK
  <2>. QED BY <1>1, <1>3, <2>1, <2>2
<1>. QED BY <1>2, <1>3, ChannelAssumption

(* The steps that disturb EmplaceCovered keep the count of helpers and     *)
(* free slots.                                                             *)
LEMMA EmplaceStep ==
    ASSUME TypeOK, TypeOK', RolesOK, OnlyBoundedBlocks, EmplaceCovered, [Next]_vars
    PROVE  EmplaceCovered'
<1>. USE DEF Goto, Move, At
<1>. DEFINE Quiet == /\ At("emplaceWait")' \subseteq At("emplaceWait")
                     /\ EmplaceHelpers \subseteq EmplaceHelpers'
                     /\ At("notifyEmplace") \subseteq At("notifyEmplace")'
                     /\ At("clearEmplace") \subseteq At("clearEmplace")'
                     /\ closed => closed'
                     /\ items' = items
<1>0. Quiet => EmplaceCovered'
  BY QuietEmplace
<1>. USE DEF TypeOK
<1>1. ASSUME NEW t \in Threads, Call(t) PROVE EmplaceCovered'
  <2>. Quiet
    BY <1>1 DEF Call, CallEmplace, CallPop, CallClose, CallClear, EmplaceHelpers
  <2>. QED BY <1>0
<1>2. ASSUME NEW t \in Threads, SpuriousWake(t) PROVE EmplaceCovered'
  <2>. Quiet
    BY <1>2 DEF SpuriousWake, EmplaceHelpers
  <2>. QED BY <1>0
<1>3. CASE UNCHANGED vars
  <2>. Quiet
    BY <1>3 DEF vars, EmplaceHelpers
  <2>. QED BY <1>0
<1>4. ASSUME NEW t \in Threads, Inside(t) PROVE EmplaceCovered'
  <2>1. CASE PopBlock(t)
    <3>. Quiet
      BY <2>1 DEF PopBlock, EmplaceHelpers
    <3>. QED BY <1>0
  <2>2. CASE NotifyPop(t)
    <3>. Quiet
      BY <2>2 DEF NotifyPop, NotifyOne, EmplaceHelpers
    <3>. QED BY <1>0
  <2>3. CASE CloseNotifyPop(t)
    <3>. Quiet
      BY <2>3 DEF CloseNotifyPop, NotifyAll, EmplaceHelpers
    <3>. QED BY <1>0
  <2>4. CASE CloseSet(t)
    BY <2>4 DEF CloseSet, EmplaceCovered
  <2>5. CASE CloseNotifyEmplace(t) \/ ClearNotify(t)
    <3>. At("emplaceWait")' = {}
      BY <2>5 DEF CloseNotifyEmplace, ClearNotify, NotifyAll
    <3>. QED BY DEF EmplaceCovered
  <2>6. CASE ClearItems(t)
    <3>1. CASE Bounded
      <4>. t \in At("clearEmplace")'
        BY <2>6, <3>1 DEF ClearItems
      <4>. QED BY DEF EmplaceCovered
    <3>2. CASE ~Bounded
      <4>. At("emplaceWait")' = {}
        BY <2>6, <3>2 DEF ClearItems, OnlyBoundedBlocks
      <4>. QED BY DEF EmplaceCovered
    <3>. QED BY <3>1, <3>2, ChannelAssumption
  <2>7. CASE EmplaceBlock(t)
    <3>1. ~HasRoom' /\ Max - Len(items)' <= 0
      BY <2>7, ChannelAssumption DEF EmplaceBlock, HasRoom
    <3>2. Cardinality(EmplaceHelpers') \in Nat /\ Max - Len(items)' \in Int
      BY CountThreads, ChannelAssumption DEF EmplaceHelpers
    <3>. QED BY <3>1, <3>2 DEF EmplaceCovered
  <2>8. CASE NotifyEmplace(t)
    <3>1. CASE At("emplaceWait") = {}
      <4>. At("emplaceWait")' = {}
        BY <2>8, <3>1 DEF NotifyEmplace, NotifyOne
      <4>. QED BY DEF EmplaceCovered
    <3>2. CASE At("emplaceWait") # {}
      <4>1. PICK w \in At("emplaceWait") : pc' = [pc EXCEPT ![t] = "idle", ![w] = "emplace"]
        BY <2>8, <3>2 DEF NotifyEmplace, NotifyOne
      <4>2. CASE Sp
        <5>. At("emplaceWait")' = {}
          BY <4>1, <4>2, <2>8, ChannelAssumption DEF RolesOK, NotifyEmplace
        <5>. QED BY DEF EmplaceCovered
      <4>3. CASE ~Sp
        <5>. DEFINE H == EmplaceHelpers
        <5>1. EmplaceHelpers' = (H \ {t}) \cup {w} /\ t \in H /\ w \notin H /\ H \subseteq Threads
          BY <4>1, <2>8 DEF EmplaceHelpers, NotifyEmplace
        <5>2. Cardinality(EmplaceHelpers') = Cardinality(H)
          BY <5>1, SwapThreads, <4>1
        <5>3. UNCHANGED <<items, closed>> /\ At("clearEmplace")' = At("clearEmplace")
          BY <4>1, <2>8 DEF NotifyEmplace
        <5>. QED BY <3>2, <5>2, <5>3, <4>3 DEF EmplaceCovered
      <4>. QED BY <4>2, <4>3, ChannelAssumption
    <3>. QED BY <3>1, <3>2
  <2>. QED BY <1>4, <2>1, <2>2, <2>3, <2>4, <2>5, <2>6, <2>7, <2>8 DEF Inside
<1>5. ASSUME NEW t \in Threads, Outcome(t) PROVE EmplaceCovered'
  <2>1. CASE EmplaceThrow(t) \/ PopThrow(t) \/ PopEnd(t)
    <3>. Quiet
      BY <2>1 DEF EmplaceThrow, PopThrow, PopEnd, EmplaceHelpers
    <3>. QED BY <1>0
  <2>2. CASE EmplaceRefused(t)
    BY <2>2 DEF EmplaceRefused, EmplaceCovered
  <2>3. ASSUME NEW v \in Values, EmplacePush(t, v) PROVE EmplaceCovered'
    <3>1. /\ At("emplaceWait")' = At("emplaceWait")
          /\ At("clearEmplace")' = At("clearEmplace")
          /\ closed' = closed
      BY <2>3 DEF EmplacePush
    <3>2. CASE Sp
      <4>. At("emplaceWait") = {}
        BY <2>3, <3>2, ChannelAssumption DEF EmplacePush, RolesOK
      <4>. QED BY <3>1 DEF EmplaceCovered
    <3>3. CASE ~Sp
      <4>. DEFINE H == EmplaceHelpers
      <4>1. EmplaceHelpers' = H \ {t} /\ t \in H /\ H \subseteq Threads
        BY <2>3 DEF EmplacePush, EmplaceHelpers
      <4>2. Cardinality(EmplaceHelpers') = Cardinality(H) - 1 /\ Cardinality(H) \in Nat
        BY <4>1, CountThreads
      <4>3. Len(items)' = Len(items) + 1 /\ Len(items) \in Nat
        BY <2>3 DEF EmplacePush
      <4>. QED BY <3>1, <3>3, <4>2, <4>3, ChannelAssumption DEF EmplaceCovered
    <3>. QED BY <3>2, <3>3, ChannelAssumption
  <2>4. CASE PopTake(t)
    <3>1. /\ At("emplaceWait")' = At("emplaceWait")
          /\ At("clearEmplace")' = At("clearEmplace")
          /\ closed' = closed
      BY <2>4 DEF PopTake
    <3>2. Len(items)' = Len(items) - 1 /\ Len(items) \in Nat
      BY <2>4, EmptySeq DEF PopTake, HasItem
    <3>3. CASE At("emplaceWait") = {}
      BY <3>1, <3>3 DEF EmplaceCovered
    <3>4. CASE At("emplaceWait") # {} /\ Sp
      <4>1. CASE Len(items) = Max
        <5>. t \in At("notifyEmplace")'
          BY <2>4, <3>4, <4>1 DEF PopTake, PopNotifies, OnlyBoundedBlocks
        <5>. QED BY <3>4 DEF EmplaceCovered
      <4>2. CASE Len(items) # Max
        <5>1. HasRoom
          BY <4>2, <3>2, ChannelAssumption DEF HasRoom
        <5>2. At("notifyEmplace") \subseteq At("notifyEmplace")'
          BY <2>4 DEF PopTake
        <5>. QED BY <3>1, <3>4, <5>1, <5>2 DEF EmplaceCovered
      <4>. QED BY <4>1, <4>2
    <3>5. CASE At("emplaceWait") # {} /\ ~Sp
      <4>. DEFINE H == EmplaceHelpers
      <4>1. EmplaceHelpers' = H \cup {t} /\ t \in Threads \ H /\ H \subseteq Threads
        BY <2>4, <3>5 DEF PopTake, PopNotifies, OnlyBoundedBlocks, EmplaceHelpers
      <4>2. Cardinality(EmplaceHelpers') = Cardinality(H) + 1 /\ Cardinality(H) \in Nat
        BY <4>1, CountThreads
      <4>. QED BY <3>1, <3>2, <3>5, <4>2, ChannelAssumption DEF EmplaceCovered
    <3>. QED BY <3>3, <3>4, <3>5, ChannelAssumption
  <2>. QED BY <1>5, <2>1, <2>2, <2>3, <2>4 DEF Outcome
<1>. QED BY <1>1, <1>2, <1>3, <1>4, <1>5 DEF Next, Step

-----------------------------------------------------------------------------
(* The theorems.                                                           *)

(* The inductive invariant holds in every reachable state.                 *)
LEMMA Inductive == Spec => []IInv
<1>1. Init => IInv
  <2>. SUFFICES ASSUME Init PROVE IInv
    OBVIOUS
  <2>1. TypeOK
    BY TypeInit
  <2>2. ~closed /\ \A t \in Threads : pc[t] = "idle"
    BY DEF Init
  <2>. QED BY <2>1, <2>2 DEF IInv, RolesOK, OnlyBoundedBlocks, NoSleepAfterClose,
                            PopCovered, EmplaceCovered, At
<1>2. IInv /\ [Next]_vars => IInv'
  BY TypeStep, RolesStep, SleepStep, PopStep, EmplaceStep DEF IInv
<1>. QED BY <1>1, <1>2, PTL DEF Spec

(* No consumer sleeps next to an item unless another thread is on its way: *)
(* the notification policy of emplace() loses no wake-up, for any number   *)
(* of threads, with and without the single-consumer economy.               *)
THEOREM ConsumersAreNotStranded == Spec => []NoStrandedPop
<1>1. IInv => NoStrandedPop
  <2>. SUFFICES ASSUME IInv, HasItem, At("popWait") # {}
                PROVE  \E t \in Threads : pc[t] \in {"notifyPop", "pop", "popThrew", "closePop"}
    BY DEF NoStrandedPop
  <2>1. CASE Sc
    BY <2>1 DEF IInv, PopCovered, At
  <2>2. CASE ~Sc
    <3>1. Len(items) \in Nat /\ Len(items) > 0
      BY EmptySeq DEF IInv, TypeOK, HasItem
    <3>2. Cardinality(PopHelpers) >= Len(items) /\ Cardinality(PopHelpers) \in Nat
      BY <2>2, CountThreads DEF IInv, PopCovered, PopHelpers
    <3>3. PopHelpers # {}
      BY <3>1, <3>2, CountThreads DEF PopHelpers
    <3>. QED BY <3>3 DEF PopHelpers
  <2>. QED BY <2>1, <2>2, ChannelAssumption
<1>. QED BY <1>1, Inductive, PTL

(* No producer sleeps while there is room unless another thread is on its  *)
(* way: likewise for the notifications of pop(), clear() and close().      *)
THEOREM ProducersAreNotStranded == Spec => []NoStrandedEmplace
<1>1. IInv => NoStrandedEmplace
  <2>. SUFFICES ASSUME IInv, HasRoom, At("emplaceWait") # {},
                       ~closed, At("clearEmplace") = {}
                PROVE  \E t \in Threads : pc[t] \in {"notifyEmplace", "emplace", "emplaceThrew"}
    BY DEF NoStrandedEmplace, IInv, NoSleepAfterClose, At
  <2>1. CASE Sp
    BY <2>1 DEF IInv, EmplaceCovered, At
  <2>2. CASE ~Sp
    <3>1. Len(items) \in Nat /\ Len(items) < Max /\ Max \in Nat
      BY ChannelAssumption DEF IInv, TypeOK, HasRoom, OnlyBoundedBlocks
    <3>2. /\ Cardinality(EmplaceHelpers) >= Max - Len(items)
          /\ Cardinality(EmplaceHelpers) \in Nat
      BY <2>2, CountThreads DEF IInv, EmplaceCovered, EmplaceHelpers
    <3>3. EmplaceHelpers # {}
      BY <3>1, <3>2, CountThreads DEF EmplaceHelpers
    <3>. QED BY <3>3 DEF EmplaceHelpers
  <2>. QED BY <2>1, <2>2, ChannelAssumption
<1>. QED BY <1>1, Inductive, PTL

(* A thread blocked on a closed channel is about to be woken by close().   *)
THEOREM CloseWakesEverybody == Spec => []NoSleepAfterClose
<1>1. IInv => NoSleepAfterClose
  BY DEF IInv
<1>. QED BY <1>1, Inductive, PTL

(* After close() no step adds an item or reopens the channel.              *)
THEOREM DrainsAfterClose == Spec => OnlyDrainsAfterClose
<1>. DEFINE Drains == closed => /\ closed'
                                /\ \/ items' \in {items, <<>>}
                                   \/ items # <<>> /\ items' = Tail(items)
<1>1. [Next]_vars => Drains \/ UNCHANGED vars
  <2>1. ASSUME NEW t \in Threads, Call(t) PROVE Drains
    BY <2>1 DEF Move, Call, CallEmplace, CallPop, CallClose, CallClear
  <2>2. ASSUME NEW t \in Threads, Inside(t) PROVE Drains
    BY <2>2 DEF Move, Inside, EmplaceBlock, NotifyPop, PopBlock, NotifyEmplace, CloseSet,
                CloseNotifyPop, CloseNotifyEmplace, ClearItems, ClearNotify
  <2>3. ASSUME NEW t \in Threads, Outcome(t) PROVE Drains
    BY <2>3 DEF Move, Outcome, EmplacePush, EmplaceRefused, EmplaceThrow, PopTake, PopEnd, PopThrow,
                HasItem
  <2>4. ASSUME NEW t \in Threads, SpuriousWake(t) PROVE Drains
    BY <2>4 DEF Move, SpuriousWake
  <2>. QED BY <2>1, <2>2, <2>3, <2>4 DEF Next, Step
<1>2. [Next]_vars => [Drains]_vars
  BY <1>1
<1>. QED BY <1>2, PTL DEF Spec, OnlyDrainsAfterClose

-----------------------------------------------------------------------------
(* The channel implements the blocking queue, step by step.                *)

LEMMA GotoMaps ==
    ASSUME TypeOK, NEW t \in Threads, NEW to, Goto(t, to)
    PROVE  AbstractCall' = [AbstractCall EXCEPT ![t] = CallOf(to)]
<1>1. pc' = [pc EXCEPT ![t] = to] /\ pc \in [Threads -> Locations]
  BY DEF TypeOK, Goto
<1>2. \A u \in Threads : pc'[u] = IF u = t THEN to ELSE pc[u]
  BY <1>1
<1>. QED BY <1>2 DEF AbstractCall

(* Who is woken is still in the same call.                                 *)
LEMMA WakingMaps ==
    ASSUME TypeOK, NEW t \in Threads, CallOf(pc[t]) = "none",
           \/ NotifyOne(t, "popWait", "pop") \/ NotifyOne(t, "emplaceWait", "emplace")
           \/ \E next \in {"idle", "closeEmplace"} :
                 NotifyAll(t, next, "popWait", "pop") \/ NotifyAll(t, next, "emplaceWait", "emplace")
    PROVE  AbstractCall' = AbstractCall
<1>1. pc \in [Threads -> Locations]
  BY DEF TypeOK
<1>2. ASSUME NEW u \in Threads
      PROVE  \/ pc'[u] = pc[u]
             \/ u = t /\ pc'[u] \in {"idle", "closeEmplace"}
             \/ pc[u] = "popWait" /\ pc'[u] = "pop"
             \/ pc[u] = "emplaceWait" /\ pc'[u] = "emplace"
  BY <1>1 DEF NotifyOne, NotifyAll, Goto, At
<1>3. ASSUME NEW u \in Threads PROVE CallOf(pc'[u]) = CallOf(pc[u])
  BY <1>2, <1>3 DEF CallOf
<1>. QED BY <1>3 DEF AbstractCall

LEMMA QueueStep ==
    ASSUME TypeOK, [Next]_vars
    PROVE  [Abstract!Next]_(Abstract!vars)
<1>. USE DEF Abstract!vars
<1>1. ASSUME NEW t \in Threads PROVE AbstractCall[t] = CallOf(pc[t])
  BY DEF AbstractCall
<1>2. AbstractCall = [t \in Threads |-> CallOf(pc[t])]
  BY DEF AbstractCall
<1>3. ASSUME NEW t \in Threads, NEW from, NEW to, Move(t, from, to)
      PROVE  /\ AbstractCall[t] = CallOf(from) /\ UNCHANGED <<items, closed>>
             /\ AbstractCall' = [AbstractCall EXCEPT ![t] = CallOf(to)]
             /\ CallOf(from) = CallOf(to) => UNCHANGED <<items, closed, AbstractCall>>
  <2>1. AbstractCall' = [AbstractCall EXCEPT ![t] = CallOf(to)] /\ pc[t] = from
    BY <1>3, GotoMaps DEF Move
  <2>2. UNCHANGED <<items, closed>>
    BY <1>3 DEF Move
  <2>. QED BY <1>1, <1>2, <2>1, <2>2
<1>4. /\ CallOf("idle") = "none" /\ CallOf("emplace") = "emplace" /\ CallOf("emplaceWait") = "emplace"
      /\ CallOf("notifyPop") = "none" /\ CallOf("emplaceThrew") = "none"
      /\ CallOf("pop") = "pop" /\ CallOf("popWait") = "pop" /\ CallOf("notifyEmplace") = "none"
      /\ CallOf("popThrew") = "none" /\ CallOf("close") = "close" /\ CallOf("closePop") = "none"
      /\ CallOf("closeEmplace") = "none" /\ CallOf("clear") = "clear"
      /\ CallOf("clearEmplace") = "none"
  BY DEF CallOf
<1>5. ASSUME NEW t \in Threads, Call(t) PROVE Abstract!Begin(t)
  <2>1. CASE t \in Producers /\ CallEmplace(t)
    BY <1>3, <1>4, <2>1 DEF CallEmplace, Abstract!Begin
  <2>2. CASE t \in Consumers /\ CallPop(t)
    BY <1>3, <1>4, <2>2 DEF CallPop, Abstract!Begin
  <2>3. CASE t \in Closers /\ CallClose(t)
    BY <1>3, <1>4, <2>3 DEF CallClose, Abstract!Begin
  <2>4. CASE t \in Clearers /\ CallClear(t)
    BY <1>3, <1>4, <2>4 DEF CallClear, Abstract!Begin
  <2>. QED BY <1>5, <2>1, <2>2, <2>3, <2>4 DEF Call
<1>6. ASSUME NEW t \in Threads, Inside(t)
      PROVE  Abstract!Close(t) \/ Abstract!Clear(t) \/ UNCHANGED <<items, closed, AbstractCall>>
  <2>1. CASE EmplaceBlock(t) \/ PopBlock(t)
    BY <1>3, <1>4, <2>1 DEF EmplaceBlock, PopBlock
  <2>2. CASE NotifyPop(t) \/ NotifyEmplace(t)
    BY <1>4, <2>2, WakingMaps DEF NotifyPop, NotifyEmplace
  <2>3. CASE CloseNotifyPop(t) \/ CloseNotifyEmplace(t) \/ ClearNotify(t)
    BY <1>4, <2>3, WakingMaps DEF CloseNotifyPop, CloseNotifyEmplace, ClearNotify
  <2>4. CASE CloseSet(t)
    <3>1. AbstractCall' = [AbstractCall EXCEPT ![t] = CallOf("closePop")]
      BY <2>4, GotoMaps DEF CloseSet
    <3>. QED BY <1>1, <1>4, <2>4, <3>1 DEF CloseSet, Abstract!Close, Abstract!Finish
  <2>5. CASE ClearItems(t)
    BY <1>1, <1>4, <2>5, GotoMaps DEF ClearItems, Abstract!Clear, Abstract!Finish
  <2>. QED BY <1>6, <2>1, <2>2, <2>3, <2>4, <2>5 DEF Inside
<1>7. ASSUME NEW t \in Threads, Outcome(t)
      PROVE  \/ Abstract!Refuse(t) \/ Abstract!Take(t) \/ Abstract!End(t) \/ Abstract!Throw(t)
             \/ \E v \in Values : Abstract!Put(t, v)
  <2>1. ASSUME NEW v \in Values, EmplacePush(t, v) PROVE Abstract!Put(t, v)
    BY <1>1, <1>4, <2>1, GotoMaps
       DEF EmplacePush, HasRoom, Abstract!Put, Abstract!CanPut, Abstract!Finish
  <2>2. CASE PopTake(t)
    BY <1>1, <1>4, <2>2, GotoMaps DEF PopTake, HasItem, Abstract!Take, Abstract!Finish
  <2>3. CASE EmplaceRefused(t)
    <3>1. Move(t, "emplace", "idle")
      BY <2>3 DEF EmplaceRefused
    <3>2. /\ AbstractCall[t] = "emplace" /\ UNCHANGED <<items, closed>>
          /\ AbstractCall' = [AbstractCall EXCEPT ![t] = "none"]
      BY <1>3, <1>4, <3>1
    <3>. QED BY <2>3, <3>2 DEF EmplaceRefused, Abstract!Refuse, Abstract!Finish
  <2>4. CASE PopEnd(t)
    <3>1. Move(t, "pop", "idle")
      BY <2>4 DEF PopEnd
    <3>2. /\ AbstractCall[t] = "pop" /\ UNCHANGED <<items, closed>>
          /\ AbstractCall' = [AbstractCall EXCEPT ![t] = "none"]
      BY <1>3, <1>4, <3>1
    <3>. QED BY <2>4, <3>2 DEF PopEnd, HasItem, Abstract!End, Abstract!Finish
  <2>5. CASE EmplaceThrow(t)
    BY <1>3, <1>4, <2>5
       DEF EmplaceThrow, HasRoom, Abstract!Throw, Abstract!CanPut, Abstract!Finish
  <2>6. CASE PopThrow(t)
    BY <1>3, <1>4, <2>6 DEF PopThrow, HasItem, Abstract!Throw, Abstract!Finish
  <2>. QED BY <1>7, <2>1, <2>2, <2>3, <2>4, <2>5, <2>6 DEF Outcome
<1>8. ASSUME NEW t \in Threads, SpuriousWake(t) PROVE UNCHANGED <<items, closed, AbstractCall>>
  BY <1>3, <1>4, <1>8 DEF SpuriousWake
<1>9. CASE UNCHANGED vars
  BY <1>9 DEF vars, AbstractCall
<1>. QED BY <1>5, <1>6, <1>7, <1>8, <1>9 DEF Next, Step, Abstract!Next

(* The channel behaves as a blocking queue without mutex, condition        *)
(* variables or notifications: first in first out, nothing lost or         *)
(* delivered twice, false from emplace() only when closed, and from pop()  *)
(* only when closed and drained (channel.hpp:65-195), for any roles and    *)
(* sizes and with elements that throw.                                     *)
THEOREM StepsAreOfAQueue == Spec => ImplementsQueueSteps
<1>1. Init => Abstract!Init
  BY DEF Init, Abstract!Init, AbstractCall, CallOf
<1>. QED BY <1>1, QueueStep, TypeCorrect, PTL DEF Spec, ImplementsQueueSteps

=============================================================================
