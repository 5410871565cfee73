-------------------------- MODULE ThreadPoolProofs --------------------------
(***************************************************************************)
(* Proofs about ThreadPool, for any number of workers, clients and tasks,  *)
(* any max_jobs, and whoever may call what.                                *)
(***************************************************************************)
EXTENDS ThreadPoolRefinement, FiniteSetTheorems, SequenceTheorems, TLAPS

-----------------------------------------------------------------------------
(* The inductive invariant.                                                *)

(* The types without the bound on nb_working, which WorkingCount gives.    *)
Typed ==
    /\ tasks \in Seq(Tasks)
    /\ Bounded => Len(tasks) <= MaxJobs
    /\ stop \in BOOLEAN /\ destroying \in BOOLEAN
    /\ nbWorking \in Int
    /\ pc \in [Threads -> Locations]
    /\ held \in [Workers -> Tasks \cup {None}]
    /\ offer \in [Threads -> Tasks \cup {None}]
    /\ fate \in [Tasks -> Fates]

(* Workers and clients are where workers and clients can be; a thread      *)
(* offers a task exactly while it is inside enqueue_task(), a busy worker  *)
(* has a task; nobody waits for room in an unbounded queue; stop_now() is  *)
(* called by those who may call it.                                        *)
Placed ==
    /\ \A w \in Workers : pc[w] \in WorkerLocations \cup CallerLocations
    /\ \A c \in Clients : pc[c] \in CallerLocations \cup {"idle", "join", "gone"}
    /\ \A t \in Threads : pc[t] \in {"enqueue", "enqueueWait"} <=> offer[t] # None
    /\ \A w \in Busy : held[w] # None
    /\ At("enqueueWait") # {} => Bounded
    /\ At("stopNow") \subseteq StoppersNow

(* The destructor runs alone, as far as clients are concerned.             *)
DestroyedAlone ==
    /\ destroying => \A c \in Clients \ {Owner} : pc[c] = "idle"
    /\ destroying => pc[Owner] \in {"stop", "stopWorkers", "stopEnqueuers", "join", "gone"}
    /\ \A c \in Clients : pc[c] \in {"join", "gone"} => destroying

(* A pending task is offered, queued or in the hands of a busy worker; it  *)
(* is not pending any more when that worker reports it done.               *)
Accounted ==
    /\ \A j \in Tasks : fate[j] = "pending" =>
          \/ \E t \in Threads : offer[t] = j
          \/ \E i \in DOMAIN tasks : tasks[i] = j
          \/ \E w \in Busy : held[w] = j
    /\ \A w \in Workers : pc[w] = "done" => fate[held[w]] \notin {"new", "pending"}

IInv ==
    /\ Typed /\ Placed /\ DestroyedAlone
    /\ WorkingCount
    /\ NoStrandedTask /\ NoStrandedEnqueuer /\ NoStrandedWaiter
    /\ NoSleepAfterStop /\ RemainingTasksRun
    /\ Accounted

-----------------------------------------------------------------------------
(* Every step keeps the state well typed and a bounded queue within        *)
(* max_jobs: what is queued was offered, and there was room.               *)
LEMMA TypedStep ==
    ASSUME Typed, Placed, [Next]_vars
    PROVE  Typed'
<1>. USE ThreadPoolAssumption
     DEF Typed, Locations, WorkerLocations, CallerLocations, Fates, Goto, Move, data,
         At, HasRoom, Bounded, Threads, Return
<1>1. ASSUME NEW w \in Workers, WorkerStep(w) PROVE Typed'
  <2>1. CASE Start(w) \/ WorkerBlock(w) \/ WorkerExit(w)
    BY <2>1 DEF Start, WorkerBlock, WorkerExit
  <2>2. CASE WorkerTake(w)
    BY <2>2 DEF WorkerTake, Take, AfterTake
  <2>3. CASE WorkerNotify(w)
    BY <2>3 DEF WorkerNotify, NotifyOne
  <2>4. CASE WorkerRan(w) \/ WorkerDrop(w)
    BY <2>4 DEF WorkerRan, WorkerDrop
  <2>5. CASE WorkerDone(w)
    BY <2>5 DEF WorkerDone, NotifyAll
  <2>. QED BY <1>1, <2>1, <2>2, <2>3, <2>4, <2>5 DEF WorkerStep
<1>2. ASSUME NEW t \in Threads, CallStep(t) PROVE Typed'
  <2>1. CASE EnqueueBlock(t) \/ EnqueueRefused(t) \/ StopSet(t)
    BY <2>1 DEF EnqueueBlock, EnqueueRefused, StopSet
  <2>2. CASE EnqueuePush(t)
    BY <2>2 DEF EnqueuePush, Push, Placed
  <2>3. CASE NotifyWorker(t)
    BY <2>3 DEF NotifyWorker, NotifyOne
  <2>4. CASE StopNowSet(t)
    BY <2>4, EmptySeq DEF StopNowSet, DestroyTasks, NotifyAll
  <2>5. CASE StopWorkers(t) \/ StopEnqueuers(t)
    BY <2>5 DEF StopWorkers, StopEnqueuers, NotifyAll, AfterStopWorkers
  <2>6. CASE WaitAllBlock(t) \/ WaitAllReturn(t)
    BY <2>6 DEF WaitAllBlock, WaitAllReturn
  <2>. QED BY <1>2, <2>1, <2>2, <2>3, <2>4, <2>5, <2>6 DEF CallStep
<1>3. ASSUME NEW t \in Threads, Call(t) \/ SpuriousWake(t) PROVE Typed'
  BY <1>3 DEF Call, CallEnqueue, CallStop, CallWaitAll, SpuriousWake
<1>4. CASE CallDestroy
  BY <1>4 DEF CallDestroy
<1>5. CASE Joined
  BY <1>5, EmptySeq DEF Joined, DestroyTasks
<1>6. CASE UNCHANGED vars
  BY <1>6 DEF vars
<1>. QED BY <1>1, <1>2, <1>3, <1>4, <1>5, <1>6 DEF Next

(* A call of the pool never returns into a wait or a notification.         *)
LEMMA Returning ==
    /\ Workers \subseteq Threads /\ Clients \subseteq Threads
    /\ \A t \in Threads : Return(t) \in {"run", "join", "idle"}
BY DEF Threads, Return

(* It returns to the task body, to the destructor, or to the client.       *)
LEMMA ReturningTo ==
    /\ \A t \in Threads : t \in Workers <=> t \notin Clients
    /\ \A w \in Workers : Return(w) = "run"
    /\ \A c \in Clients : Return(c) = IF c = Owner /\ destroying THEN "join" ELSE "idle"
BY ThreadPoolAssumption DEF Threads, Return

(* Every step leaves each thread where it belongs.                         *)
LEMMA PlacedStep ==
    ASSUME Typed, Placed, DestroyedAlone, [Next]_vars
    PROVE  Placed'
<1>. USE ThreadPoolAssumption, Returning, ReturningTo
     DEF Typed, Placed, Busy, WorkerLocations, CallerLocations, Goto, Move, data,
         At, HasRoom, Bounded
<1>1. ASSUME NEW w \in Workers, WorkerStep(w) PROVE Placed'
  <2>1. CASE Start(w) \/ WorkerBlock(w) \/ WorkerExit(w)
    BY <2>1 DEF Start, WorkerBlock, WorkerExit
  <2>2. CASE WorkerTake(w)
    BY <2>2 DEF WorkerTake, Take, AfterTake
  <2>3. CASE WorkerNotify(w)
    <3>1. CASE At("enqueueWait") = {}
      BY <2>3, <3>1 DEF WorkerNotify, NotifyOne
    <3>2. CASE At("enqueueWait") # {}
      BY <2>3, <3>2 DEF WorkerNotify, NotifyOne
    <3>. QED BY <3>1, <3>2
  <2>4. CASE WorkerRan(w) \/ WorkerDrop(w)
    BY <2>4 DEF WorkerRan, WorkerDrop
  <2>5. CASE WorkerDone(w)
    BY <2>5 DEF WorkerDone, NotifyAll
  <2>. QED BY <1>1, <2>1, <2>2, <2>3, <2>4, <2>5 DEF WorkerStep
<1>2. ASSUME NEW t \in Threads, CallStep(t) PROVE Placed'
  <2>0. CASE EnqueueBlock(t)
    BY <2>0 DEF EnqueueBlock
  <2>1. CASE EnqueueRefused(t) \/ EnqueuePush(t)
    <3>1. CASE EnqueueRefused(t)
      BY <3>1 DEF EnqueueRefused
    <3>2. CASE EnqueuePush(t)
      BY <3>2 DEF EnqueuePush, Push
    <3>. QED BY <2>1, <3>1, <3>2
  <2>2. CASE NotifyWorker(t)
    BY <2>2 DEF NotifyWorker, NotifyOne
  <2>3. CASE StopSet(t) \/ StopNowSet(t)
    BY <2>3 DEF StopSet, StopNowSet, NotifyAll
  <2>4. CASE StopWorkers(t)
    BY <2>4 DEF StopWorkers, NotifyAll, AfterStopWorkers
  <2>5. CASE StopEnqueuers(t)
    BY <2>5 DEF StopEnqueuers, NotifyAll
  <2>6. CASE WaitAllBlock(t) \/ WaitAllReturn(t)
    BY <2>6 DEF WaitAllBlock, WaitAllReturn
  <2>. QED BY <1>2, <2>0, <2>1, <2>2, <2>3, <2>4, <2>5, <2>6 DEF CallStep
<1>3. ASSUME NEW t \in Threads, Call(t) PROVE Placed'
  BY <1>3 DEF Call, MayCall, CallEnqueue, CallStop, CallWaitAll, DestroyedAlone
<1>4. ASSUME NEW t \in Threads, SpuriousWake(t) PROVE Placed'
  <2>1. CASE Move(t, "wait", "lock")
    BY <2>1
  <2>2. CASE Move(t, "enqueueWait", "enqueue")
    BY <2>2
  <2>3. CASE Move(t, "waitAllWait", "waitAll")
    BY <2>3
  <2>. QED BY <1>4, <2>1, <2>2, <2>3 DEF SpuriousWake
<1>5. CASE CallDestroy \/ Joined
  BY <1>5 DEF CallDestroy, Joined, DestroyTasks
<1>6. CASE UNCHANGED vars
  BY <1>6 DEF vars
<1>. QED BY <1>1, <1>2, <1>3, <1>4, <1>5, <1>6 DEF Next

(* Once the destructor has begun no client makes a call, and only its      *)
(* owner is in it.                                                         *)
LEMMA AloneStep ==
    ASSUME Typed, Placed, DestroyedAlone, [Next]_vars
    PROVE  DestroyedAlone'
<1>. USE ThreadPoolAssumption, Returning, ReturningTo
     DEF Typed, Placed, DestroyedAlone, WorkerLocations, CallerLocations, Goto, Move, data, At
<1>1. ASSUME NEW w \in Workers, WorkerStep(w) PROVE DestroyedAlone'
  <2>1. CASE Start(w) \/ WorkerBlock(w) \/ WorkerExit(w) \/ WorkerTake(w)
    BY <2>1 DEF Start, WorkerBlock, WorkerExit, WorkerTake, Take
  <2>2. CASE WorkerNotify(w)
    BY <2>2 DEF WorkerNotify, NotifyOne
  <2>3. CASE WorkerRan(w) \/ WorkerDrop(w)
    BY <2>3 DEF WorkerRan, WorkerDrop
  <2>4. CASE WorkerDone(w)
    BY <2>4 DEF WorkerDone, NotifyAll
  <2>. QED BY <1>1, <2>1, <2>2, <2>3, <2>4 DEF WorkerStep
<1>2. ASSUME NEW t \in Threads, CallStep(t) PROVE DestroyedAlone'
  <2>1. CASE EnqueueBlock(t) \/ EnqueueRefused(t) \/ EnqueuePush(t)
    BY <2>1 DEF EnqueueBlock, EnqueueRefused, EnqueuePush, Push
  <2>2. CASE NotifyWorker(t)
    BY <2>2 DEF NotifyWorker, NotifyOne
  <2>3. CASE StopSet(t) \/ StopNowSet(t)
    BY <2>3 DEF StopSet, StopNowSet, NotifyAll
  <2>4. CASE StopWorkers(t) \/ StopEnqueuers(t)
    BY <2>4 DEF StopWorkers, StopEnqueuers, NotifyAll, AfterStopWorkers
  <2>5. CASE WaitAllBlock(t) \/ WaitAllReturn(t)
    BY <2>5 DEF WaitAllBlock, WaitAllReturn
  <2>. QED BY <1>2, <2>1, <2>2, <2>3, <2>4, <2>5 DEF CallStep
<1>3. ASSUME NEW t \in Threads, Call(t) PROVE DestroyedAlone'
  BY <1>3 DEF Call, MayCall, CallEnqueue, CallStop, CallWaitAll
<1>4. ASSUME NEW t \in Threads, SpuriousWake(t) PROVE DestroyedAlone'
  BY <1>4 DEF SpuriousWake
<1>5. CASE CallDestroy \/ Joined
  BY <1>5 DEF CallDestroy, Joined
<1>6. CASE UNCHANGED vars
  BY <1>6 DEF vars
<1>. QED BY <1>1, <1>2, <1>3, <1>4, <1>5, <1>6 DEF Next

-----------------------------------------------------------------------------
(* Only a worker that takes a task becomes busy, and only one that reports *)
(* its task done ceases to be; whatever else the workers, their tasks and  *)
(* the clients do leaves the busy workers and nb_working alone.            *)
LEMMA BusyStep ==
    ASSUME Typed, Placed, [Next]_vars
    PROVE  \/ Busy' = Busy /\ nbWorking' = nbWorking
           \/ \E w \in Workers \ Busy :
                 Busy' = Busy \cup {w} /\ nbWorking' = nbWorking + 1 /\ WorkerTake(w)
           \/ \E w \in Busy :
                 Busy' = Busy \ {w} /\ nbWorking' = nbWorking - 1 /\ WorkerDone(w)
<1>. DEFINE Same == Busy' = Busy /\ nbWorking' = nbWorking
<1>. USE ThreadPoolAssumption
     DEF Typed, Placed, Busy, WorkerLocations, CallerLocations, Goto, Move, data,
         At, Threads, Return
<1>1. ASSUME NEW w \in Workers, Start(w) \/ WorkerBlock(w) \/ WorkerExit(w) PROVE Same
  BY <1>1 DEF Start, WorkerBlock, WorkerExit
<1>2. ASSUME NEW w \in Workers, WorkerTake(w)
      PROVE  w \notin Busy /\ Busy' = Busy \cup {w} /\ nbWorking' = nbWorking + 1
  BY <1>2 DEF WorkerTake, Take, AfterTake
<1>3. ASSUME NEW w \in Workers, WorkerNotify(w) PROVE Same
  BY <1>3 DEF WorkerNotify, NotifyOne
<1>4. ASSUME NEW w \in Workers, WorkerRan(w) \/ WorkerDrop(w) PROVE Same
  BY <1>4 DEF WorkerRan, WorkerDrop
<1>5. ASSUME NEW w \in Workers, WorkerDone(w)
      PROVE  w \in Busy /\ Busy' = Busy \ {w} /\ nbWorking' = nbWorking - 1
  <2>1. CASE LastOne
    BY <1>5, <2>1 DEF WorkerDone, NotifyAll
  <2>2. CASE ~LastOne
    BY <1>5, <2>2 DEF WorkerDone
  <2>. QED BY <2>1, <2>2
<1>6. ASSUME NEW t \in Threads, EnqueueBlock(t) \/ EnqueueRefused(t) \/ EnqueuePush(t)
      PROVE  Same
  BY <1>6 DEF EnqueueBlock, EnqueueRefused, EnqueuePush, Push
<1>7. ASSUME NEW t \in Threads, NotifyWorker(t) PROVE Same
  BY <1>7 DEF NotifyWorker, NotifyOne
<1>8. ASSUME NEW t \in Threads, StopSet(t) \/ StopNowSet(t) PROVE Same
  BY <1>8 DEF StopSet, StopNowSet, NotifyAll
<1>9. ASSUME NEW t \in Threads, StopWorkers(t) \/ StopEnqueuers(t) PROVE Same
  BY <1>9 DEF StopWorkers, StopEnqueuers, NotifyAll, AfterStopWorkers
<1>10. ASSUME NEW t \in Threads, WaitAllBlock(t) \/ WaitAllReturn(t) PROVE Same
  BY <1>10 DEF WaitAllBlock, WaitAllReturn
<1>11. ASSUME NEW t \in Threads, Call(t) PROVE Same
  BY <1>11 DEF Call, MayCall, CallEnqueue, CallStop, CallWaitAll
<1>12. ASSUME NEW t \in Threads, SpuriousWake(t) PROVE Same
  BY <1>12 DEF SpuriousWake
<1>13. ASSUME CallDestroy \/ Joined PROVE Same
  BY <1>13 DEF CallDestroy, Joined
<1>14. ASSUME UNCHANGED vars PROVE Same
  BY <1>14 DEF vars
<1>15. ASSUME NEW t \in Threads, CallStep(t) PROVE Same
  BY <1>15, <1>6, <1>7, <1>8, <1>9, <1>10 DEF CallStep
<1>16. ASSUME NEW w \in Workers, WorkerStep(w)
       PROVE  Same \/ WorkerTake(w) \/ WorkerDone(w)
  BY <1>16, <1>1, <1>3, <1>4 DEF WorkerStep
<1>17. CASE \E w \in Workers : WorkerTake(w)
  BY <1>2, <1>17
<1>18. CASE \E w \in Workers : WorkerDone(w)
  BY <1>5, <1>18
<1>. HIDE DEF Same, Typed, Placed, Busy, Threads
<1>19. Same \/ (\E w \in Workers : WorkerTake(w)) \/ (\E w \in Workers : WorkerDone(w))
  BY <1>11, <1>12, <1>13, <1>14, <1>15, <1>16 DEF Next
<1>. QED BY <1>17, <1>18, <1>19 DEF Same

(* nb_working counts the busy workers.                                     *)
LEMMA CountStep ==
    ASSUME Typed, Placed, WorkingCount, [Next]_vars
    PROVE  WorkingCount'
<1>1. IsFiniteSet(Busy)
  BY ThreadPoolAssumption, FS_Subset DEF Busy
<1>2. CASE Busy' = Busy /\ nbWorking' = nbWorking
  BY <1>2 DEF WorkingCount
<1>3. ASSUME NEW w \in Workers \ Busy, Busy' = Busy \cup {w}, nbWorking' = nbWorking + 1
      PROVE  WorkingCount'
  BY <1>1, <1>3, FS_AddElement DEF WorkingCount
<1>4. ASSUME NEW w \in Busy, Busy' = Busy \ {w}, nbWorking' = nbWorking - 1
      PROVE  WorkingCount'
  BY <1>1, <1>4, FS_RemoveElement DEF WorkingCount
<1>. QED BY <1>2, <1>3, <1>4, BusyStep

(* So wait_all() and stop_now() find zero exactly when no task is running. *)
LEMMA CountBusy ==
    ASSUME WorkingCount
    PROVE  /\ nbWorking \in 0 .. Cardinality(Workers)
           /\ nbWorking = 0 <=> Busy = {}
<1>1. IsFiniteSet(Busy) /\ Busy \subseteq Workers
  BY ThreadPoolAssumption, FS_Subset DEF Busy
<1>2. Cardinality(Busy) \in Nat /\ Cardinality(Workers) \in Nat
      /\ Cardinality(Busy) <= Cardinality(Workers)
  BY <1>1, ThreadPoolAssumption, FS_CardinalityType, FS_Subset
<1>3. Cardinality(Busy) = 0 <=> Busy = {}
  BY <1>1, FS_EmptySet
<1>. QED BY <1>2, <1>3 DEF WorkingCount

-----------------------------------------------------------------------------
(* stop() and stop_now() wake everybody: whoever sets stop_ owes the two   *)
(* notify_all, and nobody goes to sleep once it is set.                    *)
LEMMA SleepStep ==
    ASSUME Typed, Placed, NoSleepAfterStop, [Next]_vars
    PROVE  NoSleepAfterStop'
<1>. USE Returning DEF Typed, NoSleepAfterStop, Goto, Move, data, At
<1>1. ASSUME NEW w \in Workers, WorkerStep(w) PROVE NoSleepAfterStop'
  <2>1. CASE Start(w) \/ WorkerBlock(w) \/ WorkerExit(w)
    <3>1. CASE Start(w)
      BY <3>1 DEF Start
    <3>2. CASE WorkerBlock(w)
      BY <3>2 DEF WorkerBlock
    <3>3. CASE WorkerExit(w)
      BY <3>3 DEF WorkerExit
    <3>. QED BY <2>1, <3>1, <3>2, <3>3
  <2>2. CASE WorkerTake(w)
    BY <2>2 DEF WorkerTake, Take, AfterTake
  <2>3. CASE WorkerNotify(w)
    BY <2>3 DEF WorkerNotify, NotifyOne
  <2>4. CASE WorkerRan(w) \/ WorkerDrop(w)
    <3>1. CASE WorkerRan(w)
      BY <3>1 DEF WorkerRan
    <3>2. CASE WorkerDrop(w)
      BY <3>2 DEF WorkerDrop
    <3>. QED BY <2>4, <3>1, <3>2
  <2>5. CASE WorkerDone(w)
    BY <2>5 DEF WorkerDone, NotifyAll
  <2>. QED BY <1>1, <2>1, <2>2, <2>3, <2>4, <2>5 DEF WorkerStep
<1>2. ASSUME NEW t \in Threads, CallStep(t) PROVE NoSleepAfterStop'
  <2>1. CASE EnqueueBlock(t) \/ EnqueueRefused(t) \/ EnqueuePush(t)
    <3>1. CASE EnqueueBlock(t)
      BY <3>1 DEF EnqueueBlock
    <3>2. CASE EnqueueRefused(t)
      BY <3>2 DEF EnqueueRefused
    <3>3. CASE EnqueuePush(t)
      BY <3>3 DEF EnqueuePush, Push
    <3>. QED BY <2>1, <3>1, <3>2, <3>3
  <2>2. CASE NotifyWorker(t)
    BY <2>2 DEF NotifyWorker, NotifyOne
  <2>3. CASE StopSet(t) \/ StopNowSet(t)
    BY <2>3 DEF StopSet, StopNowSet, NotifyAll
  <2>4. CASE StopWorkers(t)
    BY <2>4 DEF StopWorkers, NotifyAll, AfterStopWorkers, Placed
  <2>5. CASE StopEnqueuers(t)
    BY <2>5 DEF StopEnqueuers, NotifyAll
  <2>6. CASE WaitAllBlock(t) \/ WaitAllReturn(t)
    BY <2>6 DEF WaitAllBlock, WaitAllReturn
  <2>. QED BY <1>2, <2>1, <2>2, <2>3, <2>4, <2>5, <2>6 DEF CallStep
<1>3. ASSUME NEW t \in Threads, Call(t) PROVE NoSleepAfterStop'
  BY <1>3 DEF Call, MayCall, CallEnqueue, CallStop, CallWaitAll
<1>4. ASSUME NEW t \in Threads, SpuriousWake(t) PROVE NoSleepAfterStop'
  BY <1>4 DEF SpuriousWake
<1>5. CASE CallDestroy \/ Joined
  <2>1. PICK to \in Locations : pc' = [pc EXCEPT ![Owner] = to]
    BY <1>5 DEF CallDestroy, Joined, Locations, CallerLocations
  <2>2. pc[Owner] \in {"idle", "join"} /\ to \in {"stop", "gone"} /\ stop' = stop
    BY <1>5, <2>1, ThreadPoolAssumption DEF CallDestroy, Joined, Threads
  <2>. HIDE <1>5
  <2>. QED BY <2>1, <2>2
<1>6. CASE UNCHANGED vars
  BY <1>6 DEF vars
<1>. QED BY <1>1, <1>2, <1>3, <1>4, <1>5, <1>6 DEF Next

(* Nobody is left in wait_all(): the two steps that can empty the queue or *)
(* bring nb_working to zero notify in the same critical section.           *)
LEMMA WaiterStep ==
    ASSUME Typed, Placed, DestroyedAlone, WorkingCount, NoStrandedWaiter, [Next]_vars
    PROVE  NoStrandedWaiter'
<1>1. nbWorking \in Nat
  BY CountBusy
<1>. USE <1>1, ThreadPoolAssumption
     DEF Typed, NoStrandedWaiter, Quiet, Goto, Move, data, At, Threads, Return
<1>2. ASSUME NEW w \in Workers, WorkerStep(w) PROVE NoStrandedWaiter'
  <2>1. CASE Start(w) \/ WorkerBlock(w) \/ WorkerExit(w)
    BY <2>1 DEF Start, WorkerBlock, WorkerExit
  <2>2. CASE WorkerTake(w)
    BY <2>2 DEF WorkerTake, Take
  <2>3. CASE WorkerNotify(w)
    BY <2>3 DEF WorkerNotify, NotifyOne
  <2>4. CASE WorkerRan(w) \/ WorkerDrop(w)
    BY <2>4 DEF WorkerRan, WorkerDrop
  <2>5. CASE WorkerDone(w)
    BY <2>5 DEF WorkerDone, NotifyAll, LastOne
  <2>. QED BY <1>2, <2>1, <2>2, <2>3, <2>4, <2>5 DEF WorkerStep
<1>3. ASSUME NEW t \in Threads, CallStep(t) PROVE NoStrandedWaiter'
  <2>1. CASE EnqueueBlock(t) \/ EnqueueRefused(t)
    BY <2>1 DEF EnqueueBlock, EnqueueRefused
  <2>2. CASE EnqueuePush(t)
    BY <2>2 DEF EnqueuePush, Push, Placed
  <2>3. CASE NotifyWorker(t)
    BY <2>3 DEF NotifyWorker, NotifyOne
  <2>4. CASE StopSet(t)
    BY <2>4 DEF StopSet
  <2>5. CASE StopNowSet(t)
    BY <2>5 DEF StopNowSet, NotifyAll
  <2>6. CASE StopWorkers(t) \/ StopEnqueuers(t)
    BY <2>6 DEF StopWorkers, StopEnqueuers, NotifyAll, AfterStopWorkers
  <2>7. CASE WaitAllBlock(t) \/ WaitAllReturn(t)
    BY <2>7 DEF WaitAllBlock, WaitAllReturn
  <2>. QED BY <1>3, <2>1, <2>2, <2>3, <2>4, <2>5, <2>6, <2>7 DEF CallStep
<1>4. ASSUME NEW t \in Threads, Call(t) \/ SpuriousWake(t) PROVE NoStrandedWaiter'
  BY <1>4 DEF Call, CallEnqueue, CallStop, CallWaitAll, SpuriousWake
<1>5. CASE CallDestroy
  BY <1>5 DEF CallDestroy
<1>6. CASE Joined
  <2>1. At("waitAllWait") = {}
    BY <1>6 DEF Joined, DestroyedAlone
  <2>. QED BY <1>6, <2>1 DEF Joined
<1>7. CASE UNCHANGED vars
  BY <1>7 DEF vars
<1>. QED BY <1>2, <1>3, <1>4, <1>5, <1>6, <1>7 DEF Next

(* A worker leaves only when stop_ is set and the queue is empty, and then *)
(* nothing is queued any more; only stop_now() throws tasks away.          *)
LEMMA RemainingStep ==
    ASSUME Typed, Placed, RemainingTasksRun, [Next]_vars
    PROVE  RemainingTasksRun'
<1>. USE Returning DEF Typed, RemainingTasksRun, Goto, Move, data
<1>1. ASSUME NEW w \in Workers, WorkerStep(w) PROVE RemainingTasksRun'
  <2>1. CASE Start(w) \/ WorkerBlock(w) \/ WorkerExit(w)
    BY <2>1 DEF Start, WorkerBlock, WorkerExit
  <2>2. CASE WorkerTake(w)
    BY <2>2 DEF WorkerTake, Take, AfterTake
  <2>3. CASE WorkerNotify(w)
    BY <2>3 DEF WorkerNotify, NotifyOne, At
  <2>4. CASE WorkerRan(w) \/ WorkerDrop(w)
    BY <2>4 DEF WorkerRan, WorkerDrop
  <2>5. CASE WorkerDone(w)
    BY <2>5 DEF WorkerDone, NotifyAll
  <2>. QED BY <1>1, <2>1, <2>2, <2>3, <2>4, <2>5 DEF WorkerStep
<1>2. ASSUME NEW t \in Threads, CallStep(t) PROVE RemainingTasksRun'
  <2>1. CASE EnqueueBlock(t) \/ EnqueueRefused(t) \/ EnqueuePush(t)
    BY <2>1 DEF EnqueueBlock, EnqueueRefused, EnqueuePush, Push
  <2>2. CASE NotifyWorker(t)
    BY <2>2 DEF NotifyWorker, NotifyOne, At
  <2>3. CASE StopSet(t)
    BY <2>3 DEF StopSet
  <2>4. CASE StopNowSet(t)
    BY <2>4 DEF StopNowSet, NotifyAll, DestroyTasks, Placed, At
  <2>5. CASE StopWorkers(t) \/ StopEnqueuers(t)
    BY <2>5 DEF StopWorkers, StopEnqueuers, NotifyAll, AfterStopWorkers
  <2>6. CASE WaitAllBlock(t) \/ WaitAllReturn(t)
    BY <2>6 DEF WaitAllBlock, WaitAllReturn
  <2>. QED BY <1>2, <2>1, <2>2, <2>3, <2>4, <2>5, <2>6 DEF CallStep
<1>3. ASSUME NEW t \in Threads, Call(t) PROVE RemainingTasksRun'
  BY <1>3 DEF Call, MayCall, CallEnqueue, CallStop, CallWaitAll
<1>4. ASSUME NEW t \in Threads, SpuriousWake(t) PROVE RemainingTasksRun'
  BY <1>4 DEF SpuriousWake
<1>5. CASE CallDestroy
  BY <1>5, ThreadPoolAssumption DEF CallDestroy
<1>6. CASE Joined
  <2>1. Workers # {} => tasks = <<>>
    BY <1>6 DEF Joined
  <2>. QED BY <1>6, <2>1, ThreadPoolAssumption DEF Joined, DestroyTasks, Placed
<1>7. CASE UNCHANGED vars
  BY <1>7 DEF vars
<1>. QED BY <1>1, <1>2, <1>3, <1>4, <1>5, <1>6, <1>7 DEF Next

-----------------------------------------------------------------------------
(* Counting threads.                                                       *)
LEMMA CountThreads ==
    ASSUME NEW S \in SUBSET Threads
    PROVE  /\ Cardinality(S) \in Nat
           /\ \A T \in SUBSET Threads : S \subseteq T => Cardinality(S) <= Cardinality(T)
           /\ \A t \in Threads \ S : Cardinality(S \cup {t}) = Cardinality(S) + 1
           /\ \A t \in S : Cardinality(S \ {t}) = Cardinality(S) - 1
           /\ \A t \in S, u \in Threads \ S : Cardinality((S \ {t}) \cup {u}) = Cardinality(S)
<1>1. IsFiniteSet(Threads)
  BY ThreadPoolAssumption, FS_Union DEF Threads
<1>2. \A T \in SUBSET Threads : IsFiniteSet(T) /\ Cardinality(T) \in Nat
  BY <1>1, FS_Subset, FS_CardinalityType
<1>3. ASSUME NEW T \in SUBSET Threads, S \subseteq T
      PROVE  Cardinality(S) <= Cardinality(T)
  BY <1>2, <1>3, FS_Subset
<1>4. \A T \in SUBSET Threads : \A t \in Threads \ T :
          Cardinality(T \cup {t}) = Cardinality(T) + 1
  BY <1>2, FS_AddElement
<1>5. ASSUME NEW t \in S
      PROVE  Cardinality(S \ {t}) = Cardinality(S) - 1
  BY <1>2, FS_RemoveElement
<1>6. ASSUME NEW t \in S, NEW u \in Threads \ S
      PROVE  Cardinality((S \ {t}) \cup {u}) = Cardinality(S)
  <2>. DEFINE R == S \ {t}
  <2>1. R \in SUBSET Threads /\ u \in Threads \ R
    OBVIOUS
  <2>2. Cardinality(R \cup {u}) = Cardinality(R) + 1
    BY <1>4, <2>1
  <2>. QED BY <1>2, <1>5, <2>2
<1>. QED BY <1>2, <1>3, <1>4, <1>5, <1>6

(* The threads on their way to a task, and to a free slot.                 *)
TaskHelpers == At("notifyWorker") \cup At("lock")
RoomHelpers == At("notifyRoom") \cup At("enqueue")

(* Most steps queue nothing, put no worker to sleep and remove nobody who  *)
(* is on the way to a task.                                                *)
LEMMA QuietTask ==
    ASSUME Typed, Typed', NoStrandedTask,
           Len(tasks') <= Len(tasks),
           At("wait")' \subseteq At("wait"),
           At("stopWorkers") \subseteq At("stopWorkers")',
           TaskHelpers \subseteq TaskHelpers'
    PROVE  NoStrandedTask'
<1>1. TaskHelpers \in SUBSET Threads /\ TaskHelpers' \in SUBSET Threads
  BY DEF TaskHelpers, At
<1>2. Cardinality(TaskHelpers) <= Cardinality(TaskHelpers')
      /\ Cardinality(TaskHelpers) \in Nat /\ Cardinality(TaskHelpers') \in Nat
  BY <1>1, CountThreads
<1>3. Len(tasks) \in Nat /\ Len(tasks') \in Nat
  BY DEF Typed
<1>. QED BY <1>2, <1>3 DEF NoStrandedTask, TaskHelpers

(* Dually, most steps free no slot, put nobody to sleep in enqueue_task()  *)
(* and remove nobody who is on the way to a free slot.                     *)
LEMMA QuietRoom ==
    ASSUME Typed, Typed', NoStrandedEnqueuer,
           Len(tasks') >= Len(tasks),
           At("enqueueWait")' \subseteq At("enqueueWait"),
           stop => stop',
           RoomHelpers \subseteq RoomHelpers'
    PROVE  NoStrandedEnqueuer'
<1>1. RoomHelpers \in SUBSET Threads /\ RoomHelpers' \in SUBSET Threads
  BY DEF RoomHelpers, At
<1>2. Cardinality(RoomHelpers) <= Cardinality(RoomHelpers')
      /\ Cardinality(RoomHelpers) \in Nat /\ Cardinality(RoomHelpers') \in Nat
  BY <1>1, CountThreads
<1>3. Len(tasks) \in Nat /\ Len(tasks') \in Nat /\ MaxJobs \in Nat
  BY ThreadPoolAssumption DEF Typed
<1>. QED BY <1>2, <1>3 DEF NoStrandedEnqueuer, RoomHelpers

(* A task adds a notifier when it is queued and takes a looker away when   *)
(* it is taken; a worker goes to sleep, or leaves, on an empty queue only. *)
LEMMA TaskStep ==
    ASSUME Typed, Typed', NoStrandedTask, [Next]_vars
    PROVE  NoStrandedTask'
<1>. DEFINE Quiet1 == /\ Len(tasks') <= Len(tasks)
                      /\ At("wait")' \subseteq At("wait")
                      /\ At("stopWorkers") \subseteq At("stopWorkers")'
                      /\ TaskHelpers \subseteq TaskHelpers'
<1>1. Quiet1 => NoStrandedTask'
  BY QuietTask
<1>2. /\ TaskHelpers \in SUBSET Threads /\ TaskHelpers' \in SUBSET Threads
      /\ Cardinality(TaskHelpers) \in Nat /\ Cardinality(TaskHelpers') \in Nat
      /\ Len(tasks) \in Nat /\ Len(tasks') \in Nat
  BY CountThreads DEF Typed, TaskHelpers, At
<1>3. tasks' = <<>> => NoStrandedTask'
  BY <1>2 DEF NoStrandedTask, TaskHelpers
<1>4. At("wait")' = {} => NoStrandedTask'
  BY DEF NoStrandedTask
<1>5. At("stopWorkers")' # {} => NoStrandedTask'
  BY DEF NoStrandedTask
<1>. USE Returning DEF Typed, Goto, Move, data
<1>6. ASSUME NEW w \in Workers, WorkerStep(w) PROVE NoStrandedTask'
  <2>1. CASE WorkerBlock(w) \/ WorkerExit(w)
    BY <2>1, <1>3 DEF WorkerBlock, WorkerExit
  <2>2. CASE WorkerTake(w)
    <3>1. Len(tasks') = Len(tasks) - 1 /\ Len(tasks) \in Nat
      BY <2>2 DEF WorkerTake, Take
    <3>2. w \in TaskHelpers /\ TaskHelpers' = TaskHelpers \ {w}
      BY <2>2 DEF WorkerTake, Take, AfterTake, TaskHelpers, At
    <3>3. Cardinality(TaskHelpers') = Cardinality(TaskHelpers) - 1
      BY <1>2, <3>2, CountThreads
    <3>4. At("wait")' = At("wait") /\ At("stopWorkers")' = At("stopWorkers")
      BY <2>2 DEF WorkerTake, Take, AfterTake, At
    <3>. QED BY <1>2, <3>1, <3>3, <3>4 DEF NoStrandedTask, TaskHelpers
  <2>3. CASE Start(w) \/ WorkerRan(w) \/ WorkerDrop(w)
    <3>. Quiet1
      BY <2>3 DEF Start, WorkerRan, WorkerDrop, TaskHelpers, At
    <3>. QED BY <1>1
  <2>4. CASE WorkerNotify(w)
    <3>. Quiet1
      BY <2>4 DEF WorkerNotify, NotifyOne, TaskHelpers, At
    <3>. QED BY <1>1
  <2>5. CASE WorkerDone(w)
    <3>. Quiet1
      BY <2>5 DEF WorkerDone, NotifyAll, TaskHelpers, At
    <3>. QED BY <1>1
  <2>. QED BY <1>6, <2>1, <2>2, <2>3, <2>4, <2>5 DEF WorkerStep
<1>7. ASSUME NEW t \in Threads, CallStep(t) PROVE NoStrandedTask'
  <2>1. CASE EnqueueBlock(t) \/ EnqueueRefused(t)
    <3>. Quiet1
      BY <2>1 DEF EnqueueBlock, EnqueueRefused, TaskHelpers, At
    <3>. QED BY <1>1
  <2>2. CASE EnqueuePush(t)
    <3>1. Len(tasks') = Len(tasks) + 1
      BY <2>2 DEF EnqueuePush, Push
    <3>2. t \in Threads \ TaskHelpers /\ TaskHelpers' = TaskHelpers \cup {t}
      BY <2>2 DEF EnqueuePush, Push, TaskHelpers, At
    <3>3. Cardinality(TaskHelpers') = Cardinality(TaskHelpers) + 1
      BY <1>2, <3>2, CountThreads
    <3>4. At("wait")' = At("wait") /\ At("stopWorkers")' = At("stopWorkers")
      BY <2>2 DEF EnqueuePush, Push, At
    <3>. QED BY <1>2, <3>1, <3>3, <3>4 DEF NoStrandedTask, TaskHelpers
  <2>3. CASE NotifyWorker(t) /\ At("wait") = {}
    BY <2>3, <1>4 DEF NotifyWorker, NotifyOne, At
  <2>4. CASE NotifyWorker(t) /\ At("wait") # {}
    <3>1. PICK w \in At("wait") : pc' = [pc EXCEPT ![t] = Return(t), ![w] = "lock"]
      BY <2>4 DEF NotifyWorker, NotifyOne
    <3>2. /\ t \in TaskHelpers /\ w \in Threads \ TaskHelpers
          /\ TaskHelpers' = (TaskHelpers \ {t}) \cup {w}
      BY <2>4, <3>1 DEF NotifyWorker, TaskHelpers, At
    <3>3. Cardinality(TaskHelpers') = Cardinality(TaskHelpers)
      BY <1>2, <3>2, CountThreads
    <3>4. tasks' = tasks /\ At("stopWorkers")' = At("stopWorkers")
      BY <2>4, <3>1 DEF NotifyWorker, At
    <3>. QED BY <2>4, <3>3, <3>4 DEF NoStrandedTask, TaskHelpers
  <2>5. CASE StopSet(t)
    BY <2>5, <1>5 DEF StopSet, At
  <2>6. CASE StopNowSet(t)
    BY <2>6, <1>5 DEF StopNowSet, NotifyAll, At
  <2>7. CASE StopWorkers(t)
    <3>. At("wait")' = {}
      BY <2>7 DEF StopWorkers, NotifyAll, AfterStopWorkers, At
    <3>. QED BY <1>4
  <2>8. CASE StopEnqueuers(t)
    <3>. Quiet1
      BY <2>8 DEF StopEnqueuers, NotifyAll, TaskHelpers, At
    <3>. QED BY <1>1
  <2>9. CASE WaitAllBlock(t) \/ WaitAllReturn(t)
    <3>. Quiet1
      BY <2>9 DEF WaitAllBlock, WaitAllReturn, TaskHelpers, At
    <3>. QED BY <1>1
  <2>. QED BY <1>7, <2>1, <2>2, <2>3, <2>4, <2>5, <2>6, <2>7, <2>8, <2>9 DEF CallStep
<1>8. ASSUME NEW t \in Threads, Call(t) \/ SpuriousWake(t) PROVE NoStrandedTask'
  <2>1. CASE Call(t)
    <3>. Quiet1
      BY <2>1 DEF Call, MayCall, CallEnqueue, CallStop, CallWaitAll, TaskHelpers, At
    <3>. QED BY <1>1
  <2>2. CASE SpuriousWake(t)
    <3>. Quiet1
      BY <2>2 DEF SpuriousWake, TaskHelpers, At
    <3>. QED BY <1>1
  <2>. QED BY <1>8, <2>1, <2>2
<1>9. CASE CallDestroy
  <2>. Quiet1
    BY <1>9, ThreadPoolAssumption DEF CallDestroy, TaskHelpers, At
  <2>. QED BY <1>1
<1>10. CASE Joined
  BY <1>10, <1>3 DEF Joined, DestroyTasks
<1>11. CASE UNCHANGED vars
  <2>. Quiet1
    BY <1>11 DEF vars, TaskHelpers, At
  <2>. QED BY <1>1
<1>. QED BY <1>6, <1>7, <1>8, <1>9, <1>10, <1>11 DEF Next

(* A taken task adds a notifier, a queued one takes an enqueuer away; an   *)
(* enqueuer goes to sleep only when the queue is full.                     *)
LEMMA EnqueuerStep ==
    ASSUME Typed, Typed', Placed, DestroyedAlone, NoStrandedEnqueuer, [Next]_vars
    PROVE  NoStrandedEnqueuer'
<1>. DEFINE Quiet2 == /\ Len(tasks') >= Len(tasks)
                      /\ At("enqueueWait")' \subseteq At("enqueueWait")
                      /\ stop => stop'
                      /\ RoomHelpers \subseteq RoomHelpers'
<1>1. Quiet2 => NoStrandedEnqueuer'
  BY QuietRoom
<1>2. /\ RoomHelpers \in SUBSET Threads /\ RoomHelpers' \in SUBSET Threads
      /\ Cardinality(RoomHelpers) \in Nat /\ Cardinality(RoomHelpers') \in Nat
      /\ Len(tasks) \in Nat /\ Len(tasks') \in Nat /\ MaxJobs \in Nat
  BY CountThreads, ThreadPoolAssumption DEF Typed, RoomHelpers, At
<1>3. stop' \/ At("enqueueWait")' = {} => NoStrandedEnqueuer'
  BY DEF NoStrandedEnqueuer
<1>. USE Returning DEF Typed, Goto, Move, data
<1>4. ASSUME NEW w \in Workers, WorkerStep(w) PROVE NoStrandedEnqueuer'
  <2>1. CASE Start(w) \/ WorkerBlock(w) \/ WorkerExit(w)
    <3>. Quiet2
      BY <2>1 DEF Start, WorkerBlock, WorkerExit, RoomHelpers, At
    <3>. QED BY <1>1
  <2>2. CASE WorkerTake(w) /\ Bounded
    <3>1. Len(tasks') = Len(tasks) - 1
      BY <2>2 DEF WorkerTake, Take
    <3>2. w \in Threads \ RoomHelpers /\ RoomHelpers' = RoomHelpers \cup {w}
      BY <2>2 DEF WorkerTake, Take, AfterTake, RoomHelpers, At
    <3>3. Cardinality(RoomHelpers') = Cardinality(RoomHelpers) + 1
      BY <1>2, <3>2, CountThreads
    <3>4. At("enqueueWait")' = At("enqueueWait") /\ stop' = stop
      BY <2>2 DEF WorkerTake, Take, AfterTake, At
    <3>. QED BY <1>2, <3>1, <3>3, <3>4 DEF NoStrandedEnqueuer, RoomHelpers
  <2>3. CASE WorkerTake(w) /\ ~Bounded
    <3>1. At("enqueueWait") = {}
      BY <2>3 DEF Placed
    <3>. At("enqueueWait")' = {}
      BY <2>3, <3>1 DEF WorkerTake, Take, AfterTake, At
    <3>. QED BY <1>3
  <2>4. CASE WorkerNotify(w) /\ At("enqueueWait") = {}
    <3>. At("enqueueWait")' = {}
      BY <2>4 DEF WorkerNotify, NotifyOne, At
    <3>. QED BY <1>3
  <2>5. CASE WorkerNotify(w) /\ At("enqueueWait") # {}
    <3>1. PICK u \in At("enqueueWait") : pc' = [pc EXCEPT ![w] = "run", ![u] = "enqueue"]
      BY <2>5 DEF WorkerNotify, NotifyOne
    <3>2. /\ w \in RoomHelpers /\ u \in Threads \ RoomHelpers
          /\ RoomHelpers' = (RoomHelpers \ {w}) \cup {u}
      BY <2>5, <3>1 DEF WorkerNotify, RoomHelpers, At
    <3>3. Cardinality(RoomHelpers') = Cardinality(RoomHelpers)
      BY <1>2, <3>2, CountThreads
    <3>4. tasks' = tasks /\ stop' = stop
      BY <2>5 DEF WorkerNotify
    <3>. QED BY <2>5, <3>3, <3>4 DEF NoStrandedEnqueuer, RoomHelpers
  <2>6. CASE WorkerRan(w) \/ WorkerDrop(w)
    <3>. Quiet2
      BY <2>6 DEF WorkerRan, WorkerDrop, RoomHelpers, At
    <3>. QED BY <1>1
  <2>7. CASE WorkerDone(w)
    <3>. Quiet2
      BY <2>7 DEF WorkerDone, NotifyAll, RoomHelpers, At
    <3>. QED BY <1>1
  <2>. QED BY <1>4, <2>1, <2>2, <2>3, <2>4, <2>5, <2>6, <2>7 DEF WorkerStep
<1>5. ASSUME NEW t \in Threads, CallStep(t) PROVE NoStrandedEnqueuer'
  <2>1. CASE EnqueueBlock(t)
    <3>1. tasks' = tasks /\ MaxJobs - Len(tasks) <= 0
      BY <2>1, <1>2 DEF EnqueueBlock, HasRoom, Bounded
    <3>. QED BY <1>2, <3>1 DEF NoStrandedEnqueuer, RoomHelpers
  <2>2. CASE EnqueueRefused(t)
    BY <2>2, <1>3 DEF EnqueueRefused
  <2>3. CASE EnqueuePush(t)
    <3>1. Len(tasks') = Len(tasks) + 1
      BY <2>3 DEF EnqueuePush, Push
    <3>2. t \in RoomHelpers /\ RoomHelpers' = RoomHelpers \ {t}
      BY <2>3 DEF EnqueuePush, Push, RoomHelpers, At
    <3>3. Cardinality(RoomHelpers') = Cardinality(RoomHelpers) - 1
      BY <1>2, <3>2, CountThreads
    <3>4. At("enqueueWait")' = At("enqueueWait") /\ stop' = stop
      BY <2>3 DEF EnqueuePush, Push, At
    <3>. QED BY <1>2, <3>1, <3>3, <3>4 DEF NoStrandedEnqueuer, RoomHelpers
  <2>4. CASE NotifyWorker(t)
    <3>. Quiet2
      <4>1. CASE At("wait") = {}
        BY <2>4, <4>1 DEF NotifyWorker, NotifyOne, RoomHelpers, At
      <4>2. CASE At("wait") # {}
        BY <2>4, <4>2 DEF NotifyWorker, NotifyOne, RoomHelpers, At
      <4>. QED BY <4>1, <4>2
    <3>. QED BY <1>1
  <2>5. CASE StopSet(t) \/ StopNowSet(t)
    BY <2>5, <1>3 DEF StopSet, StopNowSet
  <2>6. CASE StopWorkers(t)
    <3>. Quiet2
      BY <2>6 DEF StopWorkers, NotifyAll, AfterStopWorkers, RoomHelpers, At
    <3>. QED BY <1>1
  <2>7. CASE StopEnqueuers(t)
    <3>. At("enqueueWait")' = {}
      BY <2>7 DEF StopEnqueuers, NotifyAll, At
    <3>. QED BY <1>3
  <2>8. CASE WaitAllBlock(t) \/ WaitAllReturn(t)
    <3>. Quiet2
      BY <2>8 DEF WaitAllBlock, WaitAllReturn, RoomHelpers, At
    <3>. QED BY <1>1
  <2>. QED BY <1>5, <2>1, <2>2, <2>3, <2>4, <2>5, <2>6, <2>7, <2>8 DEF CallStep
<1>6. ASSUME NEW t \in Threads, Call(t) PROVE NoStrandedEnqueuer'
  <2>. Quiet2
    BY <1>6 DEF Call, MayCall, CallEnqueue, CallStop, CallWaitAll, RoomHelpers, At
  <2>. QED BY <1>1
<1>7. ASSUME NEW t \in Threads, SpuriousWake(t) PROVE NoStrandedEnqueuer'
  <2>. Quiet2
    BY <1>7 DEF SpuriousWake, RoomHelpers, At
  <2>. QED BY <1>1
<1>8. CASE CallDestroy
  <2>. Quiet2
    BY <1>8, ThreadPoolAssumption DEF CallDestroy, RoomHelpers, At
  <2>. QED BY <1>1
<1>9. CASE Joined
  <2>. At("enqueueWait")' = {}
    BY <1>9, ThreadPoolAssumption DEF Joined, DestroyedAlone, At, Threads
  <2>. QED BY <1>3
<1>10. CASE UNCHANGED vars
  <2>. Quiet2
    BY <1>10 DEF vars, RoomHelpers, At
  <2>. QED BY <1>1
<1>. QED BY <1>4, <1>5, <1>6, <1>7, <1>8, <1>9, <1>10 DEF Next

-----------------------------------------------------------------------------
(* No step loses sight of a pending task.                                  *)
LEMMA AccountedStep ==
    ASSUME Typed, Placed, Accounted, [Next]_vars
    PROVE  Accounted'
<1>. DEFINE Done == {w \in Workers : pc[w] = "done"}
<1>1. ASSUME UNCHANGED <<tasks, held, offer, fate>>, Busy' = Busy, Done' \subseteq Done
      PROVE  Accounted'
  BY <1>1 DEF Accounted
<1>. USE Returning DEF Typed, Goto, Move, data
<1>2. ASSUME NEW w \in Workers, Start(w) \/ WorkerBlock(w) \/ WorkerExit(w)
      PROVE  Accounted'
  <2>. UNCHANGED <<tasks, held, offer, fate>> /\ Busy' = Busy /\ Done' \subseteq Done
    BY <1>2 DEF Start, WorkerBlock, WorkerExit, Busy, CallerLocations
  <2>. QED BY <1>1
<1>3. ASSUME NEW w \in Workers, WorkerTake(w) PROVE Accounted'
  <2>1. /\ w \notin Busy /\ Busy' = Busy \cup {w} /\ Done' = Done
        /\ held' = [held EXCEPT ![w] = Head(tasks)]
        /\ tasks # <<>> /\ tasks' = Tail(tasks) /\ UNCHANGED <<offer, fate>>
    BY <1>3 DEF WorkerTake, Take, AfterTake, Busy, CallerLocations
  <2>2. ASSUME NEW i \in DOMAIN tasks
        PROVE  held'[w] = tasks[i] \/ \E k \in DOMAIN tasks' : tasks'[k] = tasks[i]
    <3>1. CASE i = 1
      BY <2>1, <3>1
    <3>2. CASE i # 1
      <4>1. i - 1 \in DOMAIN tasks' /\ tasks'[i - 1] = tasks[i]
        BY <2>1, <3>2
      <4>. QED BY <4>1
    <3>. QED BY <3>1, <3>2
  <2>3. \A u \in Busy : held'[u] = held[u]
    BY <2>1
  <2>4. \A u \in Done' : held'[u] = held[u]
    BY <1>3, <2>1 DEF WorkerTake, Take
  <2>. HIDE DEF Done
  <2>5. ASSUME NEW j \in Tasks, fate[j] = "pending"
        PROVE  \/ \E t \in Threads : offer[t] = j
               \/ \E k \in DOMAIN tasks' : tasks'[k] = j
               \/ \E u \in Busy' : held'[u] = j
    <3>1. CASE \E t \in Threads : offer[t] = j
      BY <3>1
    <3>2. CASE \E i \in DOMAIN tasks : tasks[i] = j
      <4>1. w \in Busy'
        BY <2>1
      <4>. QED BY <3>2, <2>2, <4>1
    <3>3. CASE \E u \in Busy : held[u] = j
      <4>1. Busy \subseteq Busy'
        BY <2>1
      <4>. QED BY <3>3, <2>3, <4>1
    <3>. QED BY <2>5, <3>1, <3>2, <3>3 DEF Accounted
  <2>6. \A u \in Done' : fate'[held'[u]] \notin {"new", "pending"}
    BY <2>1, <2>4 DEF Accounted, Done
  <2>. QED BY <2>1, <2>5, <2>6 DEF Accounted, Done
<1>4. ASSUME NEW w \in Workers, WorkerNotify(w) PROVE Accounted'
  <2>. UNCHANGED <<tasks, held, offer, fate>> /\ Busy' = Busy /\ Done' \subseteq Done
    BY <1>4 DEF WorkerNotify, NotifyOne, Busy, CallerLocations, At
  <2>. QED BY <1>1
<1>5. ASSUME NEW w \in Workers, WorkerRan(w) PROVE Accounted'
  <2>1. /\ w \in Busy /\ Busy' = Busy /\ Done' = Done \cup {w}
        /\ UNCHANGED <<tasks, held, offer>> /\ fate' = [fate EXCEPT ![held[w]] = "ready"]
    BY <1>5 DEF WorkerRan, Busy, CallerLocations
  <2>2. held[w] \in Tasks
    BY <2>1 DEF Placed
  <2>. QED BY <2>1, <2>2 DEF Accounted
<1>6. ASSUME NEW w \in Workers, WorkerDone(w) PROVE Accounted'
  <2>1. UNCHANGED <<tasks, held, offer, fate>> /\ w \in Done
    BY <1>6 DEF WorkerDone
  <2>2. Busy' = Busy \ {w} /\ Done' = Done \ {w}
    <3>1. CASE LastOne
      BY <1>6, <3>1 DEF WorkerDone, NotifyAll, Busy, CallerLocations
    <3>2. CASE ~LastOne
      BY <1>6, <3>2 DEF WorkerDone, Busy, CallerLocations
    <3>. QED BY <3>1, <3>2
  <2>. QED BY <2>1, <2>2 DEF Accounted
<1>7. ASSUME NEW w \in Workers, WorkerDrop(w) PROVE Accounted'
  <2>1. /\ w \notin Busy /\ Busy' = Busy /\ w \notin Done /\ Done' = Done
        /\ UNCHANGED <<tasks, offer, fate>> /\ held' = [held EXCEPT ![w] = None]
    BY <1>7 DEF WorkerDrop, Busy, CallerLocations
  <2>. QED BY <2>1 DEF Accounted
<1>8. ASSUME NEW t \in Threads, EnqueueRefused(t) PROVE Accounted'
  <2>1. /\ offer[t] # None /\ offer' = [offer EXCEPT ![t] = None]
        /\ fate' = [fate EXCEPT ![offer[t]] = "refused"] /\ UNCHANGED <<tasks, held>>
    BY <1>8 DEF EnqueueRefused, Placed
  <2>2. Busy' = Busy /\ Done' = Done
    BY <1>8, ReturningTo DEF EnqueueRefused, Busy, CallerLocations
  <2>. QED BY <2>1, <2>2 DEF Accounted
<1>9. ASSUME NEW t \in Threads, EnqueuePush(t) PROVE Accounted'
  <2>1. /\ offer[t] \in Tasks /\ offer' = [offer EXCEPT ![t] = None]
        /\ tasks' = Append(tasks, offer[t]) /\ UNCHANGED <<held, fate>>
    BY <1>9 DEF EnqueuePush, Push, Placed
  <2>2. Busy' = Busy /\ Done' = Done
    BY <1>9 DEF EnqueuePush, Push, Busy, CallerLocations
  <2>3. /\ \A i \in DOMAIN tasks : i \in DOMAIN tasks' /\ tasks'[i] = tasks[i]
        /\ Len(tasks) + 1 \in DOMAIN tasks' /\ tasks'[Len(tasks) + 1] = offer[t]
    BY <2>1
  <2>4. ASSUME NEW j \in Tasks, fate[j] = "pending"
        PROVE  \/ \E u \in Threads : offer'[u] = j
               \/ \E k \in DOMAIN tasks' : tasks'[k] = j
               \/ \E w \in Busy : held[w] = j
    <3>1. CASE \E u \in Threads : offer[u] = j
      <4>1. PICK u \in Threads : offer[u] = j
        BY <3>1
      <4>2. CASE u = t
        BY <4>1, <4>2, <2>3
      <4>3. CASE u # t
        BY <4>1, <4>3, <2>1
      <4>. QED BY <4>2, <4>3
    <3>2. CASE \E i \in DOMAIN tasks : tasks[i] = j
      BY <3>2, <2>3
    <3>3. CASE \E w \in Busy : held[w] = j
      BY <3>3
    <3>. QED BY <2>4, <3>1, <3>2, <3>3 DEF Accounted
  <2>. QED BY <2>1, <2>2, <2>4 DEF Accounted
<1>10. ASSUME NEW t \in Threads, EnqueueBlock(t) \/ WaitAllBlock(t) \/ WaitAllReturn(t) \/ StopSet(t)
       PROVE  Accounted'
  <2>. UNCHANGED <<tasks, held, offer, fate>> /\ Busy' = Busy /\ Done' \subseteq Done
    BY <1>10, ReturningTo
       DEF EnqueueBlock, WaitAllBlock, WaitAllReturn, StopSet, Busy, CallerLocations
  <2>. QED BY <1>1
<1>11. ASSUME NEW t \in Threads, NotifyWorker(t) PROVE Accounted'
  <2>. UNCHANGED <<tasks, held, offer, fate>> /\ Busy' = Busy /\ Done' \subseteq Done
    BY <1>11, ReturningTo DEF NotifyWorker, NotifyOne, Busy, CallerLocations, At
  <2>. QED BY <1>1
<1>12. ASSUME DestroyTasks, UNCHANGED <<held, offer>>, Busy' = Busy, Done' \subseteq Done
       PROVE  Accounted'
  <2>1. ASSUME NEW j \in Tasks, fate'[j] = "pending"
        PROVE  (\E t \in Threads : offer'[t] = j) \/ (\E w \in Busy' : held'[w] = j)
    <3>1. fate[j] = "pending" /\ ~ \E i \in DOMAIN tasks : tasks[i] = j
      BY <1>12, <2>1 DEF DestroyTasks
    <3>. QED BY <1>12, <3>1 DEF Accounted
  <2>2. ASSUME NEW w \in Done'
        PROVE  fate'[held'[w]] \notin {"new", "pending"}
    <3>1. w \in Done /\ held'[w] = held[w] /\ held[w] \in Tasks
      BY <1>12 DEF Placed, Busy
    <3>2. fate[held[w]] \notin {"new", "pending"}
      BY <3>1 DEF Accounted
    <3>. QED BY <1>12, <3>1, <3>2 DEF DestroyTasks
  <2>. QED BY <2>1, <2>2 DEF Accounted
<1>13. ASSUME NEW t \in Threads, StopNowSet(t) PROVE Accounted'
  <2>. UNCHANGED <<held, offer>> /\ Busy' = Busy /\ Done' \subseteq Done
    BY <1>13 DEF StopNowSet, NotifyAll, Busy, CallerLocations
  <2>. QED BY <1>12, <1>13 DEF StopNowSet
<1>14. ASSUME NEW t \in Threads, StopWorkers(t) \/ StopEnqueuers(t) PROVE Accounted'
  <2>. UNCHANGED <<tasks, held, offer, fate>> /\ Busy' = Busy /\ Done' \subseteq Done
    BY <1>14, ReturningTo
       DEF StopWorkers, StopEnqueuers, NotifyAll, AfterStopWorkers, Busy, CallerLocations
  <2>. QED BY <1>1
<1>15. ASSUME NEW t \in Threads, CallEnqueue(t) PROVE Accounted'
  <2>1. PICK j \in Tasks : /\ fate[j] = "new" /\ fate' = [fate EXCEPT ![j] = "pending"]
                           /\ offer' = [offer EXCEPT ![t] = j]
    BY <1>15 DEF CallEnqueue
  <2>2. offer[t] = None /\ UNCHANGED <<tasks, held>>
    BY <1>15 DEF CallEnqueue, MayCall, Placed
  <2>3. Busy' = Busy /\ Done' = Done
    <3>1. t \in Workers => pc[t] = "run"
      BY <1>15 DEF CallEnqueue, MayCall, Placed, WorkerLocations, CallerLocations
    <3>. QED BY <1>15, <3>1 DEF CallEnqueue, Busy, CallerLocations
  <2>. QED BY <2>1, <2>2, <2>3, ThreadPoolAssumption DEF Accounted
<1>16. ASSUME NEW t \in Threads, CallStop(t) \/ CallWaitAll(t) \/ SpuriousWake(t)
       PROVE  Accounted'
  <2>1. UNCHANGED <<tasks, held, offer, fate>>
    BY <1>16 DEF CallStop, CallWaitAll, SpuriousWake
  <2>2. MayCall(t) /\ t \in Workers => pc[t] = "run"
    BY DEF MayCall, Placed, WorkerLocations, CallerLocations
  <2>3. CASE CallStop(t) \/ CallWaitAll(t)
    <3>. Busy' = Busy /\ Done' \subseteq Done
      BY <2>2, <2>3 DEF CallStop, CallWaitAll, MayCall, Busy, CallerLocations
    <3>. QED BY <1>1, <2>1
  <2>4. CASE SpuriousWake(t)
    <3>. Busy' = Busy /\ Done' \subseteq Done
      BY <2>4 DEF SpuriousWake, Busy, CallerLocations
    <3>. QED BY <1>1, <2>1
  <2>. QED BY <1>16, <2>3, <2>4
<1>17. CASE CallDestroy
  <2>. UNCHANGED <<tasks, held, offer, fate>> /\ Busy' = Busy /\ Done' \subseteq Done
    BY <1>17, ReturningTo, ThreadPoolAssumption DEF CallDestroy, Busy
  <2>. QED BY <1>1
<1>18. CASE Joined
  <2>. UNCHANGED <<held, offer>> /\ Busy' = Busy /\ Done' \subseteq Done
    BY <1>18, ReturningTo, ThreadPoolAssumption DEF Joined, Busy
  <2>. QED BY <1>12, <1>18 DEF Joined
<1>19. CASE UNCHANGED vars
  BY <1>1, <1>19 DEF vars, Busy
<1>20. ASSUME NEW w \in Workers, WorkerStep(w) PROVE Accounted'
  BY <1>20, <1>2, <1>3, <1>4, <1>5, <1>6, <1>7 DEF WorkerStep
<1>21. ASSUME NEW t \in Threads, CallStep(t) PROVE Accounted'
  BY <1>21, <1>8, <1>9, <1>10, <1>11, <1>13, <1>14 DEF CallStep
<1>22. ASSUME NEW t \in Threads, Call(t) \/ SpuriousWake(t) PROVE Accounted'
  BY <1>22, <1>15, <1>16 DEF Call
<1>. QED BY <1>17, <1>18, <1>19, <1>20, <1>21, <1>22 DEF Next

-----------------------------------------------------------------------------
(* A pool that has just been made satisfies the invariant.                 *)
LEMMA InitIInv ==
    ASSUME Init
    PROVE  IInv
<1>. USE ThreadPoolAssumption DEF Init
<1>1. tasks \in Seq(Tasks) /\ Len(tasks) = 0 /\ DOMAIN tasks = {}
  BY EmptySeq
<1>2. \A t \in Threads : pc[t] \in {"start", "idle"}
  OBVIOUS
<1>3. Typed
  <2>1. tasks \in Seq(Tasks) /\ Len(tasks) <= MaxJobs
    BY <1>1
  <2>2. pc \in [Threads -> Locations]
    BY <1>2 DEF Locations, WorkerLocations
  <2>3. /\ held \in [Workers -> Tasks \cup {None}]
        /\ offer \in [Threads -> Tasks \cup {None}]
        /\ fate \in [Tasks -> Fates]
    BY DEF Fates
  <2>4. stop \in BOOLEAN /\ destroying \in BOOLEAN
    BY Zenon
  <2>5. nbWorking \in Int
    BY SMT
  <2>. HIDE DEF Init
  <2>. QED BY <2>1, <2>2, <2>3, <2>4, <2>5 DEF Typed
<1>4. Busy = {}
  BY <1>2, Returning DEF Busy, CallerLocations
<1>5. \A l \in {"wait", "enqueueWait", "waitAllWait", "stopNow"} : At(l) = {}
  BY <1>2 DEF At
<1>6. Placed
  BY <1>2, <1>4, <1>5, Returning, ReturningTo DEF Placed, WorkerLocations
<1>7. DestroyedAlone
  BY <1>2, Returning DEF DestroyedAlone
<1>8. WorkingCount
  BY <1>4, FS_EmptySet DEF WorkingCount
<1>9. NoStrandedTask /\ NoStrandedEnqueuer /\ NoStrandedWaiter /\ NoSleepAfterStop
  BY <1>5 DEF NoStrandedTask, NoStrandedEnqueuer, NoStrandedWaiter, NoSleepAfterStop
<1>10. RemainingTasksRun
  BY <1>2, Returning DEF RemainingTasksRun
<1>11. Accounted
  BY <1>2, Returning DEF Accounted
<1>. QED BY <1>3, <1>6, <1>7, <1>8, <1>9, <1>10, <1>11 DEF IInv

(* IInv holds in every reachable state.                                    *)
LEMMA Inductive == Spec => []IInv
<1>1. ASSUME IInv, [Next]_vars PROVE IInv'
  <2>. USE <1>1 DEF IInv
  <2>1. Typed'
    BY TypedStep
  <2>2. Placed' /\ DestroyedAlone'
    BY PlacedStep, AloneStep
  <2>3. WorkingCount'
    BY CountStep
  <2>4. NoStrandedTask' /\ NoStrandedEnqueuer' /\ NoStrandedWaiter'
    BY <2>1, TaskStep, EnqueuerStep, WaiterStep
  <2>5. NoSleepAfterStop' /\ RemainingTasksRun'
    BY SleepStep, RemainingStep
  <2>6. Accounted'
    BY AccountedStep
  <2>. QED BY <2>1, <2>2, <2>3, <2>4, <2>5, <2>6
<1>. QED BY <1>1, InitIInv, PTL DEF Spec

-----------------------------------------------------------------------------
(* The state is well typed: the queue of a bounded pool never exceeds      *)
(* max_jobs, and nb_working, an unsigned number in the code, never goes    *)
(* below zero or beyond the number of workers.                             *)
THEOREM TypeCorrect == Spec => []TypeOK
<1>1. IInv => TypeOK
  BY CountBusy DEF IInv, Typed, TypeOK
<1>. QED BY <1>1, Inductive, PTL

(* nb_working is the number of workers that have a task in their hands.    *)
THEOREM CountsRunningTasks == Spec => []WorkingCount
<1>1. IInv => WorkingCount
  BY DEF IInv
<1>. QED BY <1>1, Inductive, PTL

(* No task lies in the queue next to a sleeping worker with fewer threads  *)
(* on their way than tasks.                                                *)
THEOREM TasksAreNotStranded == Spec => []NoStrandedTask
<1>1. IInv => NoStrandedTask
  BY DEF IInv
<1>. QED BY <1>1, Inductive, PTL

(* No enqueuer sleeps next to a free slot with fewer threads on their way  *)
(* than slots.                                                             *)
THEOREM EnqueuersAreNotStranded == Spec => []NoStrandedEnqueuer
<1>1. IInv => NoStrandedEnqueuer
  BY DEF IInv
<1>. QED BY <1>1, Inductive, PTL

(* Nobody sleeps in wait_all() when nothing is queued or running.          *)
THEOREM WaitersAreNotStranded == Spec => []NoStrandedWaiter
<1>1. IInv => NoStrandedWaiter
  BY DEF IInv
<1>. QED BY <1>1, Inductive, PTL

(* Whoever still sleeps in a stopped pool is about to be woken.            *)
THEOREM StopWakesEverybody == Spec => []NoSleepAfterStop
<1>1. IInv => NoSleepAfterStop
  BY DEF IInv
<1>. QED BY <1>1, Inductive, PTL

(* Without stop_now() no accepted task is thrown away, and no worker       *)
(* leaves a task behind.                                                   *)
THEOREM RemainingTasksAreRun == Spec => []RemainingTasksRun
<1>1. IInv => RemainingTasksRun
  BY DEF IInv
<1>. QED BY <1>1, Inductive, PTL

(* After stop() no step queues a task or resets stop_.                     *)
THEOREM DrainsAfterStop == Spec => OnlyDrainsAfterStop
<1>. DEFINE Drains == stop => /\ stop'
                              /\ \/ tasks' \in {tasks, <<>>}
                                 \/ tasks # <<>> /\ tasks' = Tail(tasks)
<1>. USE DEF Move, data
<1>1. ASSUME NEW w \in Workers, WorkerStep(w) PROVE Drains
  BY <1>1 DEF WorkerStep, Start, WorkerBlock, WorkerExit, WorkerTake, Take, WorkerNotify,
              WorkerRan, WorkerDone, WorkerDrop
<1>2. ASSUME NEW t \in Threads, CallStep(t) PROVE Drains
  BY <1>2 DEF CallStep, EnqueueBlock, EnqueueRefused, EnqueuePush, NotifyWorker, StopSet,
              StopNowSet, DestroyTasks, StopWorkers, StopEnqueuers, WaitAllBlock, WaitAllReturn
<1>3. ASSUME NEW t \in Threads, Call(t) \/ SpuriousWake(t) PROVE Drains
  BY <1>3 DEF Call, CallEnqueue, CallStop, CallWaitAll, SpuriousWake
<1>4. CallDestroy \/ Joined => Drains
  BY DEF CallDestroy, Joined, DestroyTasks
<1>5. [Next]_vars => [Drains]_vars
  BY <1>1, <1>2, <1>3, <1>4 DEF Next
<1>. QED BY <1>5, PTL DEF Spec, OnlyDrainsAfterStop

(* A thread that is evaluating the predicate of wait_all() is left alone   *)
(* by all others, and gets past it only if the predicate holds.            *)
LEMMA WaitAllStep ==
    ASSUME Typed, [Next]_vars, NEW t \in Threads, pc[t] = "waitAll"
    PROVE  pc'[t] \in {"waitAll", "waitAllWait"} \/ Quiet
<1>. DEFINE Stays == pc'[t] \in {"waitAll", "waitAllWait"}
<1>. USE Returning DEF Typed, Goto, Move
<1>1. ASSUME NEW w \in Workers, WorkerStep(w) PROVE Stays
  <2>1. CASE Start(w) \/ WorkerBlock(w) \/ WorkerExit(w) \/ WorkerTake(w)
    BY <2>1 DEF Start, WorkerBlock, WorkerExit, WorkerTake, Take
  <2>2. CASE WorkerNotify(w)
    BY <2>2 DEF WorkerNotify, NotifyOne, At
  <2>3. CASE WorkerRan(w) \/ WorkerDone(w) \/ WorkerDrop(w)
    BY <2>3 DEF WorkerRan, WorkerDone, WorkerDrop, NotifyAll
  <2>. QED BY <1>1, <2>1, <2>2, <2>3 DEF WorkerStep
<1>2. ASSUME NEW u \in Threads, CallStep(u) PROVE Stays \/ Quiet
  <2>1. CASE EnqueueBlock(u) \/ EnqueueRefused(u) \/ EnqueuePush(u)
    BY <2>1 DEF EnqueueBlock, EnqueueRefused, EnqueuePush, Push
  <2>2. CASE NotifyWorker(u)
    BY <2>2 DEF NotifyWorker, NotifyOne, At
  <2>3. CASE StopSet(u) \/ StopNowSet(u)
    BY <2>3 DEF StopSet, StopNowSet, NotifyAll
  <2>4. CASE StopWorkers(u) \/ StopEnqueuers(u)
    BY <2>4 DEF StopWorkers, StopEnqueuers, NotifyAll
  <2>5. CASE WaitAllBlock(u) \/ WaitAllReturn(u)
    BY <2>5 DEF WaitAllBlock, WaitAllReturn
  <2>. QED BY <1>2, <2>1, <2>2, <2>3, <2>4, <2>5 DEF CallStep
<1>3. ASSUME NEW u \in Threads, Call(u) \/ SpuriousWake(u) PROVE Stays
  BY <1>3 DEF Call, MayCall, CallEnqueue, CallStop, CallWaitAll, SpuriousWake
<1>4. CallDestroy \/ Joined \/ UNCHANGED vars => Stays
  BY ThreadPoolAssumption DEF CallDestroy, Joined, Threads, vars
<1>. QED BY <1>1, <1>2, <1>3, <1>4 DEF Next

(* When wait_all() returns, every task that had been accepted has been run *)
(* or discarded: what is still pending has not been queued yet.            *)
THEOREM WaitAllWaits == Spec => WaitAllMeansFinished
<1>. DEFINE Finished ==
        \A t \in Threads : pc[t] = "waitAll" /\ pc'[t] = Return(t) =>
            \A j \in Tasks : fate[j] = "pending" => \E c \in Threads : offer[c] = j
<1>1. ASSUME IInv, [Next]_vars PROVE Finished
  <2>. SUFFICES ASSUME NEW t \in Threads, pc[t] = "waitAll", pc'[t] = Return(t),
                       NEW j \in Tasks, fate[j] = "pending"
                PROVE  \E c \in Threads : offer[c] = j
    OBVIOUS
  <2>1. Quiet
    BY <1>1, WaitAllStep, Returning DEF IInv
  <2>2. Busy = {} /\ DOMAIN tasks = {}
    BY <1>1, <2>1, CountBusy DEF IInv, Quiet
  <2>. QED BY <1>1, <2>2 DEF IInv, Accounted
<1>2. IInv /\ [Next]_vars => [Finished]_vars
  BY <1>1
<1>. QED BY <1>2, Inductive, PTL DEF Spec, WaitAllMeansFinished

-----------------------------------------------------------------------------
(* The workers that are going to run the task in their hands, or run it.   *)
Running == {w \in Workers : pc[w] \in {"notifyRoom", "run"} \cup CallerLocations}

Queued(j) == \E i \in DOMAIN tasks : tasks[i] = j
InHands(j) == \E w \in Running : held[w] = j
Offered(j) == \E t \in Threads : offer[t] = j

(* What OnePlacePerTask says with quantifiers in place of a cardinality:   *)
(* the pending tasks are those that are somewhere, nowhere is a task kept  *)
(* twice, and none is in places of two sorts.                              *)
Single ==
    /\ \A j \in Tasks : fate[j] = "pending" <=> Queued(j) \/ InHands(j) \/ Offered(j)
    /\ \A i, k \in DOMAIN tasks : tasks[i] = tasks[k] => i = k
    /\ \A w, u \in Running : held[w] = held[u] => w = u
    /\ \A t, u \in Threads : offer[t] = offer[u] /\ offer[t] # None => t = u
    /\ \A j \in Tasks : /\ ~(Queued(j) /\ InHands(j))
                        /\ ~(Queued(j) /\ Offered(j))
                        /\ ~(InHands(j) /\ Offered(j))

(* The deque after pop_front(): the other tasks, one place further.        *)
LEMMA Popped ==
    ASSUME Typed, tasks # <<>>, tasks' = Tail(tasks), Single
    PROVE  /\ Head(tasks) \in Tasks /\ Queued(Head(tasks))
           /\ \A j \in Tasks : Queued(j)' <=> Queued(j) /\ j # Head(tasks)
           /\ \A i, k \in DOMAIN tasks' : tasks'[i] = tasks'[k] => i = k
<1>. USE DEF Typed
<1>1. /\ Head(tasks) = tasks[1] /\ 1 \in DOMAIN tasks
      /\ \A i \in DOMAIN tasks' : i \in Nat /\ i + 1 \in DOMAIN tasks /\ tasks'[i] = tasks[i + 1]
      /\ \A i \in DOMAIN tasks : i # 1 => i - 1 \in DOMAIN tasks'
      /\ \A i \in DOMAIN tasks : i \in Nat /\ tasks[i] \in Tasks
  OBVIOUS
<1>2. ASSUME NEW j \in Tasks PROVE Queued(j)' <=> Queued(j) /\ j # Head(tasks)
  <2>1. ASSUME Queued(j)' PROVE Queued(j) /\ j # Head(tasks)
    <3>1. PICK i \in DOMAIN tasks' : tasks'[i] = j
      BY <2>1 DEF Queued
    <3>2. i + 1 # 1
      BY <1>1
    <3>. QED BY <1>1, <3>1, <3>2 DEF Single, Queued
  <2>2. ASSUME Queued(j), j # Head(tasks) PROVE Queued(j)'
    <3>1. PICK i \in DOMAIN tasks : tasks[i] = j
      BY <2>2 DEF Queued
    <3>2. i # 1 /\ i - 1 \in DOMAIN tasks' /\ tasks'[i - 1] = j
      BY <1>1, <2>2, <3>1
    <3>. QED BY <3>2 DEF Queued
  <2>. QED BY <2>1, <2>2
<1>3. ASSUME NEW i \in DOMAIN tasks', NEW k \in DOMAIN tasks', tasks'[i] = tasks'[k]
      PROVE  i = k
  <2>1. i + 1 = k + 1
    BY <1>1, <1>3 DEF Single
  <2>. QED BY <1>1, <2>1
<1>. QED BY <1>1, <1>2, <1>3 DEF Queued

(* The deque after emplace_back() of a task that is not in it.             *)
LEMMA Pushed ==
    ASSUME Typed, Single, NEW j \in Tasks, ~Queued(j), tasks' = Append(tasks, j)
    PROVE  /\ \A k \in Tasks : Queued(k)' <=> Queued(k) \/ k = j
           /\ \A i, k \in DOMAIN tasks' : tasks'[i] = tasks'[k] => i = k
<1>. USE DEF Typed
<1>1. /\ DOMAIN tasks = 1 .. Len(tasks) /\ DOMAIN tasks' = 1 .. Len(tasks) + 1 /\ Len(tasks) \in Nat
      /\ \A i \in DOMAIN tasks : tasks'[i] = tasks[i]
      /\ tasks'[Len(tasks) + 1] = j
  OBVIOUS
<1>2. \A i \in DOMAIN tasks' : i \in DOMAIN tasks \/ i = Len(tasks) + 1
  BY <1>1
<1>3. \A i \in DOMAIN tasks : i \in DOMAIN tasks' /\ i # Len(tasks) + 1
  BY <1>1
<1>4. Len(tasks) + 1 \in DOMAIN tasks'
  BY <1>1
<1>5. ASSUME NEW k \in Tasks PROVE Queued(k)' <=> Queued(k) \/ k = j
  BY <1>1, <1>2, <1>3, <1>4 DEF Queued
<1>6. \A i, k \in DOMAIN tasks' : tasks'[i] = tasks'[k] => i = k
  BY <1>1, <1>2, <1>3 DEF Queued, Single
<1>. QED BY <1>5, <1>6

(* The steps that move a task, or change what becomes of it: all the others *)
(* leave the tasks, and the workers that are going to run one, alone.      *)
TasksRest == UNCHANGED <<tasks, held, offer, fate>> /\ Running' = Running
TasksDestroyed == DestroyTasks /\ UNCHANGED <<held, offer>> /\ Running' = Running

LEMMA TaskMoves ==
    ASSUME Typed, Placed, [Next]_vars
    PROVE  \/ \E w \in Workers : WorkerTake(w) \/ WorkerRan(w) \/ WorkerDrop(w)
           \/ \E t \in Threads : EnqueueRefused(t) \/ EnqueuePush(t) \/ CallEnqueue(t)
           \/ TasksDestroyed \/ TasksRest
<1>. USE Returning, ReturningTo
     DEF Typed, Goto, Move, data, Running, CallerLocations, TasksRest, TasksDestroyed
<1>1. ASSUME NEW w \in Workers, Start(w) \/ WorkerBlock(w) \/ WorkerExit(w) PROVE TasksRest
  BY <1>1 DEF Start, WorkerBlock, WorkerExit
<1>2. ASSUME NEW w \in Workers, WorkerNotify(w) PROVE TasksRest
  BY <1>2 DEF WorkerNotify, NotifyOne, At
<1>3. ASSUME NEW w \in Workers, WorkerDone(w) PROVE TasksRest
  <2>1. CASE LastOne
    BY <1>3, <2>1 DEF WorkerDone, NotifyAll
  <2>2. CASE ~LastOne
    BY <1>3, <2>2 DEF WorkerDone
  <2>. QED BY <2>1, <2>2
<1>4. ASSUME NEW t \in Threads, EnqueueBlock(t) \/ WaitAllBlock(t) \/ WaitAllReturn(t) \/ StopSet(t)
      PROVE  TasksRest
  BY <1>4 DEF EnqueueBlock, WaitAllBlock, WaitAllReturn, StopSet
<1>5. ASSUME NEW t \in Threads, NotifyWorker(t) PROVE TasksRest
  BY <1>5 DEF NotifyWorker, NotifyOne, At
<1>6. ASSUME NEW t \in Threads, StopNowSet(t) PROVE TasksDestroyed
  BY <1>6 DEF StopNowSet, NotifyAll
<1>7. ASSUME NEW t \in Threads, StopWorkers(t) \/ StopEnqueuers(t) PROVE TasksRest
  BY <1>7 DEF StopWorkers, StopEnqueuers, NotifyAll, AfterStopWorkers
<1>8. ASSUME NEW t \in Threads, CallStop(t) \/ CallWaitAll(t) PROVE TasksRest
  <2>1. t \in Workers => pc[t] = "run"
    BY <1>8 DEF CallStop, CallWaitAll, MayCall, Placed, WorkerLocations
  <2>. QED BY <1>8, <2>1 DEF CallStop, CallWaitAll
<1>9. ASSUME NEW t \in Threads, SpuriousWake(t) PROVE TasksRest
  BY <1>9 DEF SpuriousWake
<1>10. CASE CallDestroy
  BY <1>10, ThreadPoolAssumption DEF CallDestroy
<1>11. CASE Joined
  BY <1>11, ThreadPoolAssumption DEF Joined
<1>12. CASE UNCHANGED vars
  BY <1>12 DEF vars
<1>. HIDE DEF Typed, Goto, Move, data, Running, CallerLocations, TasksRest, TasksDestroyed
<1>13. ASSUME NEW w \in Workers, WorkerStep(w)
       PROVE  WorkerTake(w) \/ WorkerRan(w) \/ WorkerDrop(w) \/ TasksRest
  BY <1>13, <1>1, <1>2, <1>3 DEF WorkerStep
<1>14. ASSUME NEW t \in Threads, CallStep(t) \/ Call(t) \/ SpuriousWake(t)
       PROVE  EnqueueRefused(t) \/ EnqueuePush(t) \/ CallEnqueue(t) \/ TasksDestroyed \/ TasksRest
  BY <1>14, <1>4, <1>5, <1>6, <1>7, <1>8, <1>9 DEF CallStep, Call
<1>. QED BY <1>10, <1>11, <1>12, <1>13, <1>14 DEF Next

(* A task moves from one place to the next, or out of the pool; never is   *)
(* it left behind, and never does it settle while somebody still has it.   *)
LEMMA SingleStep ==
    ASSUME Typed, Placed, Single, [Next]_vars
    PROVE  Single'
<1>0. /\ \A w \in Running : w \in Busy /\ held[w] \in Tasks
      /\ \A t \in Threads : offer[t] # None => offer[t] \in Tasks
      /\ None \notin Tasks
  BY ThreadPoolAssumption DEF Running, Busy, Placed, Typed
<1>1. CASE TasksRest
  BY <1>1 DEF TasksRest, Single, Queued, InHands, Offered
<1>. USE Returning, ReturningTo DEF Typed, Goto, Move, data
<1>2. ASSUME NEW w \in Workers, WorkerTake(w) PROVE Single'
  <2>1. /\ w \notin Running /\ Running' = Running \cup {w}
        /\ held' = [held EXCEPT ![w] = Head(tasks)]
        /\ tasks # <<>> /\ tasks' = Tail(tasks) /\ UNCHANGED <<offer, fate>>
    BY <1>2 DEF WorkerTake, Take, AfterTake, Running, CallerLocations
  <2>2. held'[w] = Head(tasks) /\ \A u \in Running : u # w /\ held'[u] = held[u]
    BY <2>1 DEF Running
  <2>3. /\ Head(tasks) \in Tasks /\ Queued(Head(tasks))
        /\ \A j \in Tasks : Queued(j)' <=> Queued(j) /\ j # Head(tasks)
        /\ \A i, k \in DOMAIN tasks' : tasks'[i] = tasks'[k] => i = k
    BY <2>1, Popped
  <2>4. \A j \in Tasks : InHands(j)' <=> InHands(j) \/ j = Head(tasks)
    BY <2>1, <2>2 DEF InHands
  <2>5. \A j \in Tasks : Offered(j)' <=> Offered(j)
    BY <2>1 DEF Offered
  <2>6. ~InHands(Head(tasks)) /\ ~Offered(Head(tasks))
    BY <2>3 DEF Single
  <2>7. \A u, v \in Running' : held'[u] = held'[v] => u = v
    BY <2>1, <2>2, <2>6 DEF Single, InHands
  <2>. HIDE DEF Typed, Goto, Move, data
  <2>. QED BY <2>1, <2>3, <2>4, <2>5, <2>6, <2>7 DEF Single
<1>3. ASSUME NEW w \in Workers, WorkerRan(w) PROVE Single'
  <2>1. /\ w \in Running /\ Running' = Running \ {w}
        /\ UNCHANGED <<tasks, held, offer>> /\ fate' = [fate EXCEPT ![held[w]] = "ready"]
    BY <1>3 DEF WorkerRan, Running, CallerLocations
  <2>2. held[w] \in Tasks /\ InHands(held[w])
    BY <1>0, <2>1 DEF InHands
  <2>3. \A j \in Tasks : InHands(j)' <=> InHands(j) /\ j # held[w]
    BY <2>1 DEF InHands, Single
  <2>4. \A j \in Tasks : (Queued(j)' <=> Queued(j)) /\ (Offered(j)' <=> Offered(j))
    BY <2>1 DEF Queued, Offered
  <2>5. \A j \in Tasks : fate'[j] = "pending" <=> fate[j] = "pending" /\ j # held[w]
    BY <2>1
  <2>. QED BY <2>1, <2>2, <2>3, <2>4, <2>5 DEF Single
<1>4. ASSUME NEW w \in Workers, WorkerDrop(w) PROVE Single'
  <2>1. /\ w \notin Running /\ Running' = Running
        /\ UNCHANGED <<tasks, offer, fate>> /\ held' = [held EXCEPT ![w] = None]
    BY <1>4 DEF WorkerDrop, Running, CallerLocations
  <2>2. \A u \in Running : held'[u] = held[u]
    BY <2>1 DEF Running
  <2>. QED BY <2>1, <2>2 DEF Single, Queued, InHands, Offered
<1>5. ASSUME NEW t \in Threads, EnqueueRefused(t) PROVE Single'
  <2>1. /\ offer[t] # None /\ offer' = [offer EXCEPT ![t] = None]
        /\ fate' = [fate EXCEPT ![offer[t]] = "refused"] /\ UNCHANGED <<tasks, held>>
    BY <1>5 DEF EnqueueRefused, Placed
  <2>2. Running' = Running
    BY <1>5 DEF EnqueueRefused, Running, CallerLocations
  <2>3. \A j \in Tasks : Offered(j)' <=> Offered(j) /\ j # offer[t]
    BY <1>0, <2>1 DEF Offered, Single
  <2>4. \A j \in Tasks : (Queued(j)' <=> Queued(j)) /\ (InHands(j)' <=> InHands(j))
    BY <2>1, <2>2 DEF Queued, InHands
  <2>5. \A j \in Tasks : fate'[j] = "pending" <=> fate[j] = "pending" /\ j # offer[t]
    BY <2>1
  <2>6. Offered(offer[t]) /\ offer[t] \in Tasks
    BY <1>0, <2>1 DEF Offered
  <2>. QED BY <2>1, <2>2, <2>3, <2>4, <2>5, <2>6 DEF Single
<1>6. ASSUME NEW t \in Threads, EnqueuePush(t) PROVE Single'
  <2>1. /\ offer[t] \in Tasks /\ offer' = [offer EXCEPT ![t] = None]
        /\ tasks' = Append(tasks, offer[t]) /\ UNCHANGED <<held, fate>>
    BY <1>6 DEF EnqueuePush, Push, Placed
  <2>2. Running' = Running
    BY <1>6 DEF EnqueuePush, Push, Running, CallerLocations
  <2>3. Offered(offer[t]) /\ ~Queued(offer[t]) /\ ~InHands(offer[t])
    BY <2>1 DEF Offered, Single
  <2>4. \A j \in Tasks : Offered(j)' <=> Offered(j) /\ j # offer[t]
    BY <1>0, <2>1 DEF Offered, Single
  <2>5. \A j \in Tasks : InHands(j)' <=> InHands(j)
    BY <2>1, <2>2 DEF InHands
  <2>6. /\ \A j \in Tasks : Queued(j)' <=> Queued(j) \/ j = offer[t]
        /\ \A i, k \in DOMAIN tasks' : tasks'[i] = tasks'[k] => i = k
    BY <2>1, <2>3, Pushed
  <2>7. \A u, v \in Threads : offer'[u] = offer'[v] /\ offer'[u] # None => u = v
    BY <2>1 DEF Single
  <2>. HIDE DEF Typed, Goto, Move, data
  <2>. QED BY <2>1, <2>2, <2>3, <2>4, <2>5, <2>6, <2>7 DEF Single
<1>7. ASSUME NEW t \in Threads, CallEnqueue(t) PROVE Single'
  <2>1. PICK j \in Tasks : /\ fate[j] = "new" /\ fate' = [fate EXCEPT ![j] = "pending"]
                           /\ offer' = [offer EXCEPT ![t] = j]
    BY <1>7 DEF CallEnqueue
  <2>2. UNCHANGED <<tasks, held>> /\ offer[t] = None
    BY <1>7 DEF CallEnqueue, MayCall, Placed
  <2>3. Running' = Running
    <3>1. t \in Workers => pc[t] = "run"
      BY <1>7 DEF CallEnqueue, MayCall, Placed, WorkerLocations, CallerLocations
    <3>. QED BY <1>7, <3>1 DEF CallEnqueue, Running, CallerLocations
  <2>4. ~Queued(j) /\ ~InHands(j) /\ ~Offered(j)
    BY <2>1 DEF Single
  <2>5. \A k \in Tasks : /\ Offered(k)' <=> Offered(k) \/ k = j
                         /\ fate'[k] = "pending" <=> fate[k] = "pending" \/ k = j
    BY <1>0, <2>1, <2>2 DEF Offered
  <2>6. \A k \in Tasks : (Queued(k)' <=> Queued(k)) /\ (InHands(k)' <=> InHands(k))
    BY <2>2, <2>3 DEF Queued, InHands
  <2>7. \A u, v \in Threads : offer'[u] = offer'[v] /\ offer'[u] # None => u = v
    BY <2>1, <2>4 DEF Single, Offered
  <2>. QED BY <2>1, <2>2, <2>3, <2>4, <2>5, <2>6, <2>7 DEF Single
<1>8. CASE TasksDestroyed
  <2>1. \A j \in Tasks : fate'[j] = "pending" <=> fate[j] = "pending" /\ ~Queued(j)
    BY <1>8 DEF TasksDestroyed, DestroyTasks, Queued
  <2>2. tasks' = <<>> /\ \A j \in Tasks : ~Queued(j)'
    BY <1>8 DEF TasksDestroyed, DestroyTasks, Queued
  <2>3. \A j \in Tasks : (Offered(j)' <=> Offered(j)) /\ (InHands(j)' <=> InHands(j))
    BY <1>8 DEF TasksDestroyed, Offered, InHands
  <2>. QED BY <1>8, <2>1, <2>2, <2>3 DEF TasksDestroyed, Single
<1>. QED BY <1>1, <1>2, <1>3, <1>4, <1>5, <1>6, <1>7, <1>8, TaskMoves

(* The places of one task, counted.                                        *)
LEMMA PlacesCounted ==
    ASSUME Typed, Single
    PROVE  OnePlacePerTask
<1>. SUFFICES ASSUME NEW j \in Tasks
              PROVE  LET places == {<<"queue", i>> : i \in {i \in DOMAIN tasks : tasks[i] = j}}
                              \cup {<<"worker", w>> : w \in {w \in Busy : held[w] = j /\ pc[w] # "done"}}
                              \cup {<<"caller", t>> : t \in {t \in Threads : offer[t] = j}}
                     IN  Cardinality(places) = IF fate[j] = "pending" THEN 1 ELSE 0
  BY DEF OnePlacePerTask
<1>. DEFINE queue == {<<"queue", i>> : i \in {i \in DOMAIN tasks : tasks[i] = j}}
            hands == {<<"worker", w>> : w \in {w \in Running : held[w] = j}}
            caller == {<<"caller", t>> : t \in {t \in Threads : offer[t] = j}}
<1>1. {w \in Busy : held[w] = j /\ pc[w] # "done"} = {w \in Running : held[w] = j}
  BY DEF Busy, Running, CallerLocations
<1>2. /\ Queued(j) => \E p : queue = {p}
      /\ ~Queued(j) => queue = {}
  <2>1. CASE Queued(j)
    <3>1. PICK i \in DOMAIN tasks : tasks[i] = j
      BY <2>1 DEF Queued
    <3>2. {k \in DOMAIN tasks : tasks[k] = j} = {i}
      BY <3>1 DEF Single
    <3>3. queue = {<<"queue", i>>}
      BY <3>2
    <3>. HIDE DEF queue
    <3>. QED BY <2>1, <3>3
  <2>. QED BY <2>1 DEF Queued
<1>3. /\ InHands(j) => \E p : hands = {p}
      /\ ~InHands(j) => hands = {}
  <2>1. CASE InHands(j)
    <3>1. PICK w \in Running : held[w] = j
      BY <2>1 DEF InHands
    <3>2. {u \in Running : held[u] = j} = {w}
      BY <3>1 DEF Single
    <3>3. hands = {<<"worker", w>>}
      BY <3>2
    <3>. HIDE DEF hands
    <3>. QED BY <2>1, <3>3
  <2>. QED BY <2>1 DEF InHands
<1>4. /\ Offered(j) => \E p : caller = {p}
      /\ ~Offered(j) => caller = {}
  <2>1. CASE Offered(j)
    <3>1. PICK t \in Threads : offer[t] = j
      BY <2>1 DEF Offered
    <3>2. j # None
      BY ThreadPoolAssumption
    <3>3. {u \in Threads : offer[u] = j} = {t}
      BY <3>1, <3>2 DEF Single
    <3>4. caller = {<<"caller", t>>}
      BY <3>3
    <3>. HIDE DEF caller
    <3>. QED BY <2>1, <3>4
  <2>. QED BY <2>1 DEF Offered
<1>. HIDE DEF queue, hands, caller
<1>5. CASE fate[j] = "pending"
  <2>1. \E p : queue \cup hands \cup caller = {p}
    BY <1>2, <1>3, <1>4, <1>5 DEF Single
  <2>2. Cardinality(queue \cup hands \cup caller) = 1
    BY <2>1, FS_Singleton
  <2>. QED BY <1>1, <1>5, <2>2 DEF queue, hands, caller
<1>6. CASE fate[j] # "pending"
  <2>1. queue \cup hands \cup caller = {}
    BY <1>2, <1>3, <1>4, <1>6 DEF Single
  <2>2. Cardinality(queue \cup hands \cup caller) = 0
    BY <2>1, FS_EmptySet
  <2>. QED BY <1>1, <1>6, <2>2 DEF queue, hands, caller
<1>. QED BY <1>5, <1>6

(* No task is lost, kept twice or run twice: every pending one is offered  *)
(* by one caller, queued once or in the hands of one worker, and a settled *)
(* one is nowhere (thread_pool.hpp:111-135 and 216-230).                   *)
THEOREM TasksAreInOnePlace == Spec => []OnePlacePerTask
<1>1. Init => Single
  <2>. SUFFICES ASSUME Init PROVE Single
    OBVIOUS
  <2>1. Running = {} /\ DOMAIN tasks = {} /\ \A t \in Threads : offer[t] = None
    BY DEF Init, Running, CallerLocations, Threads
  <2>. QED BY <2>1, ThreadPoolAssumption DEF Single, Queued, InHands, Offered, Init
<1>2. IInv /\ Single /\ [Next]_vars => Single'
  BY SingleStep DEF IInv
<1>3. IInv /\ Single => OnePlacePerTask
  BY PlacesCounted DEF IInv
<1>. QED BY <1>1, <1>2, <1>3, Inductive, PTL DEF Spec

-----------------------------------------------------------------------------
(* The pool implements the executor, step by step.                         *)

(* A worker that still has the object of a task in its hands has run it,   *)
(* or is going to: nobody else can bring, queue or take that task again.   *)
Held ==
    \A w \in Workers : held[w] # None =>
        /\ fate[held[w]] # "new"
        /\ fate[held[w]] = "pending" => w \in Running

(* Who notifies for stop(), and whoever joins the workers, has set stop_.  *)
Stopped ==
    /\ At("stopWorkers") \cup At("stopEnqueuers") # {} => stop
    /\ pc[Owner] \in {"join", "gone"} => stop

(* What the refinement needs to know of the states.                        *)
RInv == IInv /\ Single /\ Held /\ Stopped /\ Waiting \subseteq Waiters

LEMMA HeldStep ==
    ASSUME Typed, Single, Held, Placed, [Next]_vars
    PROVE  Held'
<1>0. /\ \A w \in Workers : held[w] \in Tasks \cup {None}
      /\ \A t \in Threads : offer[t] # None => offer[t] \in Tasks
      /\ None \notin Tasks
  BY ThreadPoolAssumption DEF Typed
<1>1. ASSUME UNCHANGED held, Running' = Running,
             \A j \in Tasks : /\ fate'[j] = "new" => fate[j] = "new"
                              /\ fate'[j] = "pending" => fate[j] \in {"new", "pending"}
      PROVE  Held'
  BY <1>0, <1>1 DEF Held
<1>2. CASE TasksRest
  BY <1>1, <1>2 DEF TasksRest
<1>3. CASE TasksDestroyed
  BY <1>1, <1>3 DEF TasksDestroyed, DestroyTasks
<1>. USE Returning, ReturningTo DEF Typed, Goto
<1>4. ASSUME NEW w \in Workers, WorkerTake(w) PROVE Held'
  <2>1. /\ w \in Running' /\ Running \subseteq Running'
        /\ held' = [held EXCEPT ![w] = Head(tasks)]
        /\ tasks # <<>> /\ UNCHANGED fate
    BY <1>4 DEF WorkerTake, Take, AfterTake, Running, CallerLocations
  <2>2. Head(tasks) \in Tasks /\ Queued(Head(tasks))
    BY <2>1 DEF Queued
  <2>3. fate[Head(tasks)] = "pending"
    BY <2>2 DEF Single
  <2>. QED BY <2>1, <2>3 DEF Held
<1>5. ASSUME NEW w \in Workers, WorkerRan(w) PROVE Held'
  <2>1. /\ UNCHANGED held /\ Running' = Running \ {w}
        /\ fate' = [fate EXCEPT ![held[w]] = "ready"]
    BY <1>5 DEF WorkerRan, Running, CallerLocations
  <2>2. ASSUME NEW u \in Workers, held[u] # None
        PROVE  fate'[held[u]] # "new" /\ (fate'[held[u]] = "pending" => u \in Running')
    <3>1. held[u] \in Tasks /\ fate[held[u]] # "new"
          /\ (fate[held[u]] = "pending" => u \in Running)
      BY <1>0, <2>2 DEF Held
    <3>. QED BY <2>1, <3>1
  <2>. QED BY <2>1, <2>2 DEF Held
<1>6. ASSUME NEW w \in Workers, WorkerDrop(w) PROVE Held'
  <2>1. Running' = Running /\ UNCHANGED fate /\ held' = [held EXCEPT ![w] = None]
    BY <1>6 DEF WorkerDrop, Running, CallerLocations
  <2>. QED BY <2>1 DEF Held
<1>7. ASSUME NEW t \in Threads, EnqueueRefused(t) \/ EnqueuePush(t) PROVE Held'
  <2>1. UNCHANGED held /\ (UNCHANGED fate \/ fate' = [fate EXCEPT ![offer[t]] = "refused"])
    BY <1>7 DEF EnqueueRefused, EnqueuePush, Push
  <2>2. Running' = Running
    BY <1>7 DEF EnqueueRefused, EnqueuePush, Push, Running, CallerLocations
  <2>. QED BY <1>1, <2>1, <2>2
<1>8. ASSUME NEW t \in Threads, CallEnqueue(t) PROVE Held'
  <2>1. PICK j \in Tasks : fate[j] = "new" /\ fate' = [fate EXCEPT ![j] = "pending"]
    BY <1>8 DEF CallEnqueue
  <2>2. t \in Workers => pc[t] = "run"
    BY <1>8 DEF CallEnqueue, MayCall, Placed, WorkerLocations, CallerLocations
  <2>3. UNCHANGED held /\ Running' = Running
    BY <1>8, <2>2 DEF CallEnqueue, Running, CallerLocations
  <2>. QED BY <1>1, <2>1, <2>3
<1>. QED BY <1>2, <1>3, <1>4, <1>5, <1>6, <1>7, <1>8, TaskMoves

LEMMA StoppedStep ==
    ASSUME Typed, Placed, DestroyedAlone, Stopped, [Next]_vars
    PROVE  Stopped'
<1>. USE ThreadPoolAssumption, Returning, ReturningTo
     DEF Typed, DestroyedAlone, Stopped, Goto, Move, data, At
<1>1. ASSUME NEW w \in Workers, WorkerStep(w) PROVE Stopped'
  <2>0. w # Owner /\ Owner \in Threads /\ w \in Threads
    OBVIOUS
  <2>1. CASE Start(w) \/ WorkerBlock(w) \/ WorkerExit(w) \/ WorkerTake(w)
    BY <2>0, <2>1 DEF Start, WorkerBlock, WorkerExit, WorkerTake, Take, AfterTake
  <2>2. CASE WorkerNotify(w)
    BY <2>0, <2>2 DEF WorkerNotify, NotifyOne
  <2>3. CASE WorkerRan(w) \/ WorkerDrop(w)
    BY <2>0, <2>3 DEF WorkerRan, WorkerDrop
  <2>4. CASE WorkerDone(w)
    BY <2>0, <2>4 DEF WorkerDone, NotifyAll
  <2>. QED BY <1>1, <2>1, <2>2, <2>3, <2>4 DEF WorkerStep
<1>2. ASSUME NEW t \in Threads, CallStep(t) PROVE Stopped'
  <2>1. CASE EnqueueBlock(t) \/ EnqueueRefused(t) \/ EnqueuePush(t)
    BY <2>1 DEF EnqueueBlock, EnqueueRefused, EnqueuePush, Push
  <2>2. CASE NotifyWorker(t)
    BY <2>2 DEF NotifyWorker, NotifyOne
  <2>3. CASE StopSet(t) \/ StopNowSet(t)
    BY <2>3 DEF StopSet, StopNowSet
  <2>4. CASE StopWorkers(t)
    BY <2>4 DEF StopWorkers, NotifyAll, AfterStopWorkers
  <2>5. CASE StopEnqueuers(t)
    BY <2>5 DEF StopEnqueuers, NotifyAll
  <2>6. CASE WaitAllBlock(t) \/ WaitAllReturn(t)
    BY <2>6 DEF WaitAllBlock, WaitAllReturn
  <2>. QED BY <1>2, <2>1, <2>2, <2>3, <2>4, <2>5, <2>6 DEF CallStep
<1>3. ASSUME NEW t \in Threads, Call(t) \/ SpuriousWake(t) PROVE Stopped'
  BY <1>3 DEF Call, CallEnqueue, CallStop, CallWaitAll, SpuriousWake
<1>4. CASE CallDestroy \/ Joined
  BY <1>4 DEF CallDestroy, Joined
<1>5. CASE UNCHANGED vars
  BY <1>5 DEF vars
<1>. QED BY <1>1, <1>2, <1>3, <1>4, <1>5 DEF Next

(* What a step leaves of the executor: nothing of what callers can see     *)
(* changes, or only the life of one task does.                             *)
Calm == UNCHANGED <<tasks, stop, held, offer, fate>> /\ Waiting' = Waiting

LEMMA CalmStutters ==
    ASSUME Calm
    PROVE  UNCHANGED Abstract!vars
BY DEF Calm, Abstract!vars, TaskState

(* Where tasks are, for the executor.                                      *)
LEMMA TaskStates ==
    ASSUME Typed, Single, Held
    PROVE  /\ TaskState = [j \in Tasks |-> TaskState[j]]
           /\ \A j \in Tasks :
                /\ fate[j] # "pending" => TaskState[j] = fate[j]
                /\ Offered(j) => TaskState[j] = "offered"
                /\ Queued(j) => TaskState[j] = "queued"
                /\ InHands(j) => TaskState[j] = "running"
                /\ TaskState[j] = "queued" => Queued(j)
                /\ TaskState[j] = "running" => InHands(j)
<1>1. TaskState = [j \in Tasks |-> TaskState[j]]
  BY DEF TaskState
<1>2. ASSUME NEW j \in Tasks
      PROVE  TaskState[j] = IF fate[j] # "pending" THEN fate[j]
                            ELSE IF Offered(j) THEN "offered"
                            ELSE IF InHands(j) THEN "running"
                            ELSE "queued"
  <2>1. j # None
    BY ThreadPoolAssumption
  <2>2. CASE fate[j] = "pending"
    <3>1. (\E w \in Workers : held[w] = j) <=> InHands(j)
      BY <2>1, <2>2 DEF Held, InHands, Running
    <3>. QED BY <2>2, <3>1 DEF TaskState, Offered
  <2>. QED BY <2>2 DEF TaskState
<1>3. \A j \in Tasks : fate[j] \notin {"offered", "queued", "running"}
  BY DEF Typed, Fates
<1>. QED BY <1>1, <1>2, <1>3 DEF Single

(* The life of one task goes on, and the others do not notice.             *)
LEMMA OneTaskChanges ==
    ASSUME NEW j \in Tasks,
           \A k \in Tasks \ {j} :
              /\ fate'[k] = fate[k]
              /\ fate[k] = "pending" =>
                    /\ (\E t \in Threads : offer'[t] = k) <=> \E t \in Threads : offer[t] = k
                    /\ (\E w \in Workers : held'[w] = k) <=> \E w \in Workers : held[w] = k
    PROVE  TaskState' = [TaskState EXCEPT ![j] = TaskState'[j]]
<1>1. ASSUME NEW k \in Tasks, k # j PROVE TaskState'[k] = TaskState[k]
  BY <1>1 DEF TaskState
<1>2. /\ TaskState = [k \in Tasks |-> TaskState[k]]
      /\ TaskState' = [k \in Tasks |-> TaskState'[k]]
  BY DEF TaskState
<1>. QED BY <1>1, <1>2

(* Each running task is in the hands of a worker of its own, so while one  *)
(* worker looks at the queue there are fewer of them than workers.         *)
LEMMA FewerRunning ==
    ASSUME Typed, Single, Held, NEW w \in Workers, w \notin Running
    PROVE  Abstract!Cardinality(Abstract!Running) < Cardinality(Workers)
<1>. DEFINE hands == [j \in Abstract!Running |-> CHOOSE u \in Running : held[u] = j]
<1>1. ASSUME NEW j \in Abstract!Running
      PROVE  hands[j] \in Workers \ {w} /\ held[hands[j]] = j
  <2>1. \E u \in Running : held[u] = j
    BY TaskStates DEF Abstract!Running, InHands
  <2>. QED BY <2>1 DEF Running
<1>2. hands \in Injection(Abstract!Running, Workers \ {w})
  BY <1>1 DEF Injection, IsInjective
<1>. HIDE DEF hands
<1>3. /\ IsFiniteSet(Workers \ {w})
      /\ Cardinality(Workers \ {w}) = Cardinality(Workers) - 1
      /\ Cardinality(Workers) \in Nat
  BY ThreadPoolAssumption, FS_RemoveElement, FS_CardinalityType
<1>4. /\ IsFiniteSet(Abstract!Running)
      /\ Cardinality(Abstract!Running) <= Cardinality(Workers \ {w})
  BY <1>2, <1>3, FS_Injection
<1>5. Cardinality(Abstract!Running) \in Nat
  BY <1>4, FS_CardinalityType
<1>6. Cardinality(Abstract!Running) < Cardinality(Workers)
  BY <1>3, <1>4, <1>5
<1>7. Abstract!Cardinality(Abstract!Running) = Cardinality(Abstract!Running)
  BY DEF Abstract!Cardinality, Cardinality, Abstract!IsFiniteSet, IsFiniteSet
<1>. QED BY <1>6, <1>7

(* The workers' steps.                                                     *)
LEMMA WorkerMaps ==
    ASSUME RInv, NEW w \in Workers, WorkerStep(w)
    PROVE  \/ UNCHANGED Abstract!vars
           \/ Abstract!Begin
           \/ \E j \in Tasks : Abstract!Finish(j)
<1>. USE ThreadPoolAssumption, Returning, ReturningTo
     DEF RInv, IInv, Typed, Goto, Move, data, At
<1>1. CASE Start(w) \/ WorkerBlock(w) \/ WorkerExit(w)
  BY <1>1, CalmStutters DEF Start, WorkerBlock, WorkerExit, Calm, Waiting
<1>2. CASE WorkerNotify(w)
  BY <1>2, CalmStutters DEF WorkerNotify, NotifyOne, Calm, Waiting
<1>3. CASE WorkerDone(w)
  <2>1. CASE LastOne
    BY <1>3, <2>1, CalmStutters DEF WorkerDone, NotifyAll, Calm, Waiting
  <2>2. CASE ~LastOne
    BY <1>3, <2>2, CalmStutters DEF WorkerDone, Calm, Waiting
  <2>. QED BY <2>1, <2>2
<1>4. CASE WorkerTake(w)
  <2>. DEFINE j == Head(tasks)
  <2>1. /\ tasks # <<>> /\ tasks' = Tail(tasks) /\ UNCHANGED <<stop, offer, fate>>
        /\ held' = [held EXCEPT ![w] = j] /\ w \notin Running
    BY <1>4 DEF WorkerTake, Take, Running, CallerLocations
  <2>2. Waiting' = Waiting
    BY <1>4 DEF WorkerTake, Take, AfterTake, Waiting
  <2>3. j \in Tasks /\ Queued(j)
    BY <2>1 DEF Queued
  <2>4. TaskState[j] = "queued" /\ fate[j] = "pending" /\ ~Offered(j)
    BY <2>3, TaskStates DEF Single
  <2>5. TaskState'[j] = "running"
    BY <2>1, <2>3, <2>4 DEF TaskState, Offered
  <2>6. ASSUME NEW k \in Tasks \ {j}, fate[k] = "pending"
        PROVE  (\E u \in Workers : held'[u] = k) <=> \E u \in Workers : held[u] = k
    <3>1. held[w] # k
      BY <2>1, <2>6 DEF Held
    <3>. QED BY <2>1, <2>6, <3>1
  <2>7. TaskState' = [TaskState EXCEPT ![j] = "running"]
    BY <2>1, <2>3, <2>5, <2>6, OneTaskChanges
  <2>8. Abstract!Cardinality(Abstract!Running) < Cardinality(Workers)
    BY <2>1, FewerRunning
  <2>. HIDE DEF j
  <2>9. Abstract!Becomes(j, "queued", "running")
    BY <2>4, <2>7 DEF Abstract!Becomes
  <2>. QED BY <2>1, <2>2, <2>8, <2>9 DEF Abstract!Begin, j
<1>5. CASE WorkerRan(w)
  <2>. DEFINE j == held[w]
  <2>1. /\ UNCHANGED <<tasks, stop, held, offer>> /\ fate' = [fate EXCEPT ![j] = "ready"]
        /\ w \in Running
    BY <1>5 DEF WorkerRan, Running
  <2>2. Waiting' = Waiting
    BY <1>5 DEF WorkerRan, Waiting
  <2>3. j \in Tasks /\ InHands(j)
    BY <2>1 DEF Placed, Busy, Running, InHands
  <2>4. TaskState[j] = "running"
    BY <2>3, TaskStates
  <2>5. TaskState'[j] = "ready"
    BY <2>1, <2>3 DEF TaskState
  <2>6. TaskState' = [TaskState EXCEPT ![j] = "ready"]
    BY <2>1, <2>3, <2>5, OneTaskChanges
  <2>. HIDE DEF j
  <2>. QED BY <2>1, <2>2, <2>3, <2>4, <2>6 DEF Abstract!Finish, Abstract!Becomes
<1>6. CASE WorkerDrop(w)
  <2>1. /\ UNCHANGED <<tasks, stop, offer, fate>> /\ held' = [held EXCEPT ![w] = None]
        /\ w \notin Running
    BY <1>6 DEF WorkerDrop, Running, CallerLocations
  <2>2. Waiting' = Waiting
    BY <1>6 DEF WorkerDrop, Waiting
  <2>3. ASSUME NEW k \in Tasks, fate[k] = "pending"
        PROVE  (\E u \in Workers : held'[u] = k) <=> \E u \in Workers : held[u] = k
    <3>1. held[w] # k
      BY <2>1, <2>3 DEF Held
    <3>. QED BY <2>1, <2>3, <3>1
  <2>4. TaskState' = TaskState
    BY <2>1, <2>3 DEF TaskState
  <2>. QED BY <2>1, <2>2, <2>4 DEF Abstract!vars
<1>. QED BY <1>1, <1>2, <1>3, <1>4, <1>5, <1>6 DEF WorkerStep

(* clear() of the deque discards the tasks that wait in it, and those only. *)
LEMMA DestroyMaps ==
    ASSUME RInv, DestroyTasks, UNCHANGED <<held, offer>>, stop' = TRUE, Waiting' = Waiting
    PROVE  Abstract!StopNow
<1>. USE DEF RInv, IInv
<1>1. tasks' = <<>> /\ \A j \in Tasks : fate'[j] = IF Queued(j) THEN "discarded" ELSE fate[j]
  BY DEF DestroyTasks, Queued
<1>2. ASSUME NEW j \in Tasks
      PROVE  TaskState'[j] = IF TaskState[j] = "queued" THEN "discarded" ELSE TaskState[j]
  <2>1. CASE Queued(j)
    <3>1. TaskState[j] = "queued"
      BY <2>1, TaskStates
    <3>. QED BY <1>1, <2>1, <3>1 DEF TaskState
  <2>2. CASE ~Queued(j)
    <3>1. TaskState[j] # "queued"
      BY <2>2, TaskStates
    <3>2. TaskState'[j] = TaskState[j]
      BY <1>1, <2>2 DEF TaskState
    <3>. QED BY <3>1, <3>2
  <2>. QED BY <2>1, <2>2
<1>3. TaskState' = [j \in Tasks |-> TaskState'[j]]
  BY DEF TaskState
<1>4. TaskState' = [j \in Tasks |-> IF TaskState[j] = "queued" THEN "discarded" ELSE TaskState[j]]
  BY <1>2, <1>3
<1>. QED BY <1>1, <1>4 DEF Abstract!StopNow

(* The steps of enqueue_task().                                            *)
LEMMA EnqueueMaps ==
    ASSUME RInv, NEW t \in Threads, CallEnqueue(t) \/ EnqueueRefused(t) \/ EnqueuePush(t)
    PROVE  \E j \in Tasks : Abstract!Offer(j) \/ Abstract!Refuse(j) \/ Abstract!Accept(j)
<1>. USE ThreadPoolAssumption, Returning, ReturningTo DEF RInv, IInv, Typed, Goto, At
<1>1. CASE CallEnqueue(t)
  <2>1. PICK j \in Tasks : /\ fate[j] = "new" /\ fate' = [fate EXCEPT ![j] = "pending"]
                           /\ offer' = [offer EXCEPT ![t] = j]
    BY <1>1 DEF CallEnqueue
  <2>2. UNCHANGED <<tasks, stop, held>> /\ offer[t] = None
    BY <1>1 DEF CallEnqueue, MayCall, Placed
  <2>3. Waiting' = Waiting
    BY <1>1 DEF CallEnqueue, MayCall, Waiting
  <2>4. TaskState[j] = "new"
    BY <2>1, TaskStates
  <2>5. TaskState'[j] = "offered"
    BY <2>1 DEF TaskState
  <2>6. ASSUME NEW k \in Tasks \ {j}
        PROVE  (\E u \in Threads : offer'[u] = k) <=> \E u \in Threads : offer[u] = k
    <3>1. offer[t] # k
      BY <2>2
    <3>. QED BY <2>1, <3>1
  <2>7. TaskState' = [TaskState EXCEPT ![j] = "offered"]
    <3>1. \A k \in Tasks \ {j} : fate'[k] = fate[k]
      BY <2>1
    <3>2. TaskState' = [TaskState EXCEPT ![j] = TaskState'[j]]
      BY <2>2, <2>6, <3>1, OneTaskChanges
    <3>. QED BY <2>5, <3>2
  <2>. QED BY <2>2, <2>3, <2>4, <2>7 DEF Abstract!Offer, Abstract!Becomes
<1>2. CASE EnqueueRefused(t) \/ EnqueuePush(t)
  <2>. DEFINE j == offer[t]
  <2>1. /\ offer' = [offer EXCEPT ![t] = None] /\ UNCHANGED <<stop, held>>
        /\ j \in Tasks
    BY <1>2 DEF EnqueueRefused, EnqueuePush, Push, Placed
  <2>2. Waiting' = Waiting
    BY <1>2 DEF EnqueueRefused, EnqueuePush, Push, Waiting
  <2>3. Offered(j) /\ TaskState[j] = "offered" /\ fate[j] = "pending"
    BY <2>1, TaskStates DEF Offered, Single
  <2>4. ASSUME NEW k \in Tasks \ {j}
        PROVE  (\E u \in Threads : offer'[u] = k) <=> \E u \in Threads : offer[u] = k
    <3>1. k # None
      OBVIOUS
    <3>. QED BY <2>1, <2>4, <3>1
  <2>5. CASE EnqueueRefused(t)
    <3>1. fate' = [fate EXCEPT ![j] = "refused"] /\ stop /\ UNCHANGED tasks
      BY <2>5 DEF EnqueueRefused
    <3>2. TaskState'[j] = "refused"
      BY <2>1, <3>1 DEF TaskState
    <3>3. TaskState' = [TaskState EXCEPT ![j] = "refused"]
      BY <2>1, <2>4, <3>1, <3>2, OneTaskChanges
    <3>. HIDE DEF j
    <3>. QED BY <2>1, <2>2, <2>3, <3>1, <3>3 DEF Abstract!Refuse, Abstract!Becomes
  <2>6. CASE EnqueuePush(t)
    <3>1. tasks' = Append(tasks, j) /\ ~stop /\ HasRoom /\ UNCHANGED fate
      BY <2>6 DEF EnqueuePush, Push
    <3>2. \A u \in Threads : offer'[u] # j
      BY <2>1 DEF Single
    <3>3. \A w \in Workers : held'[w] # j
      BY <2>1, <2>3 DEF Single, Held, InHands
    <3>4. TaskState'[j] = "queued"
      BY <2>1, <2>3, <3>1, <3>2, <3>3 DEF TaskState
    <3>5. TaskState' = [TaskState EXCEPT ![j] = "queued"]
      BY <2>1, <2>4, <3>1, <3>4, OneTaskChanges
    <3>. HIDE DEF j
    <3>. QED BY <2>1, <2>2, <2>3, <3>1, <3>5
             DEF HasRoom, Bounded, Abstract!Accept, Abstract!Becomes
  <2>. QED BY <1>2, <2>5, <2>6
<1>. QED BY <1>1, <1>2

(* The other steps of a caller.                                            *)
LEMMA CallMaps ==
    ASSUME RInv, NEW t \in Threads, CallStep(t) \/ Call(t) \/ SpuriousWake(t)
    PROVE  \/ UNCHANGED Abstract!vars
           \/ Abstract!Stop \/ Abstract!StopNow
           \/ \E j \in Tasks : Abstract!Offer(j) \/ Abstract!Refuse(j) \/ Abstract!Accept(j)
           \/ t \in Waiters /\ (Abstract!CallWaitAll(t) \/ Abstract!WaitAll(t))
<1>. USE ThreadPoolAssumption, Returning, ReturningTo
     DEF RInv, IInv, Typed, Goto, Move, data, At
<1>1. ASSUME EnqueueBlock(t) \/ WaitAllBlock(t) PROVE Calm
  BY <1>1 DEF EnqueueBlock, WaitAllBlock, Calm, Waiting
<1>2. ASSUME NotifyWorker(t) PROVE Calm
  BY <1>2 DEF NotifyWorker, NotifyOne, Calm, Waiting
<1>3. ASSUME StopWorkers(t) \/ StopEnqueuers(t) PROVE Calm
  BY <1>3 DEF StopWorkers, StopEnqueuers, NotifyAll, AfterStopWorkers, Calm, Waiting
<1>4. ASSUME CallStop(t) PROVE Calm
  BY <1>4 DEF CallStop, MayCall, Calm, Waiting
<1>5. ASSUME SpuriousWake(t) PROVE Calm
  BY <1>5 DEF SpuriousWake, Calm, Waiting
<1>6. ASSUME StopSet(t) PROVE Abstract!Stop
  <2>1. stop' = TRUE /\ UNCHANGED <<tasks, held, offer, fate>> /\ Waiting' = Waiting
    BY <1>6 DEF StopSet, Waiting
  <2>. QED BY <2>1 DEF Abstract!Stop, TaskState
<1>7. ASSUME StopNowSet(t) PROVE Abstract!StopNow
  <2>1. Waiting' = Waiting
    BY <1>7 DEF StopNowSet, NotifyAll, Waiting
  <2>. QED BY <1>7, <2>1, DestroyMaps DEF StopNowSet
<1>8. ASSUME CallWaitAll(t) PROVE t \in Waiters /\ Abstract!CallWaitAll(t)
  <2>1. UNCHANGED <<tasks, stop, held, offer, fate>> /\ t \in Waiters
    BY <1>8 DEF CallWaitAll
  <2>2. Waiting' = Waiting \cup {t}
    BY <1>8 DEF CallWaitAll, Waiting
  <2>. QED BY <2>1, <2>2 DEF Abstract!CallWaitAll, TaskState
<1>9. ASSUME WaitAllReturn(t) PROVE t \in Waiters /\ Abstract!WaitAll(t)
  <2>1. Quiet /\ UNCHANGED <<tasks, stop, held, offer, fate>> /\ t \in Waiting
    BY <1>9 DEF WaitAllReturn, Waiting
  <2>2. Waiting' = Waiting \ {t}
    BY <1>9 DEF WaitAllReturn, Waiting
  <2>3. Busy = {}
    BY <2>1, CountBusy DEF Quiet
  <2>4. Abstract!Running = {}
    BY <2>3, TaskStates DEF Abstract!Running, InHands, Running, Busy
  <2>. QED BY <2>1, <2>2, <2>4 DEF Quiet, Abstract!WaitAll, TaskState
<1>. QED BY <1>1, <1>2, <1>3, <1>4, <1>5, <1>6, <1>7, <1>8, <1>9, EnqueueMaps, CalmStutters
         DEF CallStep, Call

LEMMA ExecutorStep ==
    ASSUME RInv, [Next]_vars
    PROVE  [Abstract!Next]_(Abstract!vars)
<1>1. ASSUME NEW w \in Workers, WorkerStep(w) PROVE [Abstract!Next]_(Abstract!vars)
  BY <1>1, WorkerMaps DEF Abstract!Next
<1>2. ASSUME NEW t \in Threads, CallStep(t) \/ Call(t) \/ SpuriousWake(t)
      PROVE  [Abstract!Next]_(Abstract!vars)
  BY <1>2, CallMaps DEF Abstract!Next
<1>. USE ThreadPoolAssumption, Returning DEF RInv, IInv, Typed, Goto, At
<1>3. CASE CallDestroy
  BY <1>3, CalmStutters DEF CallDestroy, Calm, Waiting
<1>4. CASE Joined
  <2>1. Waiting' = Waiting /\ stop' = TRUE
    BY <1>4 DEF Joined, Waiting, Stopped
  <2>. QED BY <1>4, <2>1, DestroyMaps DEF Joined, Abstract!Next
<1>5. CASE UNCHANGED vars
  BY <1>5, CalmStutters DEF vars, Calm, Waiting
<1>. QED BY <1>1, <1>2, <1>3, <1>4, <1>5 DEF Next

LEMMA InitRInv ==
    ASSUME Init
    PROVE  RInv /\ Abstract!Init
<1>1. IInv
  BY InitIInv
<1>2. /\ Running = {} /\ DOMAIN tasks = {} /\ Waiting = {}
      /\ At("stopWorkers") = {} /\ At("stopEnqueuers") = {}
      /\ \A t \in Threads : offer[t] = None
  BY DEF Init, Running, CallerLocations, Threads, Waiting, At
<1>3. Single
  BY <1>2, ThreadPoolAssumption DEF Single, Queued, InHands, Offered, Init
<1>4. Held /\ Stopped
  BY <1>2, ThreadPoolAssumption DEF Held, Stopped, Init, Threads
<1>5. TaskState = [j \in Tasks |-> "new"]
  BY DEF Init, TaskState
<1>. QED BY <1>1, <1>2, <1>3, <1>4, <1>5 DEF RInv, Abstract!Init, Init

(* Only those who may wait are waiting: the executor admits nobody else.   *)
LEMMA WaitersWait ==
    ASSUME Waiting \subseteq Waiters, [Abstract!Next]_(Abstract!vars)
    PROVE  (Waiting \subseteq Waiters)'
BY DEF Abstract!Next, Abstract!vars, Abstract!Begin, Abstract!Stop, Abstract!StopNow,
       Abstract!Offer, Abstract!Accept, Abstract!Refuse, Abstract!Finish,
       Abstract!CallWaitAll, Abstract!WaitAll

LEMMA RefinementInductive == Spec => []RInv
<1>1. ASSUME RInv, [Next]_vars, IInv' PROVE RInv'
  BY <1>1, SingleStep, HeldStep, StoppedStep, ExecutorStep, WaitersWait DEF RInv, IInv
<1>2. Init => RInv
  BY InitRInv
<1>. QED BY <1>1, <1>2, Inductive, PTL DEF Spec

(* The pool behaves as an executor without mutex, condition variables or   *)
(* nb_working (thread_pool.hpp:95-230): each accepted task starts once, in *)
(* the order of acceptance, on a worker that runs no other; nothing is     *)
(* accepted after stop(); wait_all() returns only when nothing is queued   *)
(* or running; what is discarded is discarded at once, all of the queue.   *)
THEOREM StepsAreOfAnExecutor == Spec => ImplementsExecutorSteps
<1>1. Init => Abstract!Init
  BY InitRInv
<1>2. RInv /\ [Next]_vars => [Abstract!Next]_(Abstract!vars)
  BY ExecutorStep
<1>. QED BY <1>1, <1>2, RefinementInductive, PTL DEF Spec, ImplementsExecutorSteps

=============================================================================
