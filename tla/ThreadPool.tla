----------------------------- MODULE ThreadPool -----------------------------
(***************************************************************************)
(* clst::ThreadPool<R> (clst/clst/thread_pool.hpp): worker threads that    *)
(* take std::packaged_tasks from a deque, under one mutex and three        *)
(* condition variables.                                                    *)
(*                                                                         *)
(* As in Channel, a critical section is one action, a notification sent    *)
(* after the unlock is an action of its own, one sent before the unlock is *)
(* part of the section, and the waiters of a condition variable are the    *)
(* threads at one location.  The body of a task may call the pool it runs  *)
(* on: a worker at "run" can then take the steps of a caller.              *)
(***************************************************************************)
EXTENDS Naturals, Sequences, FiniteSets

CONSTANTS
    Workers,    \* the pool's threads
    Clients,    \* the other threads
    Owner,      \* the client that destroys the pool
    Enqueuers,  \* the threads that may call enqueue() or submit()
    Stoppers,   \* the threads that may call stop()
    StoppersNow,\* the threads that may call stop_now()
    Waiters,    \* the threads that may call wait_all()
    Tasks,      \* BOUND: the tasks ever made
    MaxJobs,    \* max_jobs: 0 for an unbounded queue
    None        \* no task

Threads == Workers \cup Clients

ASSUME ThreadPoolAssumption ==
    /\ IsFiniteSet(Workers) /\ IsFiniteSet(Clients)
    /\ Workers \cap Clients = {}
    /\ Owner \in Clients
    /\ Enqueuers \subseteq Threads /\ Stoppers \subseteq Threads
    /\ StoppersNow \subseteq Threads /\ Waiters \subseteq Threads
    /\ MaxJobs \in Nat
    /\ None \notin Tasks

VARIABLES
    tasks,      \* the deque
    stop,       \* stop_
    nbWorking,  \* nb_working
    pc,         \* where each thread is
    held,       \* held[w]: the local variable task of worker_loop()
    offer,      \* offer[t]: the argument of t's enqueue_task()
    fate,       \* what has become of each task, and so of its future
    destroying  \* the destructor has begun

vars == <<tasks, stop, nbWorking, pc, held, offer, fate, destroying>>

(***************************************************************************)
(* A future is pending until the task has run ("ready": it holds a value   *)
(* or the exception of the body), or until the task is destroyed without   *)
(* having run: "discarded" from the queue, or "refused" by enqueue_task(). *)
(***************************************************************************)
Fates == {"new", "pending", "ready", "discarded", "refused"}

WorkerLocations ==
    {"start", "lock", "wait", "notifyRoom", "run", "done", "drop", "exit"}
CallerLocations ==
    {"enqueue", "enqueueWait", "notifyWorker",
     "stop", "stopNow", "stopWorkers", "stopEnqueuers",
     "waitAll", "waitAllWait"}
Locations == WorkerLocations \cup CallerLocations \cup {"idle", "join", "gone"}

At(location) == {t \in Threads : pc[t] = location}

Bounded == MaxJobs # 0

(* MUTANT of HasRoom: one too many.                                        *)
HasRoomForOneMore == Bounded => Len(tasks) <= MaxJobs

HasRoom == Bounded => Len(tasks) < MaxJobs

(* MUTANT of Quiet: the tasks being run are forgotten.                     *)
QuietQueue == tasks = <<>>

Quiet == nbWorking = 0 /\ tasks = <<>>      \* the predicate of wait_all()

(* Where t goes when its call of the pool returns: back to the task body,  *)
(* on to the join loop of the destructor, or out of the pool.              *)
Return(t) ==
    CASE t \in Workers -> "run"
      [] t = Owner /\ destroying -> "join"
      [] OTHER -> "idle"

Goto(t, location) == pc' = [pc EXCEPT ![t] = location]

data == <<tasks, stop, nbWorking, held, offer, fate, destroying>>

(* A step that only changes where t is.                                    *)
Move(t, from, to) == pc[t] = from /\ Goto(t, to) /\ UNCHANGED data

(* notify_one() on the condition variable of the threads at `blocked', who *)
(* then have to take the mutex again at `awake'; t goes on at `next'.      *)
NotifyOne(t, next, blocked, awake) ==
    IF At(blocked) = {}
    THEN Goto(t, next)
    ELSE \E w \in At(blocked) : pc' = [pc EXCEPT ![t] = next, ![w] = awake]

(* notify_all()                                                            *)
NotifyAll(t, next, blocked, awake) ==
    pc' = [u \in Threads |-> IF u = t THEN next
                             ELSE IF pc[u] = blocked THEN awake
                             ELSE pc[u]]

Init ==
    /\ tasks = <<>> /\ stop = FALSE /\ nbWorking = 0
    /\ pc = [t \in Threads |-> IF t \in Workers THEN "start" ELSE "idle"]
    /\ held = [w \in Workers |-> None]
    /\ offer = [t \in Threads |-> None]
    /\ fate = [j \in Tasks |-> "new"]
    /\ destroying = FALSE

-----------------------------------------------------------------------------
(* worker_loop()                                                           *)

(* The thread begins and has run init_fn.                                  *)
Start(w) == Move(w, "start", "lock")

WorkerBlock(w) == ~stop /\ tasks = <<>> /\ Move(w, "lock", "wait")

(* MUTANT of WorkerExit: leaves as soon as the pool is stopped.            *)
WorkerExitWhenStopped(w) == stop /\ Move(w, "lock", "exit")

WorkerExit(w) == stop /\ tasks = <<>> /\ Move(w, "lock", "exit")

(* w takes task j, leaves rest in the queue and goes on at next.           *)
Take(w, j, rest, count, next) ==
    /\ pc[w] = "lock" /\ tasks # <<>>
    /\ held' = [held EXCEPT ![w] = j]
    /\ tasks' = rest
    /\ nbWorking' = count
    /\ Goto(w, next)
    /\ UNCHANGED <<stop, offer, fate, destroying>>

AfterTake == IF Bounded THEN "notifyRoom" ELSE "run"

(* MUTANTS of WorkerTake: nb_working is not incremented; front() without   *)
(* pop_front(); the newest task first; nobody is told that there is room.  *)
WorkerTakeUncounted(w) == Take(w, Head(tasks), Tail(tasks), nbWorking, AfterTake)
WorkerTakeCopy(w) == Take(w, Head(tasks), tasks, nbWorking + 1, AfterTake)
WorkerTakeNewest(w) ==
    Take(w, tasks[Len(tasks)], SubSeq(tasks, 1, Len(tasks) - 1), nbWorking + 1, AfterTake)
WorkerTakeSilently(w) == Take(w, Head(tasks), Tail(tasks), nbWorking + 1, "run")

WorkerTake(w) == Take(w, Head(tasks), Tail(tasks), nbWorking + 1, AfterTake)

WorkerNotify(w) ==
    /\ pc[w] = "notifyRoom"
    /\ NotifyOne(w, "run", "enqueueWait", "enqueue")
    /\ UNCHANGED data

(* The body returns or throws; the packaged_task makes its future ready.   *)
WorkerRan(w) ==
    /\ pc[w] = "run"
    /\ fate' = [fate EXCEPT ![held[w]] = "ready"]
    /\ Goto(w, "done")
    /\ UNCHANGED <<tasks, stop, nbWorking, held, offer, destroying>>

(* MUTANT of LastOne: nb_working-- == 0 for --nb_working == 0.             *)
LastOnePostfix == nbWorking = 0

LastOne == nbWorking - 1 = 0

(* The decrement, with its notify_all before the unlock.                   *)
WorkerDone(w) ==
    /\ pc[w] = "done"
    /\ nbWorking' = nbWorking - 1
    /\ IF LastOne THEN NotifyAll(w, "drop", "waitAllWait", "waitAll") ELSE Goto(w, "drop")
    /\ UNCHANGED <<tasks, stop, held, offer, fate, destroying>>

(* The end of the loop's body destroys the task object.                    *)
WorkerDrop(w) ==
    /\ pc[w] = "drop"
    /\ held' = [held EXCEPT ![w] = None]
    /\ Goto(w, "lock")
    /\ UNCHANGED <<tasks, stop, nbWorking, offer, fate, destroying>>

-----------------------------------------------------------------------------
(* The calls.  A client calls from outside while the pool is not being     *)
(* destroyed, a worker from the body of the task it runs.                  *)

MayCall(t) ==
    \/ pc[t] = "run"
    \/ pc[t] = "idle" /\ ~destroying

(* enqueue(), submit(): make the packaged_task (and take its future).      *)
CallEnqueue(t) ==
    /\ t \in Enqueuers /\ MayCall(t)
    /\ \E j \in Tasks :
          /\ fate[j] = "new"
          /\ fate' = [fate EXCEPT ![j] = "pending"]
          /\ offer' = [offer EXCEPT ![t] = j]
    /\ Goto(t, "enqueue")
    /\ UNCHANGED <<tasks, stop, nbWorking, held, destroying>>

EnqueueBlock(t) == ~HasRoom /\ ~stop /\ Move(t, "enqueue", "enqueueWait")

(* EnqueueBlocked is thrown: the caller unwinds and the task is destroyed. *)
EnqueueRefused(t) ==
    /\ pc[t] = "enqueue" /\ stop
    /\ fate' = [fate EXCEPT ![offer[t]] = "refused"]
    /\ offer' = [offer EXCEPT ![t] = None]
    /\ Goto(t, Return(t))
    /\ UNCHANGED <<tasks, stop, nbWorking, held, destroying>>

Push(t, next) ==
    /\ pc[t] = "enqueue" /\ HasRoom
    /\ tasks' = Append(tasks, offer[t])
    /\ offer' = [offer EXCEPT ![t] = None]
    /\ Goto(t, next)
    /\ UNCHANGED <<stop, nbWorking, held, fate, destroying>>

(* MUTANTS of EnqueuePush: a woken enqueuer does not test stop_ again; no  *)
(* notification while some worker is busy.                                 *)
EnqueuePushUnchecked(t) == Push(t, "notifyWorker")
EnqueuePushThriftily(t) ==
    ~stop /\ Push(t, IF nbWorking = 0 THEN "notifyWorker" ELSE Return(t))

EnqueuePush(t) == ~stop /\ Push(t, "notifyWorker")

NotifyWorker(t) ==
    /\ pc[t] = "notifyWorker"
    /\ NotifyOne(t, Return(t), "wait", "lock")
    /\ UNCHANGED data

CallStop(t) ==
    /\ MayCall(t)
    /\ \/ t \in Stoppers /\ Goto(t, "stop")
       \/ t \in StoppersNow /\ Goto(t, "stopNow")
    /\ UNCHANGED data

StopSet(t) ==
    /\ pc[t] = "stop"
    /\ stop' = TRUE
    /\ Goto(t, "stopWorkers")
    /\ UNCHANGED <<tasks, nbWorking, held, offer, fate, destroying>>

(* The tasks in the deque are destroyed, and their promises broken.        *)
DestroyTasks ==
    /\ tasks' = <<>>
    /\ fate' = [j \in Tasks |-> IF \E i \in DOMAIN tasks : tasks[i] = j
                                THEN "discarded" ELSE fate[j]]

(* MUTANT of StopNowSet: wait_all() is not told.                           *)
StopNowSetSilently(t) ==
    /\ pc[t] = "stopNow" /\ stop' = TRUE
    /\ DestroyTasks
    /\ Goto(t, "stopWorkers")
    /\ UNCHANGED <<nbWorking, held, offer, destroying>>

(* stop_now() tells wait_all() if it leaves nothing to wait for.           *)
StopNowSet(t) ==
    /\ pc[t] = "stopNow"
    /\ stop' = TRUE
    /\ DestroyTasks
    /\ IF nbWorking = 0
       THEN NotifyAll(t, "stopWorkers", "waitAllWait", "waitAll")
       ELSE Goto(t, "stopWorkers")
    /\ UNCHANGED <<nbWorking, held, offer, destroying>>

AfterStopWorkers(t) == IF Bounded THEN "stopEnqueuers" ELSE Return(t)

(* MUTANT of StopWorkers: the enqueuers are forgotten.                     *)
StopWorkersOnly(t) ==
    pc[t] = "stopWorkers" /\ NotifyAll(t, Return(t), "wait", "lock") /\ UNCHANGED data

StopWorkers(t) ==
    /\ pc[t] = "stopWorkers"
    /\ NotifyAll(t, AfterStopWorkers(t), "wait", "lock")
    /\ UNCHANGED data

StopEnqueuers(t) ==
    /\ pc[t] = "stopEnqueuers"
    /\ NotifyAll(t, Return(t), "enqueueWait", "enqueue")
    /\ UNCHANGED data

CallWaitAll(t) ==
    /\ t \in Waiters /\ MayCall(t)
    /\ Goto(t, "waitAll")
    /\ UNCHANGED data

WaitAllBlock(t) == ~Quiet /\ Move(t, "waitAll", "waitAllWait")

WaitAllReturn(t) == Quiet /\ Move(t, "waitAll", Return(t))

-----------------------------------------------------------------------------
(* ~ThreadPool(): the clients have returned from their calls (the caller's *)
(* duty); stop(), join every worker, then the members are destroyed.       *)

CallDestroy ==
    /\ ~destroying
    /\ \A c \in Clients : pc[c] = "idle"
    /\ destroying' = TRUE
    /\ Goto(Owner, "stop")
    /\ UNCHANGED <<tasks, stop, nbWorking, held, offer, fate>>

Joined ==
    /\ pc[Owner] = "join"
    /\ \A w \in Workers : pc[w] = "exit"
    /\ DestroyTasks
    /\ Goto(Owner, "gone")
    /\ UNCHANGED <<stop, nbWorking, held, offer, destroying>>

-----------------------------------------------------------------------------
(* A condition variable may wake a waiter that nobody notified.            *)
SpuriousWake(t) ==
    \/ Move(t, "wait", "lock")
    \/ Move(t, "enqueueWait", "enqueue")
    \/ Move(t, "waitAllWait", "waitAll")

WorkerStep(w) ==
    \/ Start(w) \/ WorkerBlock(w) \/ WorkerExit(w) \/ WorkerTake(w)
    \/ WorkerNotify(w) \/ WorkerRan(w) \/ WorkerDone(w) \/ WorkerDrop(w)

CallStep(t) ==
    \/ EnqueueBlock(t) \/ EnqueueRefused(t) \/ EnqueuePush(t) \/ NotifyWorker(t)
    \/ StopSet(t) \/ StopNowSet(t) \/ StopWorkers(t) \/ StopEnqueuers(t)
    \/ WaitAllBlock(t) \/ WaitAllReturn(t)

Call(t) == CallEnqueue(t) \/ CallStop(t) \/ CallWaitAll(t)

Next ==
    \/ \E w \in Workers : WorkerStep(w)
    \/ \E t \in Threads : CallStep(t) \/ Call(t) \/ SpuriousWake(t)
    \/ CallDestroy \/ Joined

Spec == Init /\ [][Next]_vars

(***************************************************************************)
(* A thread that can run does run; the mutex is eventually obtained; the   *)
(* body of a task ends, however often it calls the pool.  Nobody is        *)
(* obliged to call, and spurious wake-ups are never relied upon.           *)
(***************************************************************************)
Fairness ==
    /\ \A w \in Workers : WF_vars(WorkerStep(w)) /\ SF_vars(WorkerRan(w))
    /\ \A t \in Threads : WF_vars(CallStep(t))
    /\ WF_vars(Joined)

FairSpec == Spec /\ Fairness

-----------------------------------------------------------------------------
(* Properties                                                              *)

(* Types, and a bounded pool never has more than max_jobs tasks queued.    *)
TypeOK ==
    /\ tasks \in Seq(Tasks)
    /\ Bounded => Len(tasks) <= MaxJobs
    /\ stop \in BOOLEAN /\ destroying \in BOOLEAN
    /\ nbWorking \in 0 .. Cardinality(Workers)
    /\ pc \in [Threads -> Locations]
    /\ held \in [Workers -> Tasks \cup {None}]
    /\ offer \in [Threads -> Tasks \cup {None}]
    /\ fate \in [Tasks -> Fates]

(* A worker between its increment and its decrement of nb_working.         *)
Busy == {w \in Workers : pc[w] \in {"notifyRoom", "run", "done"} \cup CallerLocations}

(* nb_working, read by wait_all() and stop_now() while tasks run unlocked, *)
(* is exactly the number of workers between taking a task and reporting it *)
(* done, wherever their tasks are.                                         *)
WorkingCount == nbWorking = Cardinality(Busy)

(* No task is lost, kept twice or run twice: a task whose future is        *)
(* pending is in exactly one place (the argument of an enqueue_task(), the *)
(* queue, or the hands of the worker that is going to run it), and one     *)
(* whose future is settled is in none.                                     *)
OnePlacePerTask ==
    \A j \in Tasks :
        LET places == {<<"queue", i>> : i \in {i \in DOMAIN tasks : tasks[i] = j}}
                 \cup {<<"worker", w>> : w \in {w \in Busy : held[w] = j /\ pc[w] # "done"}}
                 \cup {<<"caller", t>> : t \in {t \in Threads : offer[t] = j}}
        IN  Cardinality(places) = IF fate[j] = "pending" THEN 1 ELSE 0

(* No task lies in the queue while workers sleep: as long as a worker is   *)
(* blocked in wait(), there are as many threads about to notify or about   *)
(* to look at the queue as there are tasks, or stop() is about to wake     *)
(* everybody.                                                              *)
NoStrandedTask ==
    At("wait") # {} /\ At("stopWorkers") = {} =>
        Len(tasks) <= Cardinality(At("notifyWorker") \cup At("lock"))

(* Dually, enqueuers of a bounded pool do not sleep while there is room.   *)
NoStrandedEnqueuer ==
    At("enqueueWait") # {} /\ ~stop =>
        MaxJobs - Len(tasks) <= Cardinality(At("notifyRoom") \cup At("enqueue"))

(* Nobody sleeps in wait_all() once no task is queued or running: both     *)
(* places that can make its predicate true notify before they unlock.      *)
NoStrandedWaiter == At("waitAllWait") # {} => ~Quiet

(* Nobody sleeps through stop() or stop_now().                             *)
NoSleepAfterStop ==
    stop =>
        /\ At("wait") # {} => At("stopWorkers") # {}
        /\ At("enqueueWait") # {} => At("stopWorkers") \cup At("stopEnqueuers") # {}

(* "Remaining tasks will continue on" (thread_pool.hpp:52): a worker that  *)
(* has left its loop leaves no task behind, then or later, and without a   *)
(* stop_now() no accepted task is thrown away, whatever races with stop()  *)
(* or with the destructor.                                                 *)
RemainingTasksRun ==
    /\ (\E w \in Workers : pc[w] = "exit") => stop /\ tasks = <<>>
    /\ Workers # {} /\ StoppersNow = {} => \A j \in Tasks : fate[j] # "discarded"

(* "Enqueuing is blocked" (thread_pool.hpp:52): after stop() the queue     *)
(* only drains, even for an enqueue() that was blocked in wait().          *)
OnlyDrainsAfterStop ==
    [][stop => /\ stop'
               /\ \/ tasks' \in {tasks, <<>>}
                  \/ tasks # <<>> /\ tasks' = Tail(tasks)]_vars

(* "Wait for all tasks to finish" (thread_pool.hpp:62): when wait_all()    *)
(* returns, the body of every task accepted so far has ended, or the task  *)
(* was discarded.                                                          *)
WaitAllMeansFinished ==
    [][\A t \in Threads : pc[t] = "waitAll" /\ pc'[t] = Return(t) =>
          \A j \in Tasks : fate[j] = "pending" => \E c \in Threads : offer[c] = j]_vars

(* The destructor's join() calls return, and so does every wait_all() of a *)
(* client, as the tasks run out.                                           *)
CallsReturn ==
    /\ destroying ~> pc[Owner] = "gone"
    /\ \A c \in Clients : pc[c] = "waitAll" ~> pc[c] # "waitAll" /\ pc[c] # "waitAllWait"

=============================================================================
