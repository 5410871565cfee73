---------------------------- MODULE AbstractPool ----------------------------
(***************************************************************************)
(* What clst::ThreadPool promises to its callers: an executor with a first-*)
(* in first-out queue, that starts each accepted task once, on one of a    *)
(* fixed number of workers.  There are no threads, no mutex and no         *)
(* notification here: what can happen is not left waiting.                 *)
(***************************************************************************)
EXTENDS Naturals, Sequences, FiniteSets

CONSTANTS Tasks, Waiters, MaxJobs, NbWorkers

VARIABLES
    queue,      \* the accepted tasks that have not been started
    stopped,    \* no task is accepted any more
    state,      \* where each task is in its life
    waiting     \* the threads inside wait_all()

vars == <<queue, stopped, state, waiting>>

Running == {j \in Tasks : state[j] = "running"}

Init ==
    /\ queue = <<>> /\ stopped = FALSE /\ waiting = {}
    /\ state = [j \in Tasks |-> "new"]

Becomes(j, from, to) ==
    /\ state[j] = from
    /\ state' = [state EXCEPT ![j] = to]

(* A caller brings a task, which is accepted, refused or kept waiting.     *)
Offer(j) == Becomes(j, "new", "offered") /\ UNCHANGED <<queue, stopped, waiting>>

Accept(j) ==
    /\ Becomes(j, "offered", "queued")
    /\ ~stopped
    /\ MaxJobs # 0 => Len(queue) < MaxJobs
    /\ queue' = Append(queue, j)
    /\ UNCHANGED <<stopped, waiting>>

Refuse(j) ==
    /\ Becomes(j, "offered", "refused")
    /\ stopped
    /\ UNCHANGED <<queue, stopped, waiting>>

(* The oldest task starts, stopped or not.                                 *)
Begin ==
    /\ queue # <<>> /\ Cardinality(Running) < NbWorkers
    /\ Becomes(Head(queue), "queued", "running")
    /\ queue' = Tail(queue)
    /\ UNCHANGED <<stopped, waiting>>

Finish(j) == Becomes(j, "running", "ready") /\ UNCHANGED <<queue, stopped, waiting>>

Stop == stopped' = TRUE /\ UNCHANGED <<queue, state, waiting>>

StopNow ==
    /\ stopped' = TRUE
    /\ queue' = <<>>
    /\ state' = [j \in Tasks |-> IF state[j] = "queued" THEN "discarded" ELSE state[j]]
    /\ UNCHANGED waiting

CallWaitAll(t) ==
    /\ waiting' = waiting \cup {t}
    /\ UNCHANGED <<queue, stopped, state>>

(* wait_all() returns: only when no task is queued or running.             *)
WaitAll(t) ==
    /\ t \in waiting
    /\ queue = <<>> /\ Running = {}
    /\ waiting' = waiting \ {t}
    /\ UNCHANGED <<queue, stopped, state>>

Next ==
    \/ Begin \/ Stop \/ StopNow
    \/ \E j \in Tasks : Offer(j) \/ Accept(j) \/ Refuse(j) \/ Finish(j)
    \/ \E t \in Waiters : CallWaitAll(t) \/ WaitAll(t)

(* While there is room some waiting caller gets in; the oldest task is     *)
(* started and the running ones end; refusals and wait_all() return.       *)
Fairness ==
    /\ WF_vars(Begin) /\ WF_vars(\E j \in Tasks : Accept(j))
    /\ \A j \in Tasks : WF_vars(Refuse(j)) /\ WF_vars(Finish(j))
    /\ \A t \in Waiters : WF_vars(WaitAll(t))

Spec == Init /\ [][Next]_vars /\ Fairness

=============================================================================
