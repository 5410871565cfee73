------------------------ MODULE ThreadPoolRefinement ------------------------
(***************************************************************************)
(* The pool with its mutex and condition variables implements the executor *)
(* of AbstractPool.  A task is running from the moment a worker takes it   *)
(* out of the deque until its future is ready; the decrement of nb_working *)
(* that follows is not visible to callers, nor is the destruction of the   *)
(* task object.                                                            *)
(***************************************************************************)
EXTENDS ThreadPool

TaskState ==
    [j \in Tasks |->
        IF fate[j] # "pending" THEN fate[j]
        ELSE IF \E t \in Threads : offer[t] = j THEN "offered"
        ELSE IF \E w \in Workers : held[w] = j THEN "running"
        ELSE "queued"]

Waiting == At("waitAll") \cup At("waitAllWait")

Abstract == INSTANCE AbstractPool WITH
    queue <- tasks, stopped <- stop, state <- TaskState, waiting <- Waiting,
    NbWorkers <- Cardinality(Workers)

(* Every fair behaviour of the pool is one of the executor: tasks start in *)
(* the order they were accepted, each once; after stop() none is accepted; *)
(* wait_all() returns when, and only when, no task is queued or running;   *)
(* no accepted task and no caller is forgotten.                            *)
ImplementsExecutor == Abstract!Spec

(* The safety half alone, for instances too large for liveness: no step of *)
(* a worker or caller, with tasks that enqueue tasks and with stop_now()   *)
(* racing the workers, is more than one step of the executor.              *)
ImplementsExecutorSteps == Abstract!Init /\ [][Abstract!Next]_(Abstract!vars)

=============================================================================
