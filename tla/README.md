# celestite in TLA+

celestite (`clst`) is a C++ utility library: concurrency (a blocking channel, a
thread pool), containers (a ring buffer, an arena), reference-counted errors,
binary streams over memory and files, and wrappers of system services. This
directory holds TLA+ modules of the parts whose correctness depends on
interleavings, on long sequences of calls, on failures half way or on integer
boundaries, the TLC configurations that check them, and TLAPS proofs. Source paths below are relative to `src/`.

`PROJECT.json` lists components, runs, hazards and theorems, and maps every
definition to the lines it models.

## 1. Inventory

| Component | State | Operations | Interacts with | Modules |
|---|---|---|---|---|
| Channel, `clst/clst/channel.hpp` | deque of items, `closed_`, `max_`, one mutex, two condition variables | `emplace`/`push`, `pop` (two overloads), `close`, `clear`, `empty`, `size` | threads that share it; blocked threads are woken by notifications sent after the unlock | `Channel`, `AbstractChannel`, `ChannelRefinement`, `ChannelProofs` |
| Pipeline, `test/channel.cpp` | three threads, two channels, a result vector | send, process, collect | consumer of one channel is producer of the next and closes it | `ChannelPipeline`, `ChannelPipelineProofs` |
| ThreadPool, `clst/clst/thread_pool.hpp` | deque of tasks, `stop_`, `nb_working`, `max_jobs`, one mutex, three condition variables, the worker threads, the futures of the tasks | `enqueue`, `submit`, `stop`, `stop_now`, `wait_all`, destructor; `worker_loop` in each worker | clients, and tasks that call the pool they run on | `ThreadPool`, `AbstractPool`, `ThreadPoolRefinement`, `ThreadPoolProofs`, `MCThreadPool` |
| RingBuffer, `clst/clst/ring_buffer.hpp` | block of raw slots, `first_`, `count_`, `max_` | construct, move, destroy, `push`, `push_overwrite`, `emplace`, `pop`, `pop_back`, `clear`, indexing | allocator; blocks change owner by move | `RingBuffer`, `AbstractDeque`, `RingBufferRefinement`, `RingBufferProofs`, `MCRingBuffer` |
| Errors, `clst/clst/error.hpp`, `clst/error.cpp` | control block with text and atomic count, handles to it | construct, copy, assign, move, release | exceptions cross threads (`std::exception_ptr`) | `ArcString`, `ArcStringProofs`, `MCArcString` |
| Arena, `clst/clst/arena.hpp` | current and end pointer | aligned `allocate` | caller's block | `Arena` |
| Binary streams, `clst/clst/binary_stream.hpp`, `memory_cursor.hpp` | position and bounds of a cursor | `seek`, `tell`, `read`, `write`; `patch_bytes`, `patch_num`, `copy_from`, `write_num`, `read_num` over any stream | an underlying stream that may be short or fail | `BinaryStream`, `StreamNumbers` |
| Binary file stream, `clst/clst/binary_file_stream.hpp`, `clst/binary_file_stream.cpp` | `fp_`, cached file size | `open`, `close`, moves, destructor; `read`, `write`, `getc`, `ungetc`, `putc`, `seek`, `tell`, `get_length` | C stdio | `BinaryFileStream`, `BinaryFileStreamProofs` (ownership), `BinaryStream` (the calls on an open file) |
| Dso, `clst/clst/dso.hpp`, `clst/dso.cpp` | library handle | construct, `open`, `close`, moves, destructor, symbol lookup | `dlopen`/`dlclose` | `Dso`, `DsoProofs` |
| num_cast, `clst/clst/num_cast.hpp` | none (pure) | range-checked conversion | | `NumCast` |
| Morton codes, `clst/clst/morton.hpp` | none (pure) | `morton_3d`, `demorton_3d` | | `Morton` |
| sys_dirs, `clst/clst/sys_dirs.hpp`, `clst/sys_dirs.cpp` | none (reads the environment, creates directories) | `home_dir`, `xdg::config_dir` and its siblings, `tmp_dir` | environment, user database, file system, other callers | `SysDirs`, `MCSysDirs`, `Environments` |
| scope guard, any_ref, system and terminal utilities, header utilities | one member or none | | | not modelled: no behaviour over time, or pure I/O and formatting |

The parts from the arena to `sys_dirs` are checked together by `Utilities` and `MCUtilities`, and
proved about in `UtilitiesProofs`.

**What is hard here, and what makes each part correct.**

* *Channel.* Notifications are sent after the unlock, `notify_one` is used
  wherever possible, and the single-producer and single-consumer variants notify
  on a transition only. Correct means: first in first out, nothing lost or
  delivered twice; no caller asleep next to something it could take; `close()`
  lets everybody out and the queue then only drains.
* *ThreadPool.* The same, with three kinds of sleepers, and a counter that is
  read by `wait_all()` and `stop_now()` while tasks run unlocked. Correct means:
  every accepted task is in exactly one place and is run once, or discarded by
  `stop_now()`; workers do not leave work behind; `wait_all()` returns when, and
  only when, nothing is queued or running; the destructor returns.
* *RingBuffer.* Elements are constructed and destroyed by hand in a window that
  wraps around. Correct means: the live slots are exactly the window; a block has
  one owner; the indexed elements behave as a sequence.
* *ArcString.* Counting happens in separate atomic steps. Correct means: the
  count is the number of handles, the last one frees, no handle dangles.
* *Arena.* Unsigned arithmetic modulo the word. Correct means: what is handed out
  is aligned, inside the block, and apart from everything handed out before.
* *Streams.* Each generic operation is several calls, any of which may throw, a
  file's half way. Correct means: a cursor never leaves its block; a patch
  changes its window and nothing else; a copy is a prefix, and complete if it
  returns; numbers do not depend on the machine.
* *File stream, Dso.* The life cycle of an external handle over objects that are
  moved, assigned to themselves, closed and opened again. Correct means: an open
  handle has exactly one owner, and what is remembered of it is about it.
* *num_cast, Morton.* Conversions of C++ and masks with irregular bits. Correct
  means: the same number or nothing; the code is the interleaving.
* *sys_dirs.* A test and a creation, with other callers in between. Correct
  means: what is returned is an existing directory, the standard one.

`PROJECT.json` "hazards" lists these at their lines, with the properties that
cover them, or a note for those that have none.

## 2. Modules and how they correspond to the code

Conventions. A critical section of the code is one action; a notification sent
after the unlock is an action of its own, one sent before it is part of the
section. A condition variable is the set of threads at one location:
`notify_one` moves any one of them (or none, if there are none) to the point where it takes the mutex
again and re-evaluates its predicate; a spurious wake-up does the same at any
time. The mutex itself is not a variable: an action that models a critical
section happens at once. An operator whose comment begins with `MUTANT of` is a
plausible wrong version of the definition that follows; no specification uses
it, it shows that a property notices the mistake.

* **`Channel`** has the template parameters `Bounded`, `Sp`, `Sc` and the
  constructor argument as constants, and sets of threads that may call each
  operation. `items` is the deque, `closed` is `closed_`, `pc[t]` is where thread
  t is. `emplace()` is `CallEmplace`, then `EmplaceBlock`, `EmplaceRefused`,
  `EmplacePush` or `EmplaceThrow`, then perhaps `NotifyPop`; `pop()` likewise;
  `close()` is `CloseSet`, `CloseNotifyPop`, `CloseNotifyEmplace`; `clear()` is
  `ClearItems`, `ClearNotify`. An element operation that throws releases the lock
  with nothing changed (`emplace_back` has the strong guarantee; the move out of
  `front()` happens before `pop_front()`).
* **`AbstractChannel`** is the blocking queue a caller sees: no mutex, no
  condition variables. **`ChannelRefinement`** maps `pc` to the call a thread is
  in, and states `ImplementsQueue`.
* **`ChannelPipeline`** has two instances of `Channel` and the loops of the three
  threads of `test/channel.cpp`. The forwarding thread has a `pc` in each channel.
* **`ThreadPool`**: `worker_loop()` is `Start`, `WorkerBlock`, `WorkerExit`,
  `WorkerTake`, `WorkerNotify`, `WorkerRan`, `WorkerDone`, `WorkerDrop`. A worker
  at "run" executes the body of its task, and may take the steps of a caller.
  `enqueue()` and `submit()` are `CallEnqueue` and then `EnqueueBlock`,
  `EnqueueRefused` or `EnqueuePush`, `NotifyWorker`. `stop()` and `stop_now()`
  share the notifications `StopWorkers` and `StopEnqueuers`. The destructor is
  `CallDestroy`, the steps of `stop()`, and `Joined`. The future of a task is
  reduced to `fate[j]`. `std::packaged_task` catches what the body throws, so a
  body that throws makes the future ready too.
* **`AbstractPool`** is the executor: a first-in first-out queue, at most as many
  running tasks as workers, no threads. **`ThreadPoolRefinement`** maps the
  places a task can be in to its abstract state.
* **`RingBuffer`**: `buf[b]` are the members of object b, `slots[d]` the slots of
  block d, each `Raw` or an element. `Destroyed(n)` is what the loop of `clear()`
  really does (section 5). `ClearUpTo` restricts `clear()`, destruction and
  assignment to buffers of at most that many elements.
* **`AbstractDeque`** holds bounded sequences; **`RingBufferRefinement`** reads
  the sequence through the index computation of `operator[]`.
* **`ArcString`**: one step per atomic operation or access to `rep_`. `Moves`
  allows the moves of `ArcString`, which `RuntimeError` deletes; `SelfAssign`
  allows `e = e`. The duty of callers (a handle is written by one thread at a
  time, and several may copy from it) is `Exclusive` and `Shared`.

* **`Arena`**: an address is a number below `AddressSpace`, the number of values of
  `uintptr_t`. The padding is the code's unsigned negation, modulo `AddressSpace`, and its mask, which for
  an alignment that is a power of two is a remainder. `blocks` is a history of what was handed out.
  `Requests` are those for which `pad + size` does not overflow.
* **`BinaryFileStream`**: `stream[s]` are `fp_` and `file_size_` of an object, or
  `Absent`; `file[f]` is stdio's side, with the size that was determined when the
  file was opened, as a history for `LengthIsOfThisFile`. `open()` may succeed,
  fail with nothing changed, or fail while the file stays open (no size).
* **`BinaryStream`**: two streams, each a memory cursor (which throws without
  effect), a file (which may throw with part of the effect), a file opened for
  appending, or closed. `patch_bytes` is `CallPatch`, `PatchTell`, `PatchSeek`,
  `PatchWrite`, `PatchReturn`; `copy_from` is `CallCopy` and a loop of
  `CopyRead`, `CopyWrite`; an exception ends either. Bytes are never looked at by this
  code, so their values are abstracted to where they came from: whenever no operation is
  in progress, the bytes of a stream are renamed to be all different.
* **`StreamNumbers`**: `write_num` on one machine and `read_num` on another, each
  with its own byte order and size of the type, with digits of base `Base` as bytes.
* **`Dso`**: `handle_` of each object and the loader's reference count.
  `CloseOpen` allows `close()` while a library is open (section 5).
* **`NumCast`**: the comparisons of the code are those of C++: `Common` is the type
  both sides are converted to, `Cast` the conversion modulo the number of values of the
  type. A type is given by that number and its sign, not by its bits: of powers
  of two only `ProperSizes` is used (they are even, and a larger one is at least twice
  a smaller one), and 2^n means nothing to the provers.
* **`Morton`**: a 64-bit word is the set of the positions of its ones, with the
  real masks and shifts.
* **`SysDirs`**: a call is `Lookup`, `Test`, and one step of `Create` for each
  missing component; `tree` is the file system, shared by the callers.
  **`MCSysDirs`** gives its constants their values.
* **`Utilities`** puts the eight modules above next to each other. They do not use each
  other: `part` says which one a behaviour exercises, and the variables of the
  others rest. It is only a way to check them in one run. Its constants are theirs, and
  `UtilitiesAssumption` collects what they assume. **`MCUtilities`** adds the
  environments and file systems of **`Environments`** for TLC.

`MCThreadPool`, `MCRingBuffer` and `MCArcString` only add symmetry sets, used in
the runs that have no liveness property.

## 3. Runs

| Run | What it asks | Instance |
|---|---|---|
| `channel_mpmc` | with many producers and consumers: no wake-up is lost, nobody sleeps through `close()`, a closed channel only drains; refinement; `close()` ends every call | 2 producers, 3 consumers, 1 closer and clearer, 2 slots |
| `channel_spsc` | refinement with both economies of notification, exceptions and `clear()` | 1 producer, 1 consumer, 2 slots, 2 values |
| `pipeline` | the test program loses and reorders nothing at any step, and ends | 4 strings, channels of 2 and 1 |
| `pool_safety` | safety of the pool, with everything that may happen, and the steps of the refinement | 2 workers, 3 clients, 4 tasks, 2 slots, nested `enqueue`, `stop`, `stop_now`, `wait_all`, destructor |
| `pool_bounded` | refinement and liveness of a bounded pool that is stopped by its destructor only: every accepted task runs | 2 workers, 2 clients, 3 tasks, 1 slot |
| `ring` | slots, ownership and refinement | 2 objects, 2 blocks, capacities 1 and 3, 2 values, throwing constructors, `ClearUpTo = 1` |
| `ring_clear` | finding: `clear()` of more than one element | the same, `ClearUpTo = 3` |
| `arc` | counting: copies, moves, assignments and destructors interleaved | 3 threads, 4 handles, 2 control blocks |
| `arc_self` | finding: self-assignment (the operations of `RuntimeError`, which has no moves) | the same, `Moves = FALSE`, `SelfAssign = TRUE` |
| `utilities` | placement, ownership, patching and copying, numbers, conversions, codes and directories (the properties of `Arena` to `SysDirs`) | below; `ReuseMoved = FALSE`, `CloseOpen = FALSE` |
| `dso_close` | finding: `close()` of an open library | 2 objects, 1 library |
| `xdg_state` | finding: the default directory for state data | the instance of `MCSysDirs` |

The instances of `utilities`, given in `utilities.cfg` and `Environments`: `Arena` with 16
addresses and the alignments 1, 2, 4 and 8, every place and length of the block, every size, and 3 pieces;
`BinaryFileStream` with 3 objects, 2 files, all modes and 2 sizes; `BinaryStream`
with streams of up to 4 bytes and a copy buffer of 2; `StreamNumbers` with up to 3
digits of base 2; `Dso` with 3 objects and 2 libraries; `NumCast` with every
pair of the six types of 4, 8 and 16 values, an `int` of 8, and every value; `Morton` with all
inputs of one or two ones; `SysDirs` with 2 callers, 3 directories, 18 environments
for each of them and 3 file systems.

**Why these bounds are enough to be interesting.** A lost wake-up needs two
sleepers on one side, and one thread on the other that acts between the unlock and
the notification; three consumers add a third party that takes the item in
between. One or two slots make full and empty (and, with two, neither) states reachable within a few
steps. Two workers are the least with which one can sleep while the other works,
and three tasks fill the worker, the slot and the hands of a blocked enqueuer at
once; with two slots, in `pool_safety`, the order of the queue matters too. Capacity 3 lets the window of a ring buffer wrap at every offset, capacity 1
is the boundary where front and back are the same slot. Two handles racing on a
count need two threads; the third copies at the same time. `Tasks`,
`Reps` and `N` are the only bounds on otherwise unbounded behaviour in these runs
(`Backlog` bounds an unbounded channel, which no run instantiates: the proofs do).

Of the small parts: a third piece of an arena follows one that was padded and one
that was not. An object onto which another is moved, while a third one holds
something else, needs three. A copy of three bytes through a buffer of two has a full
and a shorter last round, and a fourth byte shows whether that round stops in time.
Types narrower than, as wide as and wider than `int` meet in all combinations of
signs with the sizes 4, 8 and 16. In `Morton` every operation (union, intersection with a
mask, shift) treats the ones of a word separately, so that inputs of one
bit determine all, and two bits show that axes do not disturb each other. Two callers and a path of two missing
components are what a race in `create_directories()` needs. `MaxBlocks`,
`MaxRefs` and `MaxLen` are the bounds on otherwise unbounded behaviour; `MaxLen` is
also where the disk is full.

**Deadlock.** `CHECK_DEADLOCK FALSE` in all runs: clients may stop calling, a
pool ends when its destructor has returned, tasks and control blocks run out,
the pipeline is over when its threads are joined, and a computation is over when it has
its result. That nobody is stuck is
what the `NoStranded...` invariants and the liveness properties say.

**Fairness.** Weak fairness of each thread's own steps: a runnable thread is
scheduled, and as no critical section contains a wait (other than the
condition's own, which releases the mutex), the mutex is eventually obtained.
Calls are not fair: nobody has to call anything. Spurious wake-ups are not fair:
nothing relies on them. In the pool, `SF(WorkerRan)` says that a task body ends,
although it may go in and out of calls of the pool. Two consequences are visible
in the configurations:

* An element operation that throws uses up a notification. The caller then owes a
  retry (`emplaceThrew`, `popThrew`), or other sleepers are not served; the code
  cannot do better without a second notification. `channel_mpmc` checks liveness
  and has `MayThrow = {}`; `channel_spsc` has it switched on, and the proofs of
  section 4 hold for any `MayThrow`.
* A task that enqueues to the full queue of its own bounded pool may block every
  worker. `pool_bounded`, which checks liveness, has no nested enqueueing;
  `pool_safety`, which has it, checks the steps of the refinement without its fairness.

## 4. Proofs

### The channel

`ChannelProofs` proves, for every set of threads, roles, values and every capacity, and for all
combinations of `Bounded`, `Sp`, `Sc` and `MayThrow`:

| Theorem | Statement |
|---|---|
| `TypeCorrect` | `Spec => []TypeOK`, including that a bounded channel never exceeds `max_` |
| `ConsumersAreNotStranded` | `Spec => []NoStrandedPop` |
| `ProducersAreNotStranded` | `Spec => []NoStrandedEmplace` |
| `CloseWakesEverybody` | `Spec => []NoSleepAfterClose` |
| `DrainsAfterClose` | `Spec => OnlyDrainsAfterClose` |
| `StepsAreOfAQueue` | `Spec => ImplementsQueueSteps`, the safety half of `ImplementsQueue` |

The only assumption is `ChannelAssumption`: `Max > 0` (asserted by the
constructor), finitely many threads, at most one producer if `Sp` and at most one
consumer if `Sc` (the meaning of the template parameters).

`NoStrandedPop` is not inductive. With two items and two sleepers, one
helper satisfies it; when that helper takes one item and leaves, the
second item is stranded. What holds is a count: while a consumer sleeps there are
at least as many threads on their way as there are items (`PopCovered`). A push
adds one item and one notifier; a notification replaces the notifier by a woken
consumer, so the number stays the same; a pop removes one of each; a consumer
that goes to sleep sees an empty queue. With a single consumer the count is not
kept, as the push only notifies at the transition, but then one notifier is
enough, since the only possible sleeper is the one it wakes. `EmplaceCovered` is the dual for
free slots, suspended while `clear()` or `close()` owes a `notify_all`. The
inductive invariant `IInv` is `TypeOK`, `RolesOK` (only consumers are in `pop()`),
`OnlyBoundedBlocks`, `NoSleepAfterClose`, `PopCovered` and `EmplaceCovered`. It was
checked with TLC, on the instance of `channel_mpmc` with exceptions, before it was proved. The lemmas `CountThreads` and
`SwapThreads` carry the arithmetic of cardinalities, `QuietPop` and `QuietEmplace`
dispose of the steps that do not touch the counted sets, and `PopStep` and
`EmplaceStep` treat the others one by one.

The refinement maps each thread to the call it is blocked in (`CallOf`, a function of its
location), and a call takes effect in the critical section that decides its result.
`GotoMaps` turns an assignment to `pc` into one to the call of that thread, and `WakingMaps` says that
who is woken is still in the same call, so that notifications stutter. No more than `TypeOK` is
needed of the states: the queue's guards are tested under the mutex, in the step that takes effect.

### The pool

`ThreadPoolProofs` proves, for every number of workers, clients and tasks, for bounded and
unbounded queues, and for all choices of who may enqueue, stop and wait:

| Theorem | Statement |
|---|---|
| `TypeCorrect` | `Spec => []TypeOK`, including `Len(tasks) <= MaxJobs` and the range of `nb_working` |
| `CountsRunningTasks` | `Spec => []WorkingCount` |
| `TasksAreNotStranded` | `Spec => []NoStrandedTask` |
| `EnqueuersAreNotStranded` | `Spec => []NoStrandedEnqueuer` |
| `WaitersAreNotStranded` | `Spec => []NoStrandedWaiter` |
| `StopWakesEverybody` | `Spec => []NoSleepAfterStop` |
| `RemainingTasksAreRun` | `Spec => []RemainingTasksRun` |
| `DrainsAfterStop` | `Spec => OnlyDrainsAfterStop` |
| `WaitAllWaits` | `Spec => WaitAllMeansFinished` |
| `TasksAreInOnePlace` | `Spec => []OnePlacePerTask` |
| `StepsAreOfAnExecutor` | `Spec => ImplementsExecutorSteps` |

The only assumption is `ThreadPoolAssumption`: finitely many threads, workers and
clients apart, the destructor is called by a client. Nothing is assumed of the
number of workers; that somebody is there to run a task is a matter of liveness.

The inductive invariant `IInv` has the six state properties above and four
auxiliary parts. `Typed` leaves out the range of `nb_working`: that a decrement
does not go below zero follows from `WorkingCount`, not from types. `Placed` says
where workers and clients can be, and that a busy worker holds a task.
`DestroyedAlone` says that the destructor runs alone among clients: without it
a client could enqueue after the threads were joined. `Accounted` says that a
pending task is offered, queued or in the hands of a busy worker.

`BusyStep` shows that only `WorkerTake` and `WorkerDone` change the set of busy
workers, each by one worker and `nb_working` by one, so that `CountBusy` can
say that `nb_working` is zero exactly when nobody is busy. `WaitAllWaits` is this fact
and `Accounted`: with an empty queue and no busy worker, whatever is pending has not
been queued yet. `NoStrandedTask` and `NoStrandedEnqueuer` are inductive as they
stand, being already counts (while a worker sleeps, at least as many threads
are on their way as there are tasks); `QuietTask`
and `QuietRoom` dispose of the steps that do not touch the counted sets.
`IInv` was checked with TLC on the instance of `pool_safety`, bounded and
unbounded, before it was proved.

`OnePlacePerTask` counts places; `Single` says the same with quantifiers: the
pending tasks are those that are queued, offered or in the hands of a worker that has not yet
run them, nowhere twice, and nowhere in two of the three. `Single` is inductive relative to
`IInv`; `Popped` and `Pushed` say what `pop_front()` and `emplace_back()` do
to the set of queued tasks, and `PlacesCounted` goes back to the cardinality.

`StepsAreOfAnExecutor` computes the state that the executor gives a task from the fate of its future and from who
holds it. That needs `Single` and one thing more, `Held`: `worker_loop()` keeps
the object of a task until the end of the loop's body, after the future is ready, and such a leftover must not
make a task look as if it were running. `TaskMoves` shows that six
steps and the two `clear()` change where tasks are (`SingleStep` rests on it too), `OneTaskChanges` that each of the six
concerns one task, and `FewerRunning`, by an injection of the running tasks into the workers,
that a worker which takes a task is not one that runs another. `Stopped`
is what makes the destruction of the deque a `StopNow`: who has joined the workers has set `stop_`.
`Held` and `Stopped` were checked with TLC before they were proved.

### The pipeline

`ChannelPipelineProofs` proves, for any number of strings and any two sizes of the channels:

| Theorem | Statement |
|---|---|
| `NothingIsLostOrReordered` | `Spec => []NothingLostOrReordered` |
| `ChannelsAreUsedAsSpecified` | `Spec => Ch1!Spec /\ Ch2!Spec` |
| `StagesAreNotStranded` | `Spec => []NoStageStranded` |

The only assumption is `PipelineAssumption`: sizes above zero (asserted by the constructor of `Channel`), three different
threads, and that an empty hand is not a string.

`NothingLostOrReordered` is two facts. The first, what has been collected, is in `ch2`, in
the hand of `t1` and in `ch1` is what was sent, is the conjunct `Ordered` of `IInv`, inductive with
`Located` (who is where in which channel: `t1` calls `pop()` with empty hands only, so
that the string it holds is not overwritten) and `Typed`. Every step that moves a string moves it over the
boundary of two of the four sequences, which is one law of concatenation each (`StreamAppend` and
the lemmas after it). The second, that the last loop ends with everything, needs the order of the two
closings and has the invariant `Draining`: who has been told that a channel is
at its end has found it closed and empty, and its producer closed it after its own last item.

`ChannelsAreUsedAsSpecified` says that every step of the pipeline is for each
channel a step that `Channel` allows, or none. By it, what `ChannelProofs` proves of a
channel holds of both, without being proved again: `StagesAreNotStranded` instantiates that
module twice. That matters for `t1`, which is the only consumer of one channel and the
only producer of the other, and owes notifications to both.

### The ring buffer

`RingBufferProofs` proves, for any capacities, elements, number of objects and blocks:

| Theorem | Statement | Hypothesis |
|---|---|---|
| `TypeCorrect` | `Spec => []TypeOK` | |
| `OneOwnerAlways` | `Spec => []OneOwner` | |
| `WindowAlwaysLive` | `Spec => []WindowIsLive` | `ClearUpTo <= 1` |
| `PopAlwaysFindsAnElement` | `Spec => []PopFindsAnElement` | `ClearUpTo <= 1` |
| `ElementsAreASequence` | `Spec => ImplementsDeque` | `ClearUpTo <= 1` |

The hypothesis is the one under which the code is right: with two elements `clear()` leaves one behind
(section 5), and `ring_clear` finds `PopFindsAnElement` violated. Ownership does not need it.

`Sound` is the invariant of the first two: an object is not alive, or was
moved from, or fits its block (`first_` and `count_` in range), and every block has an owner
and not two. `Windows` says slot by slot which slots are in use, with
a case distinction instead of the remainder (`Wrap`, `WindowIsOfSlots`: an index wraps around at most once), so that a push, a
pop at either end and an overwriting push are arithmetic without `%`. The refinement
is proved step by step: `Reading` is the sequence in a block, and one lemma for each of append, drop
first, drop last and shift says what a change of `first_` and `count_` does to it. As
`AbstractDeque` states no fairness, this is the whole of `ImplementsDeque`.

### Counted strings

`ArcStringProofs` proves, for any number of threads, handles and control blocks, with and
without moves and self-assignment:

| Theorem | Statement |
|---|---|
| `TypeCorrect` | `Spec => []TypeOK` |
| `CountIsOfHandles` | `Spec => []CountsHandles` |
| `HandlesDoNotDangle` | `Spec => []NoDangling` |
| `LastHandleDeletes` | `Spec => []LastOneDeletes` |
| `NeverEmptyUnlessSelfAssigned` | `Spec => []NeverEmpty` if `~Moves` and `~SelfAssign` |

None of the invariants is inductive alone. A copy reads the pointer in one step and
counts in another; that nobody deletes the block in between is a fact about the
right-hand side, whose count protects both (`Borrowed`), and which no other thread
writes (`Apart`, what the callers' duty comes to while an operation lasts). `Deleting` says that
a block whose count is zero is in the hands of exactly one thread. `TypeOK` itself, which bounds the counts,
follows from `CountsHandles`. The last theorem is the comment of `error.hpp:75`: self-assignment,
which `arc_self` finds, is the only way to an empty message in the operations that `RuntimeError` has.

### The small parts

`UtilitiesProofs` proves the properties of `Utilities`, for all values of its constants that satisfy
`UtilitiesAssumption`:

| Theorem | Statement |
|---|---|
| `ArenaBlocksAreApart` | `Spec => []BlocksAreApart` |
| `FilesHaveOneOwner`, `LengthsAreOfTheirFiles` | `Spec => []OneFileOneOwner`, `Spec => []LengthIsOfThisFile` |
| `LibrariesAreLoadedWhileHeld` | `Spec => []LoadedWhileHeld` |
| `PatchesAreInPlace` | `Spec => []PatchInPlace` |
| `CopiesAreFaithful` | `Spec => []CopyIsFaithful` |
| `CursorsStayInBounds` | `Spec => CursorInBounds` |
| `NumbersAlwaysTravel` | `Spec => []NumbersTravel` |
| `CastsAreExact` | `Spec => []CastIsExact` |
| `EveryPointIsEncoded`, `CodesInterleave` | what `morton_3d` and `demorton_3d` do to any point; `Spec => []CodeInterleaves` |
| `BaseDirectoriesAreCreated` | `Spec => []CreatedBeforeReturn` |

`UtilitiesAssumption` says: alignments divide the size of the address space
(`ProperAlignments`; the code asks for powers of two); the values that stand for nothing differ from real
ones; libraries are held by finitely many objects; sizes of types are even, and a wider type has at
least twice the values (`ProperSizes`; both hold of powers of two); streams are bounded
and the copy buffer is not empty (`ProperBounds`; the code's has 4 MiB); a byte has more than one
value, and its powers up to the widest type are products, which is the meaning of `^` and spelled
out because the provers do not know it (`ProperBytes`); and in a file system
the parent of a directory is a directory (`ProperEnvironments`, which also types the environment). `ReuseMoved` and
`CloseOpen` are `FALSE` in `Utilities`, for the reasons of section 5.

* *Arena.* The argument is `PaddingAligns`: a place plus `-place` modulo the address space modulo the
  alignment is a multiple of the alignment. It rests on the law of division and on multiples
  being an alignment apart. The places come out in increasing order, which with `cur` as a bound is inductive.
* *num_cast.* `LessIs` says when a C++ comparison is not one of the numbers: a negative one is
  converted to a common type that is unsigned (`CommonIs`). Neither check does that. The upper
  one is made when the source type reaches higher than the target, and then it has no negative numbers
  or is wide enough for the common type to be signed; the lower one is made when the source is signed, and
  compares with the limit that the code has cast to a signed type (`UpperIsExact`, `LowerIsExact`).
* *Morton.* A step of spreading moves each one of a word by its own distance, or not, and the mask
  drops the place it did not take (`SpreadMoves`, `GatherMoves`). The tables `By16` to `By2` say
  where each one is in between. This covers all points, while TLC begins with those of one or two ones.
* *Files, libraries.* What a behaviour of `Utilities` that exercises the part does is a behaviour of
  the part (`FileBehaviours` and its counterpart), so that the theorems of the next section hold of it.
* *Patching and copying.* The invariants are `PatchGoes` and `CopyGoes`, about an operation in progress: which part of
  the work is done, that nothing else has changed since it began, and where the mark
  is. In `copy_from()`, what has been read and what has been written differ by what is in
  the buffer, and when an exception ends it, by how much of a write has not taken place.
  `WriteOutcome` is the one lemma about all the streams: the first k bytes are in place, and k is all
  of them unless it threw. The cursor's property needs only the types and `InBlock`, which is
  what `Shape` says of every step.
* *Numbers.* `LowDigit` and `HighDigit` say that the remainder modulo a power of the base has the low
  digits of a number, and zeros above; they need the law of sums of exponents (`PowerOfSum`). The provers
  cannot use a principle of induction, but they can take the least exponent that breaks the law
  (`LeastNumber`, from the library's theorem on well-founded relations). `LowBytes` is about the window of
  the object that is written, on either machine, and `OrderedIs` about `std::reverse`.
* *sys_dirs.* `CreatedBeforeReturn` needs `Rooted`, that with a directory all it is in exist, which a step of
  `create_directories()` preserves because it creates the missing components from the
  top. Directories are never removed in the model, and the code does not remove any.

### Files and libraries by themselves

`BinaryFileStreamProofs` and `DsoProofs` prove, for any number of objects, files
and libraries:

| Theorem | Statement | Assumptions |
|---|---|---|
| `FilesHaveOneOwner` | `Spec => []OneFileOneOwner` | `ProperValues` |
| `LengthsAreOfTheirFiles` | `Spec => []LengthIsOfThisFile` | `ProperValues`, `~ReuseMoved` |
| `LibrariesAreLoadedWhileHeld` | `Spec => []LoadedWhileHeld` | `ProperUse` |

`ProperValues` says that the values standing for no object, no pointer and no
open `FILE` are different from real ones. `ProperUse` says the same, that objects are finitely many,
and that `close()` is not called on an open library, which is the case in
which the property fails (section 5). The invariant behind the first two is
`Owned`, one owner in quantifiers; what the steps do to it is one of three
things, which `ClosingKeeps`, `MovingKeeps` and `OpeningKeeps` treat. The self-assignment is a
closing, not a moving. For libraries, `OneMore`, `OneLess` and `HandedOver` carry the
arithmetic of the count, and a move between two holders of the same library
is one holder less.

### What is only model-checked

* Liveness, and with it the fairness part of the refinements of the channel and
  the pool: it needs `ENABLED`, which the provers do not treat. `Terminates` of the pipeline is of this kind.
* The findings, which are counterexamples.

## 5. Findings

* **`ring_clear`**: `RingBuffer::clear()` decrements `count_` in the body of a loop that runs while
  `i < first_ + count_`: the bound moves towards the index. Of n elements it destroys
  (n + 1) / 2 and leaves `size()` at n / 2 over slots that were already destroyed;
  the next `pop()` destroys one of them again, and the destructor leaks the others.
  With at most one element it is right, which is why `ring` has `ClearUpTo = 1`.
* **`arc_self`**: copy assignment of an `ArcString` (and so of a `RuntimeError`) to
  itself releases the message before it reads it from the right-hand side, and
  then counts through a null pointer.
* **`dso_close`**: `Dso::close()` keeps the handle that it has given back. A second
  `close()`, the destructor or a move assignment gives it back again, so that the loader
  counts one owner too few; and `is_open()` stays true. `utilities` has
  `CloseOpen = FALSE` for that reason.
* **`xdg_state`**: without `XDG_STATE_HOME`, `xdg::state_dir()` is
  `~/.local/share`, which is the standard place of data files;
  the standard place of state data is `~/.local/state`.

Met on the way, without a statement in the repository that it contradicts: a
`BinaryFileStream` whose file was moved out keeps `file_size_`, and if it then
opens a file for writing, `get_length()` reports the size of the former one:
`LengthIsOfThisFile` is false with `ReuseMoved = TRUE`, and the run has it `FALSE`.

## 6. Plan

The modules of the inventory are written. Every safety invariant and action property of the
passing runs is proved, and so is the safety half of each refinement. What could follow:

1. Inductive arguments for liveness by hand: that each wake-up owed is a step nearer to it, as a
   decreasing measure over `IInv`, since the temporal rules are out of the provers' reach.
2. The pool's hazards without a property (nested `enqueue()` on a full queue, `wait_all()` from a
   task), as exact conditions under which a pool cannot get stuck.

## 7. What is not modelled

* `Channel::empty()` and `size()`, and the pool's queries, only read under the mutex.
* Memory order: the mutex orders everything in the channel and in the pool; the
  atomics of `ArcString` are taken as sequentially consistent, which their
  orders justify for the single counter they act on.
* The pool's destructor of captured values after `nb_working` has been
  decremented is visible as `WorkerDrop`, but no property is about it.
* `wait_all()` called from a task, and a bounded pool all of whose workers block
  in a nested `enqueue()`, wait for ever in the code too; the liveness runs leave
  them out, and the hazards list says so.
* Ring buffer arguments that refer into the buffer itself.
* Overflow of `pad + size` in the arena, lengths beyond `PTRDIFF_MAX` in a cursor:
  the code leaves them to the caller.
* Of stdio: the byte pushed back by `ungetc()` (only the position moves), the
  rule that a seek must separate reading from writing, and the sticky error flag.
  `getc()` and `ungetc()` at both ends are in the model.
* Copying between two cursors over the same memory.
* Signed numbers narrower than their type, which `write_num` and `read_num` exclude at
  compile time; floating-point numbers, whose bytes travel as those of integers do.
* The Windows and macOS lookups of `sys_dirs`, and `tmp_dir()`: each is a call
  of one system function. `SystemError` and `get_sym()` only read.
* The components marked "not modelled" above.

## 8. Running

    tlc -config channel_mpmc.cfg ChannelRefinement.tla   # each run: its cfg and module
    tlc -config utilities.cfg MCUtilities.tla
    tlapm ChannelProofs.tla
    tlapm ChannelPipelineProofs.tla
    tlapm ThreadPoolProofs.tla
    tlapm RingBufferProofs.tla
    tlapm ArcStringProofs.tla
    tlapm BinaryFileStreamProofs.tla
    tlapm DsoProofs.tla
    tlapm UtilitiesProofs.tla                            # the longest, some minutes
