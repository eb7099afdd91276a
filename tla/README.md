# TLA+ specifications of the TensorFlow runtime core

This directory holds models of the concurrent core of the TensorFlow runtime
in this repository, the TLC runs that check them on small instances and TLAPS
proofs of the properties that matter most. The repository is a copy of the
TensorFlow source (5.4 million lines) with reading notes; the models are about
`tensorflow/core`, where a step of a graph is executed, its memory and queues
are kept, and its parts on other machines are started.

`PROJECT.json` lists the components, the runs, the source lines each definition
stands for, the mutants that show each property can fail, the findings, the
hazards and the theorems.

## 1. The system

A client asks a session to run a graph. The session places and partitions the
graph and starts one **executor** per partition, on this machine or through the
**worker** of another one. The executor asks a **propagator** which nodes are
ready. Executors exchange tensors through a **rendezvous**; kernels wait in
**queues** and for **memory**; a **cancellation manager** reaches everything
that waits when the step has to stop. Input pipelines may be spread over many
machines by the **tf.data service**.

| Component | Source (`tensorflow/core/...`) | State | Operations | What is hard |
|---|---|---|---|---|
| CancellationManager | `framework/cancellation.{h,cc}` | `is_cancelling_`, `is_cancelled_`, the callbacks by token, the notification, an intrusive list of children | constructors, `RegisterCallback`, `DeregisterCallback`, `TryDeregisterCallback`, `StartCancel`, destructor | callbacks and children are processed outside the mutex, while everything else goes on |
| LocalRendezvous | `framework/local_rendezvous.{h,cc}`, `framework/rendezvous.{h,cc}` | a queue of messages or of requests per key, the abort status, a reference count of the owner | `Send`, `RecvAsync`, `Recv` (with timeout), `StartAbort`, cancel callback, destructor | one request, four parties that may complete it, callbacks outside the mutex, four ways to drop a reference |
| Executor | `common_runtime/executor.cc`, `simple_propagator_state.{h,cc}`, `immutable_executor_state.{h,cc}` | pending counts, input entries, `num_outstanding_ops_`, `status_`, deferred ops | `RunAsync`, `Process`, `ProcessAsync`, `PropagateOutputs`, `NodeDone`, `ScheduleReady`, `ScheduleFinish`, `Finish` | lock-free counting by many threads, the last of which deletes the state; errors race with cancellation |
| PropagatorState | `common_runtime/propagator_state.{h,cc}`, `pending_counts.h` | frames, iterations in a circular buffer, pending and dead counts, loop invariants, deferred iterations, dead exits | `PropagateOutputs` for each kind of node, creation, cleanup and deletion of frames and iterations | reference counting of frames and iterations under shared and exclusive locks; dead values in merges |
| Queues | `kernels/queue_base.{h,cc}`, `fifo_queue.cc` | elements, attempts, `closed_` | enqueue, dequeue (many, up to), close, cancel, flush | attempts completed by other threads, partly filled batches, close against cancel |
| Allocators | `common_runtime/bfc_allocator.{h,cc}`, `allocator_retry.cc` | regions, chunks, bins, timestamps | allocate, free, extend, collect regions, retry | splitting and coalescing, failing sub-allocator, bytes freed but still in use by a device, waiting for memory |
| Distributed runtime | `distributed_runtime/worker.cc`, `partial_run_mgr.cc`, `recent_request_ids.cc`, `call_options.cc` | partial runs, tracked request ids, cancel callback of a call | `RunGraph`, partial runs, cancel, cleanup | repeated and cancelled calls, executor and call end in either order |
| tf.data service | `data/service/{dispatcher_impl,dispatcher_state,journal,worker_impl,split_provider}.cc` | datasets, jobs, clients, tasks, split providers, the journal | registration, job creation, heartbeats, splits, garbage collection, restart | crash between any two writes, stale answers |
| DirectSession | `common_runtime/direct_session.cc` | run state, partial runs | `Run`, `PRun`, timeouts | composition of the parts above |
| Collectives | `common_runtime/buf_rendezvous.cc`, `base_collective_executor.cc` | hooks by key | `ProvideBuf`, `ConsumeBuf`, cancel | producer, consumer and cancellation |
| Kernels, graph rewriting, compilers, Lite, language bindings, platform | `kernels`, `grappler`, `../compiler`, `../lite`, `../python`, ... | - | - | numerical or sequential code, I/O |

**Interaction.** A failing kernel makes the executor abort the rendezvous and
cancel the step's manager (`executor.cc:1125-1147`). `RecvAsync` registers a
callback in the manager of its request (`local_rendezvous.cc:205`), and so does
each blocked queue operation (`fifo_queue.cc:58`), so that
a cancelled step does not wait. The done callback of a `Recv` is the done
callback of an asynchronous kernel, which is a thread of the executor. A worker
starts executors with a manager of the step, and the cancellation of the call
cancels that manager. `BFCAllocator` waits through `AllocatorRetry`.

**Correctness of each part.** Cancellation: a callback runs at most once, never
after a successful deregistration, nothing is freed under a running
`StartCancel`, children are always reached, every wait ends. Rendezvous: a FIFO
channel per key, each request completed exactly once, no leak and no use after
free. Executor: every node after its dependencies, one `Finish`, nobody left
when the state is deleted, the right status, and the step ends. Propagator: the
nodes run as often as the program says, nothing is freed in use and nothing is
left. Queues: a FIFO channel that can be closed, no lost element, callback or
wake-up. Allocator: granted blocks never overlap, the structure stays
consistent, an allocation fails only when it must. Worker: each request runs
once and is answered once, after the executor. Data service: a restart finds
what there was.

## 2. Modules

    Cancellation      <--- MCCancellation                            (TLC)
                      <--- CancellationProofs
                               <--- CancellationTreeProofs           (TLAPS)
    RendezvousChannel <== LocalRendezvous <--- MCLocalRendezvous     (TLC)
                                          <--- RendezvousProofs
                               <--- RendezvousRefinement             (TLAPS)
    Executor          <--- MCExecutor                                (TLC)
                      <--- ExecutorProofs                            (TLAPS)
    PropagatorState   <--- MCPropagatorState                         (TLC)
    QueueChannel      <== FIFOQueue       <--- MCFIFOQueue           (TLC)
                                          <--- FIFOQueueProofs       (TLAPS)
    MemoryAllocator   <== BFCAllocator    <--- MCBFCAllocator        (TLC)
    AllocatorRetry    <--- MCAllocatorRetry                          (TLC)
    RecentRequestIds  <--- WorkerRunGraph <--- MCWorkerRunGraph      (TLC)
                                          <--- WorkerRunGraphProofs  (TLAPS)
    DispatcherState   <--- DataService    <--- MCDataService         (TLC)
                                          <--- DataServiceProofs     (TLAPS)

(`<---` is EXTENDS, `<==` is "implements".) In all modules one action is one
critical section or one atomic operation, with the thread-local code around it.
A definition whose name has the form `Op_Change` is a mutant of `Op`: a
plausible bug, not used by the specification.

### Cancellation

Variables are the fields of `CancellationManager`, indexed by manager; `call`
is the local state of the `StartCancel` that got past its first section, `cb`
and `dereg` record what became of each token. Threads are not named: at most
one `StartCancel` per manager gets past its test, and a deregistration is made
once per token, so the records stand for any number of threads.

| Action | Code |
|---|---|
| `New`, `NewChild` (with `RegisterChild`), `EndConstructor` | constructors, `cancellation.cc:28-36, 124-145`: the child is linked when `RegisterChild` releases the parent's lock, and only then does the constructor store its result in `is_cancelled_`, which has no value before |
| `get_cancellation_token`, `RegisterCallback` | `cancellation.h:71`, `cancellation.cc:84-96` |
| `DeregisterCallback`, `DeregisterWakes`, `TryDeregisterCallback` | `cancellation.cc:98-122, 183-193` |
| `StartCancel`, `BeginCallback`, `EndCallback`, `CallbacksDone`, `CancelChild`, `ChildReturns`, `BecomeCancelled`, `Notify` | `StartCancel`, `cancellation.cc:38-82` |
| `Destroy` (with `Unlink`), `DeregisterChildWakes`, `CancelSelf`, `DestructorReturns` | destructor and `DeregisterChild`, `cancellation.cc:147-202` |

The guards also state what the header asks of clients: a token is deregistered
once, parents outlive children, a manager is destroyed when no client is inside
it, a callback does not call its own manager. `RegisterCancellationCallback`
(`cancellation.cc:209`) is a composition of three of these operations.

### LocalRendezvous and RendezvousChannel

`table` is `table_` with a sequence per key; a message or request is its own
item. `req[r]` is the record of one `RecvAsync` call: arguments, how far its
completion has come, its result, the calls of `done`, and the synchronous
caller if there is one. `cb[r]` is the progress of its cancel callback and
`rc` the reference count of the owner. The cancellation manager is used by its
contract (module `Cancellation`). Key parsing and hashing, tensors, device
contexts and metrics are abstracted; an empty queue left in the table by the
cancel callback is the same as no queue.

`RendezvousChannel` says what users are promised (`rendezvous.h:36-124`): per
key the messages are handed out in order and once, a request is settled once,
an error has a cause. `LocalRendezvous` maps its requests to the states idle,
waiting, settled and failed, and implements it.

### Executor

The model is one step of a graph, from `RunAsync` to the done callback, with
`SimplePropagatorState`. A thread is a closure run by the runner
(`<<"process", n>>`, named by the node it starts with) or the done callback of
an asynchronous kernel (`<<"done", n>>`); its `Frame` holds the locals of
`Process`: `inline_ready`, `ready`, `s`, `completed`.

| Action | Code (`executor.cc` unless named) |
|---|---|
| `RunAsync`, `RunTask` | 461-487, 437-459 |
| `ProcessTrivial`, `PrepareInputsFails`, `ProcessSync`, `ProcessAsync`, `AsyncDone` | one iteration of the loop of `Process`, 748-855 |
| `PropagateOutputs` | `simple_propagator_state.cc:56-104`: write of the input and `fetch_sub` are two steps per edge |
| `NodeDone`, `ScheduleReady` | 1075-1100, 1153-1215 |
| `NodeFailed`, `StartAbort`, `StartCancel`, `ErrorDone` | the error branch of `NodeDone`, 1102-1151 |
| `ProcessReturns` (with `ScheduleFinish`), `DeferredDone` | 858, 1217-1235, 723-736 |
| `FinishBegins`, `RefreshStatus`, `FinishAborts`, `SyncDone`, `DeleteThis`, `CallDone` | `Finish`, 1237-1350 |
| `OtherAborts`, `OtherCancels`, `DeviceFails` | the environment |

Whether a kernel marked expensive counts as expensive depends on measured cost
(`KernelStats`), so it is a free choice at each `ScheduleReady`. `s` is kept
from one node of the inline queue to the next exactly as in the code. Tracing,
statistics, tensor contents and reference edges are left out.

### PropagatorState

The propagator for graphs with control flow. A frame is named by the path it is
hashed from, an iteration by its number; `frames` holds the fields of
`FrameState` and `IterationState`. A task is one call of `PropagateOutputs`; its
`pc` tells which critical section comes next, and the nodes it made ready are
its own until it returns. Tensors are there or dead, and the outcome of each
predicate is fixed per run by the iteration at which it becomes false.

| Action | Code (`propagator_state.cc`) |
|---|---|
| `PropagateFast`, `Cleanup` | shared lock, then the exclusive one if the iteration is done, 573-582, 764-768 |
| `PropagateSlow` | `ActivateNodesSlowPath` under the exclusive lock, 386-562, 564-572 |
| `FindFrame`, `CreateFrame`, `Enter`, `Decrement` | an Enter: 229-286, 98-113 |
| `LiveExit`, `DeadExit` | an Exit: 114-133 |
| `NextIteration` | 134-165, with `IncrementIteration` 597-677 |
| `DeleteFrame`, `CleanupParent` | 288-363, 365-384, up the frames as long as they are done |

The functions of the code that call each other under one lock
(`AdjustOutstandingOpsLocked`, `CleanupIterations`, `IncrementIteration`) are
recursive operators on a record of the frames and the ready nodes. The graphs
of `MCPropagatorState` carry in `runs` how often the program they stand for runs
each node, which is what the result is compared with.

### FIFOQueue and QueueChannel

`op[o]` is an operation with its `Attempt`, `thr[t]` a thread inside a call or
inside a cancel callback, `cm` the cancellation managers by their contract.
`TryEnqueue`, `TryDequeue`, `Close` and `CloseAndCancel` are the calls
(`fifo_queue.cc:51-356`, `queue_base.cc:220-262`); `Lock`, `RunAttempt`,
`SkipCancelled`, `NoAttempt` are `FlushUnlocked` and `TryAttemptLocked` (with
the run callback of each kind of attempt), `CallCallback` and `CleanUp` what
`FlushUnlocked` does after it released `mu_`; `Cancel` is the cancel callback.
A copy or an allocation that fails is part of the call (`fail`): the allocation
of the batch, the copy of an element back to the queue, and the copy of an
element that was just popped into the batch (`fifo_queue.cc:332-334`, reached
with the types that `CopyElementToSlice` does not handle, `batch_util.cc:172-189`,
and then by the first element already), which loses it. `NextStep` gives the
address of a manager to a later step.

`QueueChannel` is what `queue_interface.h` promises: elements leave in order and
once, a consumer gets its elements at once, nothing comes in after the close.
What the code adds is `Lose`: a consumer that is cancelled, or cannot copy an
element it has popped, drops the oldest elements.

### BFCAllocator, MemoryAllocator and AllocatorRetry

`heap` holds what `lock_` guards: `chunks_` with their links, the bins, the
regions and their handles, the free list, the counters, the timestamped list.
`AllocateRawInternal`, `Extend`, `SubAlloc`, `Backpedal` and `GiveUp` are one
allocation, which stops at each call of the sub-allocator; `DeallocateRaw`,
`SetSafeFrontier` and `QueueKernel` (the shared counter) complete the interface.
Sizes are bytes with the real rounding and bin numbers. `MemoryAllocator` is the
contract of `framework/allocator.h`.

`AllocatorRetry` is the loop around it, with the memory as a number of units:
an attempt, the check of the deadline, the wait and its timeout or notification
are separate steps, since the two locks are.

### RecentRequestIds and WorkerRunGraph

`RecentRequestIds` is the filter with its set and circular buffer.
`WorkerRunGraph` adds the handlers of `worker.cc`: `Track`, `Reject`, `RunGraph`,
`RunGraphDone`, `RunGraphAnswer` for a whole step (161-255), `FindOrCreate`,
`SetCancelCallback`, `ExecuteAsync`, `ExecuteFails`, `SendInputs`,
`RecvOutputsAsync`, `Received` for a part (258-346), `PartialRunDone`, `Finish`,
`ExecutorDone`, `ExecutorFinish`, `Erase` for `partial_run_mgr.cc:40-89`, `Cancel`
and `AbortStep` for the cancellation of a call. A cancellation that comes before
`SetCancelCallback` has nothing to run. The transport may deliver a request twice.

Managers and executors are named by the request that made them, runs by `Narrow`
of the step id: `PartialRunMgr` takes an `int` (`partial_run_mgr.h:53`) where the
ids have 64 random bits, so two partial runs may share one entry. The master does
not order the parts of a run either (`master_session.cc:1712-1832` has no guard
against overlapping calls on one handle): a part is sent at any time, except for
the steps in `Serial`, whose client waits for each answer before the next call.
The properties are about `Regular` steps, which are serial and alone in their
`int`; any others run beside them. `CleanupGraph` takes the rendezvous out of
its table, and a call that looks for it later gets a new one; `gen` tells the two
apart.

### DispatcherState and DataService

`DispatcherState` has one operator per update of `dispatcher_state.cc`, and
`Checks` for the DCHECKs they start with. In `DataService` a handler of the
dispatcher holds `mu_` to its end: it checks and lists its updates, `Apply`
writes the next one to the journal and applies it, a `Respond...` action ends it.
`Crash` may come before each of these steps, and `Start` replays the journal and
restores the split providers. Workers send heartbeats with the tasks they have
(`SendHeartbeat`), act on the answer (`RespondHeartbeat`), process splits and
report finished tasks.

`journal` is the state that a replay of the journal gives. `ApplyFails` is a write
that fails: `WriteRecord` itself, or `Flush` or `Sync` after it (`journal.cc:72-86`),
and then the record stays in the file, or in its buffer, and is there at the next
`Start` or not. The fault "kept" is a record that stays although `state_` never
had it. The next handler uses the same ids and writes them a second time:
`readable` says that a replay still passes the DCHECKs of `dispatcher_state.cc`
(`Replays`). A journal that does not ends the program at `Start`. `acked`, a
history variable, has only the records that were applied to `state_`, since the
start, on top of what that start read.

`RegisterDatasetRpc` puts the definition into the store before the journal, and
the store refuses one that is there (`dataset_store.cc:40-42`), so a dataset whose
registration failed in between cannot be registered while its id is the next one.
`WithProvider` is `MakeSplitProviders`, which appends: the provider that a failed
attempt to create the job has left stays the first. The job then has two, and the
iterator of a dataset with one source refuses to start (`split_utils.cc:120-128`);
the model lets it ask for the splits of the first, which only adds behaviours. A
provider is its position; its dataset is not modelled.

## 3. What TLC checks

| Run | Instance | What holds |
|---|---|---|
| `cancellation_safety` | a tree of three managers, one token each | no use after free, the child list, the promise of deregistration, no callback lost, children reached, callbacks final |
| `cancellation_liveness` | parent and child, one token each | `CallsReturn` |
| `cancellation_constructor` | parent and child, no tokens | violated: finding 1 |
| `rendezvous` | one key, two messages, two timed requests, with and without manager | the table, one `done` per request, the reference count, `RendezvousChannel`, `RequestsEnd` |
| `executor` | three graphs of up to four nodes, every combination of arguments | dependencies, the count of outstanding nodes, no use after `delete this`, the status, `StepEnds`; deadlock is checked |
| `propagator` | a loop in a conditional and two nested loops, 0 to 2 iterations | nothing freed in use, the counters, `RunsTheProgram`; deadlock is checked |
| `queue` | capacity 1; a producer of one or two, a consumer of up to three, a close of either kind; both steps cancelled | one `done`, no missed wake-up, no element lost, all or nothing, `QueueChannel` |
| `bfc` | 5 units of 256 bytes; regions that grow, are collected, or carry timestamps | the heap, the counters, timestamps, `FailsOnlyWhenFull`, `MemoryAllocator`; deadlock is checked |
| `retry` | three threads that need 1, 2 and 1 of 2 units, two rounds | `AllocateReturns`; deadlock is checked |
| `worker` | one `RunGraph`, delivered up to twice, one partial run of two parts, two tracked ids | last part after the executor, no use after free, at most once, the filter exact, `RequestsEnd` |
| `data_service` | two workers, one job of one client, two repetitions of one split, one crash, one failed write that keeps its record or not | `Recoverable`, `SplitsOnce`, `TasksCover`, `NoTaskDropped` |
| `dispatcher_gc` | the same with two clients and without failed writes | violated: finding 2 |

**Bounds.** Three managers give a chain and two siblings, so that a list has a
head and a tail and `StartCancel` recurses twice; further tokens of one manager
do not interact. Two requests on one key make a queue whose head and tail are
removed in any order while messages arrive. The graphs of the executor are the
smallest with a node that two threads may make ready, with data and control
inputs, with several expensive nodes ready at once, with asynchronous kernels at
and after a root, and with no node. The loops have more iterations than may run
in parallel, so that iterations are deferred and the circular buffer wraps; the
conditional makes whole loops dead. A queue of one with batches of two and three
makes every batch block, be filled in parts and be put back. Five units with
three request sizes make chunks split and merge on both sides and regions extend
and be collected; `SizeBits` is 14 so that a subtraction that goes below zero
shows. Two tracked ids for three requests make the filter forget; steps that
share an `int` or overlap their parts are beside the regular ones in the theorems
only. One job for two workers covers both orders of arrival; a crash and a
failed write can come together, in either order. One client is enough for a job
to be found by its name, since the write that acquires it may fail; a second one
triples the states. Every bound is a CONSTANT with a name (`MaxCount`,
`MaxRounds`, `MaxJobs`, `MaxClients`, `MaxCrashes`, `MaxWriteFailures`, ...).
Symmetry is used for safety runs only.

**Deadlock** is checked where the system must not stop: the executor, the
propagator, the allocators. The others are passive objects: when their clients
stop, nothing is left to do.

**Fairness.** Cancellation and rendezvous: weak fairness of the threads inside
a call, nothing for clients; callbacks are assumed to return. Executor: the
runner runs what it is given, threads go on, deferred work and `Device::Sync`
come back. An asynchronous kernel may wait for ever, except in a step that was
aborted or cancelled: kernels that wait do so in the rendezvous or register with
the cancellation manager, and `RequestsEnd` and `CallsReturn` are what that
relies on. Retry: threads run and time passes, but nobody has to return memory.
Worker: its threads and the delayed closure of `AbortStep` run, and an executor
ends when it has its inputs or is stopped by the abort of its rendezvous or by
its manager; nobody has to cancel. `queue` states the absence of
lost wake-ups as an invariant (`NoMissedWakeup`) and needs no fairness.

## 4. What is proved

`CancellationProofs` proves, for every set of managers and every number of
tokens and roots, from `NullAssumption` and `MaxTokenAssumption`:

* `TypeCorrect`: `Spec => []TypeOK`;
* `DeregisterCorrect`: `Spec => []DeregisterContract`;
* `CallbacksFinal`: `Spec => CallbackFinal`.

`DeregisterContract` is not inductive: that a blocked `DeregisterCallback` may
return `false` depends on the callback having run before the notification,
which depends on where `StartCancel` is. The invariant is
`TypeOK /\ LinkInv /\ CallbackInv`:

* `LinkInv`: what is linked in a child list has been constructed, so that
  `CancelChild` works on initialized managers;
* `ManagerInv`: how `is_cancelling`, `is_cancelled`, `notified` and the phase of
  the `StartCancel` call belong together (for example `is_cancelling` holds
  exactly while the call runs callbacks or cancels children, and a manager that
  still holds callbacks has not been stopped);
* `TokenInv`: for each fate of a token, where it is (registered: in `callbacks`
  or in the call's `to_run`; running: the call's `running`), and for each answer
  of a deregistration, the fate it implies.

Each action gets one step; frame lemmas (`FrameInv`, `LinkFrame`) take care of
the managers and tokens that an action leaves alone, and `EnterInv` of
`StartCancel`'s first section, which several actions share.

`CancellationTreeProofs` goes on to the tree of managers, from the same
assumptions and `TypeOK`, `LinkInv` and `CallbackInv` above:

* `ChildListsIntact`: `Spec => []ChildListOK`;
* `MemorySafe`: `Spec => []NoUseAfterFree`;
* `CallbacksAllSettled`: `Spec => []NoCallbackLost`;
* `CancelReaches`: `Spec => []CancelReachesChildren`, which excepts the children
  that the parent's `StartCancel` reached while they were in their constructor
  (`late`); of these finding 1 is true.

None of the four is inductive. `TreeInv` is `ListInv /\ CallTreeInv`:

* `ListInv` describes the intrusive list link by link (`HeadInv`, `NextInv`,
  `PrevInv`), says that every linked child is reached from the head (`ReachInv`:
  the local conditions also hold of a cycle beside the list), that only live
  children of parents that are not stopped are linked (`LiveInv`), and that a
  parent outlives its children (`ParentInv`);
* `CallTreeInv` says who waits for whom: an active `StartCancel` is that of a
  client on a live manager, of a destructor that waits for it, or of the parent,
  which is in that very child (`CallerInv`); the children a `StartCancel` has
  still to cancel are unlinked and at most waiting in their destructor
  (`ChildrenInv`), which is the wait that makes `NoUseAfterFree` true. A live child
  that is not stopped is linked, or its parent has still to cancel it, or its
  parent has reached it inside its constructor (`EndInv`).

`ChildListIs` (a walk from the head meets the linked children and no others)
lets the list be treated as a set; `RegisterList` and `UnlinkList` show that the
link changes of `RegisterChild` and `DeregisterChild` keep the list.

`RendezvousProofs` proves for any number of keys, messages, requests and
managers, from `DisjointAssumption` (messages, requests and the names of the
errors are different things) and `KeysAssumption` (there is a key):

* `QueuesOfOneKind`: `Spec => []QueueOK`;
* `DoneAtMostOnce`: `Spec => []DoneOnce`;
* `ReferencesCounted`: `Spec => []RefCounted`.

They follow from `RendezvousInvariant`, `TypeOK` together with: `TableOK`, the
form of the queues and that a request is in one place of one queue exactly while
it waits; `RequestInv`, which states of a request, its cancel callback and its
manager go together; `CountInv`, that `rc` is the number of requests and
callbacks that still hold a reference plus the owner's (`RefCounted` itself says
nothing while a reference is held, so it is not inductive); and `MessagesInv`,
that the queue of a key holds exactly the messages sent and not received, in
order.

`RendezvousRefinement` proves `RendezvousImplementsChannel`:
`Spec => ImplementsChannel`, for any number of managers. Every action is shown to
be a step of `RendezvousChannel` or a stutter; `MessagesInv` gives the FIFO order.
The channel states what the code does with errors (`Cause`): a request fails by the
abort, by the deletion of the rendezvous, or by the cancellation of a manager that
has a request on the same key, which need not be its own, since a cancel callback
looks for its token and tokens are counted per manager (section 5). A request
without a manager fails by the first two only. With one manager on a key this is
the cancellation of the request itself.

`ExecutorProofs` proves for any finite set of nodes, any graphs over it without a
cycle (`GraphsAssumption`; `GraphConstructor` refuses cycles, and the propagator
modelled here is the one for graphs without control flow), any `Executor::Args`
(`ArgsAssumption`), and any order of the threads, outcome of the kernels,
deferred work, cancellation and failure of the device:

* `ExecutorTypes`: `Spec => []TypeOK`;
* `ExecutorAccounting`: `Spec => []Accounting`;
* `ExecutorMemorySafe`: `Spec => []NoUseAfterDelete`;
* `ExecutorDependenciesFirst`: `Spec => []DependenciesFirst`;
* `ExecutorOutcomeCorrect`: `Spec => []OutcomeCorrect`.

They follow from `ExecutorInvariant`. No one of them is inductive, and they need
each other: that the count is right depends on no node being in two places, that
nobody decrements a finished step on the count, and that a step with status OK
has processed everything on all of it. `ExecutorInv` says that there is a set `D`
of edges, those whose target has counted them, with which

* `FramesInv`: the locals of each thread fit together (its lists have no
  repetition and share no node, a thread between two edges of a node has an edge
  to go on with, the thread of a done callback has no list);
* `PlaceInv`: a node is in one closure of the pool or with one thread, once;
* `NodeInv`: the pending count of a node is the number of its inputs that are not
  in `D`; a node that waits anywhere is ready (unprocessed, all inputs in `D`), and
  while the step runs every ready node is held somewhere;
* `EdgeInv`: a source of an edge in `D` was processed and did not fail; a thread
  at edge `i` of a node has counted exactly the edges before `i`; an input that
  was counted and not yet consumed has its value. Written before counted is what
  makes `DependenciesFirst` true;
* `Accounting`, `StatusInv` (an error is in `status_` or with a busy thread that
  will put it there), `FinishInv` (whoever is to call `Finish` is the only one: a
  thread that saw the count drop to zero, or the last deferred op) and
  `ReportInv` (the status on its way through `Finish`).

`D` is not a variable of the program; the only action that changes it is the
decrement of a pending count (`DecrementKeeps`). `FixedKeeps`, `QuietKeeps` and
`MoveKeeps` do the actions that leave the nodes where they are, that work on one
thread's node, and that move nodes between pool and threads. That OK means
"everything was processed" (`AllProcessed`) is the one place where acyclicity is
used beyond the roots: of the unprocessed nodes one has no unprocessed input, so
it would be ready, held, and counted.

`WorkerRunGraphProofs` proves, first of the filter alone, for every number of
tracked ids, steps and parts (`TrackedAssumption`, `RequestIdAssumption`,
`IdsAssumption`: request ids are positive and those of the requests are among
them, `StepsAssumption`, `PartsAssumption`):

* `FilterExact`: `RecentSpec => []TracksRecent`;
* `UsesFilter`: `Spec => RecentSpec` of `WorkerRunGraph`, a refinement: the worker
  touches the filter by `TrackUnique` only;
* `WorkerTracksRecent`: `Spec => []TracksRecent`, from the two.

`TracksRecent` is not inductive: which id an insertion erases depends on the
buffer. `RecentInv` adds `BufferInOrder`: the slot written `a` insertions ago
holds the id whose stamp is `count - a`, and every id of the set is in the slot
of its age. `AgeGrows` and `SlotStays` say how ages and slots move when
`next_index_` wraps, `Survivor` that an id that is not erased was not the oldest.

It then proves of the worker, for any number of steps and parts and any range of
an `int` (`IntAssumption`), of every `Regular` step beside any others, also ones
that share a run or overlap their parts:

* `WorkerAtMostOnce`: `Spec => []AtMostOnce`;
* `WorkerLastAfterExecutor`: `Spec => []LastAfterExecutor`;
* `WorkerMemorySafe`: `Spec => []NoUseAfterFree`.

They follow from `WorkerInvariant`. `OwnerInv` is about all steps: a callback or a
manager that a run, an executor or a call points to was made for a step with the
same `int`, which is why the others cannot touch a regular one. `WorkerInv` says of
every regular step: copies of a request are refused (`CopyInv`, from `TracksRecent`: a copy arrives while its id
is among the tracked ones, which is the transport's part, `Repeated`), parts
are sent in order (`OrderInv`), in which program points a request can be and
that it is answered exactly in the last (`PlaceInv`), that nothing has started
before the first part got that far and that the partial run exists until the
last part is answered (`BeginInv`), that its manager and executors are those of
its first part (`MadeInv`), and how executor and last part meet (`MeetInv`): the callback is stored by the one that comes first and taken by the
one that comes second, and the manager is freed only when the last part has been
answered, after which no call of the step has a cancel callback.

`FIFOQueueProofs` proves for any number of operations, managers and components,
any capacity and whatever fails in the operations (`QueueAssumption`: single
operations ask for one element, a Close and nothing else has no manager, the
names differ):

* `QueueDoneOnce`: `Spec => []DoneOnce`;
* `QueueNoMissedWakeup`: `Spec => []NoMissedWakeup`;
* `QueueAllOrNothing`: `Spec => []AllOrNothing`;
* `QueueElementsConserved`: `Spec => []ElementsConserved`;
* `QueueImplementsChannel`: `Spec => ImplementsChannel`, when every collected
  element can be restored (`Restorable`).

The first three follow from `QueueInvariant`: `TypeOK` and `QueueInv`, of three parts, each
of which needs the ones before it.

* `CallbackInv`: who owns a done callback. An operation is in a deque of attempts
  at most once; while it is live there it has its callback, has not been called,
  and what it has collected or put together with what it still asks for is what
  it was called with (`Waiting`); a callback that was moved is in the list of one
  thread, once, and its operation is over (`EntryOK`). `DoneOnce` alone says
  nothing of the callbacks that are still to be called.
* `FlushInv`: while nobody holds `mu_`, either a thread is on its way to a flush
  or the front of both deques cannot move; and in the second half of a round in
  which nothing changed the front of the enqueue attempts still cannot move,
  which is why the loop of `FlushUnlocked` may stop there.
* `LateInv`: until the queue is closed, a Close that was called waits as a live
  attempt in front of every operation that was called after it. It depends on
  a Close having no manager: a Close that could be cancelled would let the
  later enqueues through.

The run callbacks are described once, by `RunCallbackOK` (what a run does to the
attempt, whatever its kind: it completes with a callback, or leaves a waiting
attempt), so that the proof about `TryAttemptLocked` has no case per kind.

`QueueElementsConserved` rests on `QueueElementInvariant`, which is inductive
together with `QueueInv`. `ElementInv` says that the queue and what the consumers
hold are `Conserved`: no element is in two places, and the elements that are in
one are those that the producers have put (`PutOf`). Cardinalities come in only at
the end (`PlacesAre`). A run callback is one of two things (`RunConserves`): it
puts the next elements of its operation at the end of the queue (`Puts`), or it
moves elements between the queue and its own batch (`Moves`), and for that the
batch followed by the queue is one `Line`, which collecting (`LineCollect`) and
giving back (`LineRestore`) both leave as it is. The invariant also needs that a
live consumer has no error (`LiveOK`), since a consumer with an error no longer
holds what it had collected; the one that fails to copy a popped element does,
and `Taken` counts that element with its batch: nobody else will see it, and it is
not seen twice. `ElementsConserved` has one exception, `Damages`: a
batch gave back an element it could not copy (DATA_LOSS, the code then pushes an
empty tensor), or an EnqueueMany with several components failed to copy a slice
after it had pushed some of the components (`fifo_queue.cc:102-153`): from then
on the queues of the components differ in length and no longer hold elements.

`QueueImplementsChannel` maps every step to a step of `QueueChannel` or a stutter
(`NextFollows`). The channel's elements are the batch of the live DequeueMany or
DequeueUpTo at the front followed by the queue of the first component, the `Line`
again: collecting and giving back are stutters, completing takes the batch off
its front, a batch that is cancelled or cannot be filled is lost from its front
(for the latter with the element whose copy failed), and a producer adds at its
end (`Produces`, the slice that an EnqueueMany copied into the first component
only included). The mapping looks at the front attempt alone, which needs the
invariant `ChannelInv`: no attempt behind the front has collected anything, and
there are only elements in the line. `Restorable` is a hypothesis because the
code needs it: an element that cannot be restored is replaced by an empty tensor
(`fifo_queue.cc:272-282`), which nobody enqueued. A torn EnqueueMany is covered.
The line is about the first component; with a torn slice the others are shorter.

`DataServiceProofs` proves for any number of datasets, jobs, clients and tasks,
any finite set of workers (`WorkersAssumption`) and any crashes, failed writes
and collections of jobs, whatever the bounds of the model are (`BoundsAssumption`):

* `DataRecoverable`: `Spec => []Recoverable`;
* `DataNoTaskDropped`: `Spec => []NoTaskDropped`;
* `DataSplitsOnce`: `Spec => []SplitsOnce`;
* `DataTasksCover`: `Spec => []TasksCover`.

The first two follow from `ServiceInvariant`. `Recoverable` is far from inductive: a
handler computes all its updates from the state it starts in and applies them one
by one, so that the checks of the later ones must still hold when those before
them have been applied and, because only `state_` is garbage collected, in a
`state_` that is not what was recorded. `ServiceInv` says:

* `StateInv`, of `state_` and of `acked`: available ids are above the used
  ones, a job counts its clients, and tasks are indexed by job and worker;
* `Agree`: the two differ in what garbage collection changes only, so that an
  update that passes its checks in one passes them in the other;
* `TodoInv`: what each remaining update needs is there or is what the first one
  makes, ids that were handed out at the start are still available, and the
  task ids ascend (`UpdateOK`). Only the first update may register a worker or
  create a job;
* `HandlerInv`, `SplitInv`, `StoreInv`: what the response of each handler relies
  on, that a split that is being given is of the current repetition, and that
  a dataset is stored before it is journalled;
* `WorkerOK`: a worker has tasks that are recorded for its address and is
  never ahead of the repetition of a job. That is what makes a request for a
  later repetition impossible after a restart.

`JournalInv` is about the journal itself: it is `acked` as long as no failed write
left its record; with such a record it either cannot be replayed or covers `acked`
(`Covers`: it has its datasets, workers, jobs and tasks, no job is behind and no
finished task is unfinished), and then is what the next start works with. That an
update which passes its checks keeps `Covers`, whether `state_` has it too
(`CoversBoth`) or not (`CoversMore`), is all that the rest needs of kept records.

What `Apply` does to the state is described once for all updates, by `Effect`;
the lemmas about the handlers use that and never the definition of an update.

`SplitsOnce` and `TasksCover` need an invariant each on top of `ServiceInv`.

`SplitsInvariant`: `SplitsOnce` speaks of the list of splits that were given, but
whether the next one is new depends on the provider's position, the index in
the journal and the handler that is between the two. `NextSplit` says which split
of a job comes next at any moment: the one the handler holds, the provider's, the
first one when the end of a repetition is recorded and the provider not yet
reset, or, after a crash, the one at the journal's index. `SplitsOf` says that
only splits before it were given (`OnlyBefore`), that without faults all of these
were (`AllBefore`), and that the journal's index is that split, or the one after
it while the record is written and the answer is not sent (`Recorded`). A failed
write breaks the equality of index and position only, whether its record stays or
not, and this is harmless until a crash makes the index count: hence the exception
for both together.

`CoverInvariant`: between the updates of a handler the tasks do not cover the
jobs and workers. `CoverOK` therefore counts the tasks that exist and those the
remaining updates create: there is exactly one for every job and worker that is
known or that an update makes known, and applying an update moves a task from
one kind to the other. A fault before the first update forgets all of them
together with the job or worker they are for (`CreatingInv`); a later one sets
the fault "partial". A record that a failed write left makes its job or worker
known after a crash, without tasks: that is the other exception (`Whole`).
`IndexInv` says that `tasks_by_job`, over which `TasksCover`
counts, is complete.

Only model-checked:

* all liveness (`CallsReturn`, `RequestsEnd`, `StepEnds`, `AllocateReturns`, ...):
  fairness and ENABLED are outside of what the proof system does. The liveness
  run of `AllocatorRetry` is all that component has;
* `PropagatorState`, whose operators are RECURSIVE, as its code is;
* the invariants of `BFCAllocator` and its refinement of `MemoryAllocator`. They are
  about sums of sizes and about lists of chunks that its operators fold over;
  what a fold computes for every list needs an induction over data.

## 5. Findings

1. `cancellation_constructor`: the constructor of a child stores
   `is_cancelled_ = parent->RegisterChild(this)` after `RegisterChild` has released
   the parent's lock with the child linked (`cancellation.cc:33-36`), and
   `is_cancelled_` has no value before. A `StartCancel` of the parent in between
   either reads an indeterminate true and passes the child by (the trace of the
   run), or cancels it and has that undone by the store. The child is then
   uncancelled under a cancelled parent; `cancellation.h:57` says "If `*parent` is
   cancelled, `*this` will be cancelled".
2. `dispatcher_gc`: `GcOldJobs` calls `state_.Apply(update)` and not `Apply`
   (`dispatcher_impl.cc:959`), so the garbage collection of a job is not in the
   journal and a restarted dispatcher has the job and its unfinished tasks again.
   `dispatcher_state.h:37-39` says that all modifications go through the journal
   so that a replay restores "the exact same state".

Met while modelling, without a run of their own:

* Cancellation. `IsCancelled()` is documented as "Returns true iff StartCancel()
  has been called" (`cancellation.h:66`) and is false until all callbacks have
  run. `DeregisterChild` (`cancellation.cc:171`) uses `state_` of a cancelling
  parent that may be null; the child then does not wait.
* Rendezvous. A `Recv` that times out leaves its waiter, which refers to its
  locals, in the table (`rendezvous.cc:119-143`); a `Send` that comes later, or has
  taken the waiter already, writes to them, and its message is lost for the next
  `Recv`. The header says nothing of a `Recv` that timed out, so no property states
  it; the run `rendezvous` has such requests. The cancel callback of a request finds it by its token only
  (`local_rendezvous.cc:215`), and tokens are counted per manager: with two
  managers on one key it can complete the wrong request, and leave its own
  waiting. Sessions use one manager per step, but eager executions with different
  managers share one rendezvous (`common_runtime/eager/context.h:261-294`). The
  refinement holds with any number of managers; `RequestsEnd` is checked with one
  and fails with two.
* Queues. Elements that are put back may exceed the capacity
  (`fifo_queue.cc:282`); a DequeueMany whose copy fails loses the element it has
  popped (`fifo_queue.cc:332`), and a cancelled one loses its batch; a failed copy in `TryEnqueueMany` leaves the components
  of a tuple with different lengths (`fifo_queue.cc:135`; the instance has one
  component); `CloseAndCancel` leaves the callbacks of the attempts registered
  (`queue_base.cc:235`). A cancel callback that flushes may complete another
  attempt of its own step and deregister its callback from the manager that is
  running it, which waits for that callback (`queue_base.cc:331`). Attempts are
  identified by manager address and token, which a later step may have again
  (`queue_base.cc:197`).
* Allocators. `MergeTimestampedChunks` may leave adjacent free chunks apart
  (`bfc_allocator.cc:880`; `bfc_allocator.h:160` says there are none), the
  remainder of a split is not on the timestamped list (`bfc_allocator.cc:632`,
  `.h:109`), and handles of chunks in collected regions stay on it, for which
  `RegionFor` fails fatally (`bfc_allocator.cc:839`). The model records the
  latter as `heap.ok` and its instance with timestamps does not collect regions.
  A sub-allocator that pads beyond the limit makes the available bytes go below
  zero (`bfc_allocator.cc:108`), and backpedalling does not shrink small requests
  (`bfc_allocator.cc:137-142`). `AllocatorRetry` may miss a notification between
  its attempt and its wait (`allocator_retry.cc:65-75`); it then waits for its
  deadline, which `AllocateReturns` includes.
* Worker. A cancellation that arrives before `SetCancelCallback` finds nothing
  to run and is lost. A partial run whose other parts fail is never erased. If
  `ExecuteAsync` fails without an abort, `RecvOutputsAsync` waits for the
  cancellation of the call (`NeverStarted` in `RequestsEnd`). A cancelled call that
  `CleanupGraph` overtakes waits on a new rendezvous that nobody aborts
  (`Stranded`); nobody waits for its answer. `PartialRunMgr` narrows step ids to
  `int` (`partial_run_mgr.h:53`): of two partial runs whose ids agree there the
  second finds the run of the first, does not start its executors, waits for
  outputs that do not come, and the end of either frees the manager that the cancel
  callbacks of both hold. Nor is there anything against overlapping `PRun` calls on
  one handle (`master_session.cc:1712-1832`): the last part may then end the run
  under an earlier one, which is left with the freed manager and, arriving late,
  starts the step again. `NoUseAfterFree`, `AtMostOnce` and `RequestsEnd` fail for
  such steps and are stated for the `Regular` ones.
* Propagator. If a Merge that starts an iteration also waits for a control
  input, `IncrementIteration` may free the iteration before its invariants are
  activated; the graphs that the loop constructors build have no such Merge. An
  Enter without consumers that is the last input leaves its frame until the
  propagator is destroyed.
* Data service. A crash between the updates of `GetOrCreateJob` or of
  `WorkerHeartbeat` leaves a job or a worker without its tasks (the exception in
  `TasksCover`). A write that fails after `GetNext`, followed by a crash, repeats
  a split (the exception in `SplitsOnce`). A write whose `Flush` or `Sync` fails may
  leave its record (`journal.cc:80-82`): the handler reports an error, the next one
  uses the same ids, and the journal then breaks a DCHECK at the next `Start`, or,
  if the crash comes first, `Start` finds a job or a worker without tasks (the
  exceptions in `Recoverable` and `TasksCover`). A build without DCHECKs would go on
  with such a journal and overwrite entries; that is not modelled. A fault between
  `Put` and the journal leaves a definition in the store for which every later
  registration under that id ends in AlreadyExists (`dataset_store.cc:40-42`): the
  dataset cannot be registered until another one has taken the id. A failed
  `create_job` leaves its split provider, and the retry appends another
  (`dispatcher_impl.cc:602-604`) and records a job of two, for which the iterators
  of a dataset with one source end in FailedPrecondition (`split_utils.cc:122`).
  A record that is torn by a crash makes every later `Start`
  fail; the model writes records, and definitions in the store, whole. `ValidateMatchingJob`
  does not compare the dataset. A `ProcessTask` that is delayed creates a task
  again that the worker had finished (`worker_impl.cc:214`).

## 6. Not modelled, and the plan

Left out of the modelled components: key parsing and hashing, tensors and their
shapes, tracing, statistics, debugging dumps. Queues: the padding, priority and
random variants and the reference count. Allocators: pool, scoped and tracking
allocators and the device sub-allocators. Worker: the master session, remote
rendezvous and transports, which appear by what they do to the handlers. Data
service: round-robin jobs (pending tasks, `TaskRemover`, `ClientHeartbeat`), the
reading of elements, a restart of workers, and liveness, whose state graph is
too large at these bounds.

Next, in order:

1. Theorems: `HeapConsistent` of the allocator.
2. `BufRendezvous` and `BaseRemoteRendezvous`: the remaining users of the
   cancellation manager.
3. A composition of `Executor`, `LocalRendezvous` and `Cancellation` (two
   executors of one step), as `DirectSession` makes it.
4. The batching kernels and stateful iterators.

Left out for good: numerical kernels, graph rewriting, the compilers, Lite,
language bindings and the platform layer. They are numerical or sequential code
over unbounded data, or I/O, and have no protocol state that a model would show.
They are by far the larger part of the repository, so the map covers a small
share of its lines.
