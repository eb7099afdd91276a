------------------------------ MODULE Executor ------------------------------
(***************************************************************************)
(* ExecutorState, tensorflow/core/common_runtime/executor.cc, one step of  *)
(* a graph without control flow: SimplePropagatorState counts down the     *)
(* pending inputs of the nodes, threads of the runner process the ready    *)
(* nodes, asynchronous kernels come back on threads of their own, and the  *)
(* thread that brings num_outstanding_ops_ to zero finishes the step and   *)
(* deletes the state that all the others were using.                       *)
(*                                                                         *)
(* One action is one atomic operation (fetch_sub, fetch_add, a critical    *)
(* section) together with the code around it that touches only data of     *)
(* the thread.  A thread is named by the node it was started for: the      *)
(* closure handed to the runner ("process") or the done callback of an     *)
(* asynchronous kernel ("done").                                           *)
(*                                                                         *)
(* Tensors are abstracted to the presence of a value in an input entry.    *)
(* Kernels, the device, the rendezvous and the cancellation manager are    *)
(* environment: a kernel ends with any status.  "CANCELLED" stands for the *)
(* CANCELLED and ABORTED codes, "DERIVED" for StatusGroup::MakeDerived of  *)
(* one of them.                                                            *)
(***************************************************************************)
EXTENDS Integers, FiniteSets, Sequences, SequencesExt

CONSTANTS
    Nodes,   \* node ids
    Graphs,  \* the graphs to run, see IsGraph
    Args     \* the Executor::Args and device to run them with, see Arguments

(* output_edges() and output_control_edges() of a node in their order, its *)
(* kind of kernel, the kernels with IsExpensive() and those that may defer *)
(* work to the device (inc_num_deferred_ops_function).                     *)
IsGraph(g) ==
    LET N == DOMAIN g.out
    IN  /\ N \subseteq Nodes
        /\ g.out \in [N -> Seq(N)] /\ g.control \in [N -> Seq(N)]
        /\ g.op \in [N -> {"noop", "const", "sync", "async"}]
        /\ g.expensive \subseteq Nodes /\ g.deferring \subseteq Nodes

Arguments == [run_all_kernels_inline : BOOLEAN, cancellation_manager : BOOLEAN,
              sync_on_finish : BOOLEAN, allows_sync_on_completion : BOOLEAN]

ASSUME ArgsAssumption == Args \subseteq Arguments

(* GraphConstructor refuses "nodes in a cycle" (graph_constructor.cc:1278), *)
(* save for the loops of control flow: in every set of nodes one has no    *)
(* input from that set.                                                    *)
Acyclic(g) ==
    \A S \in SUBSET DOMAIN g.out : S # {} =>
        \E n \in S : \A m \in S : n \notin Range(g.out[m]) \cup Range(g.control[m])

ASSUME GraphsAssumption ==
    IsFiniteSet(Nodes) /\ \A g \in Graphs : IsGraph(g) /\ Acyclic(g)

VARIABLES
    graph, args,         \* what is run, and how
    started,             \* RunAsync was called
    pending,             \* pending_: inputs a node still waits for
    full,                \* the edges whose entry of input_tensors_ holds a value
    num_outstanding_ops, \* num_outstanding_ops_
    status,              \* status_
    pool,                \* closures the runner has not started: sequences of nodes
    thread,              \* the threads inside Process or a done callback
    num_deferred_ops, finish_when_deferred_ops_done,
    deferred,            \* the nodes whose deferred work is unfinished
    finish,              \* the thread inside Finish: progress and its copy of the status
    finish_calls,        \* number of calls of Finish
    deleted,             \* `delete this` was executed
    reported,            \* the statuses done_cb was called with
    aborted,             \* the rendezvous (or collective executor) is aborted
    cancelled,           \* the cancellation manager is cancelled
    foreign_cancel,      \* history: somebody else cancelled it
    device_ok,           \* the device status
    processed,           \* history: how often a node was processed
    failed               \* history: the nodes that failed

step == <<graph, args, started>>
propagation == <<pending, full>>
counters == <<num_deferred_ops, finish_when_deferred_ops_done, deferred>>
ending == <<finish, finish_calls, deleted, reported>>
environment == <<aborted, cancelled, foreign_cancel, device_ok>>
history == <<processed, failed>>
vars == <<step, propagation, num_outstanding_ops, status, pool, thread, counters,
          ending, environment, history>>

Status == {"OK", "ERROR", "CANCELLED", "DERIVED"}
Threads == {"process", "done"} \X Nodes

(* The locals of Process: inline_ready, ready, s, completed, the edge that *)
(* PropagateOutputs is at, and the nodes that remain of the closure.       *)
Frame == [pc : {"idle", "loop", "kernel", "write", "decrement", "node_done", "schedule",
                "abort", "cancel", "error"},
          node : Nodes, edge : Nat, s : Status, ready : Seq(Nodes), inline : Seq(Nodes),
          rest : Seq(Nodes), completed : BOOLEAN]

TypeOK ==
    /\ graph \in Graphs /\ args \in Args /\ started \in BOOLEAN
    /\ pending \in [Nodes -> Nat]
    /\ full \subseteq Nodes \X Nat
    /\ num_outstanding_ops \in Nat
    /\ status \in Status
    /\ \A t \in pool : t \in Seq(Nodes) /\ t # <<>>
    /\ thread \in [Threads -> Frame]
    /\ num_deferred_ops \in Nat /\ finish_when_deferred_ops_done \in BOOLEAN
    /\ deferred \subseteq Nodes
    /\ finish \in [pc : {"none", "begin", "refresh", "abort", "sync", "delete", "call", "end"},
                   status : Status]
    /\ finish_calls \in Nat
    /\ deleted \in BOOLEAN
    /\ reported \in Seq(Status)
    /\ {aborted, cancelled, foreign_cancel, device_ok} \subseteq BOOLEAN
    /\ processed \in [Nodes -> Nat]
    /\ failed \subseteq Nodes

-----------------------------------------------------------------------------
(* The graph.                                                              *)
GraphNodes == DOMAIN graph.out
Edges(n) == graph.out[n] \o graph.control[n]
EdgesInto(n) == {e \in UNION {{m} \X DOMAIN Edges(m) : m \in GraphNodes} : Edges(e[1])[e[2]] = n}
IsData(e) == e[2] <= Len(graph.out[e[1]])
DataInto(n) == {e \in EdgesInto(n) : IsData(e)}

(* GetMaxPendingCounts of a node that is no merge.                         *)
InitialPending(n) == Cardinality(EdgesInto(n))

(* root_nodes(), in the order of the graph.                                *)
RootNodes == SetToSeq({n \in GraphNodes : EdgesInto(n) = {}})

Idle == [pc |-> "idle", node |-> CHOOSE n \in Nodes : TRUE, edge |-> 0, s |-> "OK",
         ready |-> <<>>, inline |-> <<>>, rest |-> <<>>, completed |-> FALSE]

(* Process(tagged_node) begins; `rest` remains of the closure.             *)
ProcessFrame(n, rest) == [Idle EXCEPT !.pc = "loop", !.inline = <<n>>, !.rest = rest]

Init ==
    /\ graph \in Graphs /\ args \in Args /\ started = FALSE
    /\ pending = [n \in Nodes |-> IF n \in GraphNodes THEN InitialPending(n) ELSE 0]
    /\ full = {}
    /\ num_outstanding_ops = 0
    /\ status = "OK"
    /\ pool = {}
    /\ thread = [c \in Threads |-> Idle]
    /\ num_deferred_ops = 0 /\ finish_when_deferred_ops_done = FALSE /\ deferred = {}
    /\ finish = [pc |-> "none", status |-> "OK"]
    /\ finish_calls = 0 /\ deleted = FALSE /\ reported = <<>>
    /\ aborted = FALSE /\ cancelled = FALSE /\ foreign_cancel = FALSE /\ device_ok = TRUE
    /\ processed = [n \in Nodes |-> 0]
    /\ failed = {}

-----------------------------------------------------------------------------
(* ScheduleReady.  RunTask hands a closure to the runner.                  *)
Singles(ready) == {<<n>> : n \in Range(ready)}

(* With inline_ready == nullptr: the closures for the ready nodes.         *)
Closures(ready) == IF args.run_all_kernels_inline THEN {ready} ELSE Singles(ready)

(* The nodes of ready that are not in X, in their order.                   *)
Without(ready, X) ==
    LET kept == {i \in DOMAIN ready : ready[i] \notin X}
        rank(i) == Cardinality({j \in kept : j <= i})
    IN  [k \in 1 .. Cardinality(kept) |-> ready[CHOOSE i \in kept : rank(i) = k]]

(* With an inline_ready: the inexpensive nodes are inlined; the last of    *)
(* the expensive ones (set X at this moment, the cost estimates vary) only *)
(* if there is nothing else to do.                                         *)
Inlined(ready, inline, X) ==
    LET cheap == inline \o Without(ready, X)
    IN  IF args.run_all_kernels_inline THEN inline \o ready
        ELSE IF cheap = <<>> THEN <<Last(ready)>> ELSE cheap

ExpensiveNow(ready) == SUBSET (Range(ready) \cap graph.expensive)

(* RunAsync: no device context, nothing to run, or the roots.              *)
NothingToRun(result) ==
    /\ deleted' = TRUE
    /\ reported' = Append(reported, result)
    /\ UNCHANGED <<num_outstanding_ops, pool>>

RunAsync ==
    /\ ~started /\ started' = TRUE
    /\ \/ NothingToRun("ERROR")
       \/ RootNodes = <<>> /\ NothingToRun("OK")
       \/ /\ RootNodes # <<>>
          /\ num_outstanding_ops' = Len(RootNodes)
          /\ pool' = Closures(RootNodes)
          /\ UNCHANGED <<deleted, reported>>
    /\ UNCHANGED <<graph, args, propagation, status, thread, counters, finish, finish_calls,
                   environment, history>>

(* A thread of the runner takes a closure.                                 *)
RunTask(t) ==
    /\ t \in pool
    /\ pool' = pool \ {t}
    /\ thread' = [thread EXCEPT ![<<"process", Head(t)>>] = ProcessFrame(Head(t), Tail(t))]
    /\ UNCHANGED <<step, propagation, num_outstanding_ops, status, counters, ending,
                   environment, history>>

-----------------------------------------------------------------------------
(* The loop of Process.                                                    *)
Next1(c) == Head(thread[c].inline)
Looping(c, ops) ==
    thread[c].pc = "loop" /\ thread[c].inline # <<>> /\ graph.op[Next1(c)] \in ops

(* Where PropagateOutputs goes on with edge i of n: a data edge first has  *)
(* its value written, "or else one thread might conclude that the count    *)
(* has dropped to zero before another thread finishes updating the input"  *)
(* (simple_propagator_state.cc:82-85).                                     *)
AtEdge(n, i) ==
    CASE i > Len(Edges(n)) -> "node_done"
      [] i <= Len(Edges(n)) /\ IsData(<<n, i>>) -> "write"
      [] OTHER -> "decrement"

(* Frame f goes on after its kernel for n ended with s: outputs are        *)
(* propagated if s is OK.                                                  *)
AfterKernel(f, n, s) ==
    [f EXCEPT !.pc = IF s = "OK" THEN AtEdge(n, 1) ELSE "node_done",
              !.node = n, !.edge = 1, !.s = s]

Popped(c) == [thread[c] EXCEPT !.inline = Tail(@)]

(* The node is processed; its inputs are read now, and cleared unless an   *)
(* asynchronous kernel still uses them.                                    *)
Processes(n, clear) ==
    /\ processed' = [processed EXCEPT ![n] = @ + 1]
    /\ full' = IF clear THEN full \ DataInto(n) ELSE full

(* The status a kernel may end with.                                       *)
Outcome == {"OK", "ERROR", "CANCELLED"}

(* A kernel may call inc_num_deferred_ops_function.                        *)
MayDefer(n) ==
    \/ UNCHANGED counters
    \/ /\ n \in graph.deferring
       /\ num_deferred_ops' = num_deferred_ops + 1
       /\ deferred' = deferred \cup {n}
       /\ UNCHANGED finish_when_deferred_ops_done

Fails(n, s) == failed' = IF s = "OK" THEN failed ELSE failed \cup {n}

(* ProcessNoop and ProcessConstTensor leave s as the previous node of this *)
(* call left it.                                                           *)
ProcessTrivial(c) ==
    /\ Looping(c, {"noop", "const"})
    /\ thread' = [thread EXCEPT ![c] = AfterKernel(Popped(c), Next1(c), thread[c].s)]
    /\ Processes(Next1(c), TRUE)
    /\ UNCHANGED <<step, pending, num_outstanding_ops, status, pool, counters, ending,
                   environment, failed>>

(* A missing or uninitialized input; a node without inputs cannot fail.    *)
PrepareInputsFails(c) ==
    /\ Looping(c, {"sync", "async"}) /\ DataInto(Next1(c)) # {}
    /\ thread' = [thread EXCEPT ![c] = AfterKernel(Popped(c), Next1(c), "ERROR")]
    /\ Processes(Next1(c), TRUE)
    /\ Fails(Next1(c), "ERROR")
    /\ UNCHANGED <<step, pending, num_outstanding_ops, status, pool, counters, ending,
                   environment>>

ProcessSync(c) ==
    /\ Looping(c, {"sync"})
    /\ \E s \in Outcome :
          /\ thread' = [thread EXCEPT ![c] = AfterKernel(Popped(c), Next1(c), s)]
          /\ Fails(Next1(c), s)
    /\ Processes(Next1(c), TRUE)
    /\ MayDefer(Next1(c))
    /\ UNCHANGED <<step, pending, num_outstanding_ops, status, pool, ending, environment>>

ProcessAsync(c) ==
    /\ Looping(c, {"async"})
    /\ thread' = [thread EXCEPT
                    ![c] = [Popped(c) EXCEPT !.s = "OK"],
                    ![<<"done", Next1(c)>>] = [Idle EXCEPT !.pc = "kernel", !.node = Next1(c)]]
    /\ Processes(Next1(c), FALSE)
    /\ MayDefer(Next1(c))
    /\ UNCHANGED <<step, pending, num_outstanding_ops, status, pool, ending, environment,
                   failed>>

(* The asynchronous kernel of n calls done.                                *)
AsyncDone(n) ==
    LET c == <<"done", n>>
    IN  /\ thread[c].pc = "kernel"
        /\ \E s \in Outcome :
              /\ thread' = [thread EXCEPT ![c] = AfterKernel(thread[c], n, s)]
              /\ Fails(n, s)
        /\ full' = full \ DataInto(n)
        /\ UNCHANGED <<step, pending, num_outstanding_ops, status, pool, counters, ending,
                       environment, processed>>

-----------------------------------------------------------------------------
(* PropagateOutputs, edge by edge.                                         *)
Put(c) == full' = full \cup {<<thread[c].node, thread[c].edge>>} /\ UNCHANGED pending

Dst(f) == Edges(f.node)[f.edge]
CountDown(c) == pending' = [pending EXCEPT ![Dst(thread[c])] = @ - 1] /\ UNCHANGED full

(* previous_num_pending == 1.                                              *)
LastPending(previous) == previous = 1
Counted(f) == IF LastPending(pending[Dst(f)]) THEN [f EXCEPT !.ready = Append(@, Dst(f))] ELSE f
Advance(f) == [f EXCEPT !.pc = AtEdge(f.node, f.edge + 1), !.edge = @ + 1]

(* Mutant: the value is written after the count was updated.               *)
PropagateOutputs_CountFirst(c) ==
    LET f == thread[c]
    IN  /\ \/ /\ f.pc = "write"
              /\ CountDown(c)
              /\ thread' = [thread EXCEPT ![c] = [Counted(f) EXCEPT !.pc = "decrement"]]
           \/ /\ f.pc = "decrement" /\ IsData(<<f.node, f.edge>>)
              /\ Put(c)
              /\ thread' = [thread EXCEPT ![c] = Advance(f)]
           \/ /\ f.pc = "decrement" /\ ~IsData(<<f.node, f.edge>>)
              /\ CountDown(c)
              /\ thread' = [thread EXCEPT ![c] = Advance(Counted(f))]
        /\ UNCHANGED <<step, num_outstanding_ops, status, pool, counters, ending,
                       environment, history>>

PropagateOutputs(c) ==
    LET f == thread[c]
    IN  /\ \/ /\ f.pc = "write"
              /\ Put(c)
              /\ thread' = [thread EXCEPT ![c] = [f EXCEPT !.pc = "decrement"]]
           \/ /\ f.pc = "decrement"
              /\ CountDown(c)
              /\ thread' = [thread EXCEPT ![c] = Advance(Counted(f))]
        /\ UNCHANGED <<step, num_outstanding_ops, status, pool, counters, ending,
                       environment, history>>

-----------------------------------------------------------------------------
(* NodeDone.                                                               *)

(* num_outstanding_ops_.fetch_sub(1) == 1: was this the last one?          *)
FetchSub(c) ==
    /\ num_outstanding_ops' = num_outstanding_ops - 1
    /\ thread' = [thread EXCEPT ![c].pc = "loop", ![c].completed = num_outstanding_ops = 1]

(* The node is replaced by the nodes it made ready.  Mutant: the node      *)
(* itself stays counted.                                                   *)
FetchAdd_ReadySize(ready) == num_outstanding_ops + Len(ready)
FetchAdd(ready) == num_outstanding_ops + (Len(ready) - 1)

NodeDone(c) ==
    /\ thread[c].pc = "node_done" /\ thread[c].s = "OK"
    /\ IF thread[c].ready = <<>>
       THEN FetchSub(c)
       ELSE /\ num_outstanding_ops' = FetchAdd(thread[c].ready)
            /\ thread' = [thread EXCEPT ![c].pc = "schedule"]
    /\ UNCHANGED <<step, propagation, status, pool, counters, ending, environment, history>>

(* All closures are handed over at once: a closure that runs before a      *)
(* later one was handed over cannot tell.                                  *)
ScheduleReady(c) ==
    LET f == thread[c]
        scheduled(inline) == [f EXCEPT !.pc = "loop", !.ready = <<>>, !.inline = inline,
                                       !.completed = FALSE]
    IN  /\ f.pc = "schedule"
        /\ \/ /\ c[1] = "done"
              /\ pool' = pool \cup Closures(f.ready)
              /\ thread' = [thread EXCEPT ![c] = scheduled(<<>>)]
           \/ /\ c[1] = "process"
              /\ \E X \in ExpensiveNow(f.ready) :
                    LET inline == Inlined(f.ready, f.inline, X)
                    IN  /\ thread' = [thread EXCEPT ![c] = scheduled(inline)]
                        /\ pool' = pool \cup {<<n>> : n \in Range(f.ready) \ Range(inline)}
        /\ UNCHANGED <<step, propagation, num_outstanding_ops, status, counters, ending,
                       environment, history>>

(* The status that the first failure leaves.  "If execution has been       *)
(* cancelled, mark cancelled or aborted errors as being derived"           *)
(* (executor.cc:1112).                                                     *)
FirstFailure(s) ==
    IF args.cancellation_manager /\ cancelled /\ s = "CANCELLED" THEN "DERIVED" ELSE s

(* status_ after a node failed with s.  Mutant: it is not kept.            *)
KeepStatus_Lost(s) == status
KeepStatus(s) == IF status = "OK" THEN FirstFailure(s) ELSE status

(* The first failure aborts the step.  Mutant: nobody does.                *)
AbortRun_Never == "error"
AbortRun == IF status = "OK" THEN "abort" ELSE "error"

NodeFailed(c) ==
    /\ thread[c].pc = "node_done" /\ thread[c].s # "OK"
    /\ status' = KeepStatus(thread[c].s)
    /\ thread' = [thread EXCEPT ![c].pc = AbortRun]
    /\ UNCHANGED <<step, propagation, num_outstanding_ops, pool, counters, ending,
                   environment, history>>

(* rendezvous_->StartAbort.                                                *)
StartAbort(c) ==
    /\ thread[c].pc = "abort"
    /\ aborted' = TRUE
    /\ thread' = [thread EXCEPT ![c].pc = "cancel"]
    /\ UNCHANGED <<step, propagation, num_outstanding_ops, status, pool, counters, ending,
                   cancelled, foreign_cancel, device_ok, history>>

(* cancellation_manager_->StartCancel, if there is one.                    *)
StartCancel(c) ==
    /\ thread[c].pc = "cancel"
    /\ cancelled' = (cancelled \/ args.cancellation_manager)
    /\ thread' = [thread EXCEPT ![c].pc = "error"]
    /\ UNCHANGED <<step, propagation, num_outstanding_ops, status, pool, counters, ending,
                   aborted, foreign_cancel, device_ok, history>>

ErrorDone(c) ==
    /\ thread[c].pc = "error"
    /\ FetchSub(c)
    /\ UNCHANGED <<step, propagation, status, pool, counters, ending, environment, history>>

-----------------------------------------------------------------------------
(* The end of Process and of the done callback, ScheduleFinish, Finish.    *)
CallFinish ==
    /\ finish_calls' = finish_calls + 1
    /\ finish' = [finish EXCEPT !.pc = "begin"]

(* Mutant: deferred work is not waited for.                                *)
ScheduleFinish_Now == CallFinish /\ UNCHANGED counters
(* Finish is called here if there are no deferred ops, otherwise by the    *)
(* last of them.                                                           *)
ScheduleFinish ==
    \/ /\ num_deferred_ops > 0
       /\ finish_when_deferred_ops_done' = TRUE
       /\ UNCHANGED <<num_deferred_ops, deferred, finish, finish_calls>>
    \/ /\ num_deferred_ops = 0
       /\ CallFinish
       /\ UNCHANGED counters

(* inline_ready is empty: the call returns, and a closure with more nodes  *)
(* calls Process for the next one.                                         *)
ProcessReturns(c) ==
    LET f == thread[c]
    IN  /\ f.pc = "loop" /\ f.inline = <<>>
        /\ thread' = [thread EXCEPT ![c] =
              IF f.rest = <<>> THEN Idle ELSE ProcessFrame(Head(f.rest), Tail(f.rest))]
        /\ IF f.completed THEN ScheduleFinish ELSE UNCHANGED <<counters, finish, finish_calls>>
        /\ UNCHANGED <<step, propagation, num_outstanding_ops, status, pool, deleted,
                       reported, environment, history>>

(* dec_num_deferred_ops_function.                                          *)
LastDeferred == num_deferred_ops = 1 /\ finish_when_deferred_ops_done

DeferredDone(n) ==
    /\ n \in deferred
    /\ num_deferred_ops' = num_deferred_ops - 1
    /\ deferred' = deferred \ {n}
    /\ IF LastDeferred THEN CallFinish ELSE UNCHANGED <<finish, finish_calls>>
    /\ UNCHANGED <<step, propagation, num_outstanding_ops, status, pool, thread,
                   finish_when_deferred_ops_done, deleted, reported, environment, history>>

DeviceStatus == IF device_ok THEN "OK" ELSE "ERROR"

(* Finish takes status_ and done_cb_ under mu_.                            *)
FinishBegins ==
    /\ finish.pc = "begin"
    /\ finish' = [status |-> status,
                  pc |-> CASE ~args.allows_sync_on_completion -> "refresh"
                           [] args.allows_sync_on_completion /\ args.sync_on_finish /\ status = "OK"
                                -> "sync"
                           [] OTHER -> "delete"]
    /\ UNCHANGED <<step, propagation, num_outstanding_ops, status, pool, thread, counters,
                   finish_calls, deleted, reported, environment, history>>

(* status.Update(device->RefreshStatus())                                  *)
RefreshStatus ==
    /\ finish.pc = "refresh"
    /\ LET s == IF finish.status = "OK" THEN DeviceStatus ELSE finish.status
       IN  finish' = [status |-> s, pc |-> IF s = "OK" THEN "delete" ELSE "abort"]
    /\ UNCHANGED <<step, propagation, num_outstanding_ops, status, pool, thread, counters,
                   finish_calls, deleted, reported, environment, history>>

(* "the last defense where StartCancel must be called" (executor.cc:1281)  *)
FinishAborts ==
    /\ finish.pc = "abort"
    /\ aborted' = TRUE
    /\ cancelled' = (cancelled \/ args.cancellation_manager)
    /\ finish' = [finish EXCEPT !.pc = "delete"]
    /\ UNCHANGED <<step, propagation, num_outstanding_ops, status, pool, thread, counters,
                   finish_calls, deleted, reported, foreign_cancel, device_ok, history>>

(* The device has finished all queued work and calls back.                 *)
SyncDone ==
    /\ finish.pc = "sync"
    /\ finish' = [status |-> DeviceStatus, pc |-> "delete"]
    /\ UNCHANGED <<step, propagation, num_outstanding_ops, status, pool, thread, counters,
                   finish_calls, deleted, reported, environment, history>>

DeleteThis ==
    /\ finish.pc = "delete"
    /\ deleted' = TRUE
    /\ finish' = [finish EXCEPT !.pc = "call"]
    /\ UNCHANGED <<step, propagation, num_outstanding_ops, status, pool, thread, counters,
                   finish_calls, reported, environment, history>>

(* The runner runs done_cb(status).                                        *)
CallDone ==
    /\ finish.pc = "call"
    /\ reported' = Append(reported, finish.status)
    /\ finish' = [finish EXCEPT !.pc = "end"]
    /\ UNCHANGED <<step, propagation, num_outstanding_ops, status, pool, thread, counters,
                   finish_calls, deleted, environment, history>>

-----------------------------------------------------------------------------
(* The environment: another executor of the step aborts the rendezvous, or *)
(* somebody cancels the step; the device fails.                            *)
OtherAborts ==
    /\ ~deleted /\ ~aborted
    /\ aborted' = TRUE
    /\ UNCHANGED <<step, propagation, num_outstanding_ops, status, pool, thread, counters,
                   ending, cancelled, foreign_cancel, device_ok, history>>

OtherCancels ==
    /\ ~deleted /\ args.cancellation_manager /\ ~cancelled
    /\ cancelled' = TRUE /\ foreign_cancel' = TRUE
    /\ UNCHANGED <<step, propagation, num_outstanding_ops, status, pool, thread, counters,
                   ending, aborted, device_ok, history>>

DeviceFails ==
    /\ ~deleted /\ device_ok
    /\ device_ok' = FALSE
    /\ UNCHANGED <<step, propagation, num_outstanding_ops, status, pool, thread, counters,
                   ending, aborted, cancelled, foreign_cancel, history>>

(* Nothing is left to do.                                                  *)
Terminated ==
    /\ reported # <<>> /\ pool = {} /\ \A c \in Threads : thread[c].pc = "idle"
    /\ UNCHANGED vars

-----------------------------------------------------------------------------
ProcessStep(c) ==
    \/ ProcessTrivial(c) \/ PrepareInputsFails(c) \/ ProcessSync(c) \/ ProcessAsync(c)
    \/ PropagateOutputs(c) \/ NodeDone(c) \/ ScheduleReady(c)
    \/ NodeFailed(c) \/ StartAbort(c) \/ StartCancel(c) \/ ErrorDone(c) \/ ProcessReturns(c)

FinishStep ==
    FinishBegins \/ RefreshStatus \/ FinishAborts \/ SyncDone \/ DeleteThis \/ CallDone

Next ==
    \/ RunAsync
    \/ \E t \in pool : RunTask(t)
    \/ \E c \in Threads : ProcessStep(c)
    \/ \E n \in Nodes : AsyncDone(n) \/ DeferredDone(n)
    \/ FinishStep
    \/ OtherAborts \/ OtherCancels \/ DeviceFails
    \/ Terminated

Spec == Init /\ [][Next]_vars

(* The runner runs what it is given, threads inside a call go on, deferred *)
(* work ends.  An asynchronous kernel (a Recv, a dequeue) may wait for     *)
(* ever, except in a step that was aborted or cancelled: it watches both.  *)
AsyncStops(n) == (aborted \/ cancelled) /\ AsyncDone(n)

FairSpec ==
    /\ Spec
    /\ WF_vars(\E t \in pool : RunTask(t))
    /\ \A c \in Threads : WF_vars(ProcessStep(c))
    /\ \A n \in Nodes : WF_vars(AsyncStops(n)) /\ WF_vars(DeferredDone(n))
    /\ WF_vars(FinishStep)

-----------------------------------------------------------------------------
(* Correctness.                                                            *)

Active(c) == thread[c].pc \notin {"idle", "loop", "schedule"}
Queued ==
    (UNION {Range(t) : t \in pool})
        \cup (UNION {Range(thread[c].inline) \cup Range(thread[c].rest) : c \in Threads})

(* "Each element of input_tensors is written once by the source node of an *)
(* edge and is cleared by the destination of the same edge [...] so there  *)
(* is never concurrent access" (simple_propagator_state.h:171-174): a node *)
(* that is ready, scheduled or running an asynchronous kernel has a value  *)
(* in each of its data inputs, and no thread is still at an edge into it.  *)
Ready == Queued \cup UNION {Range(thread[c].ready) : c \in Threads}
InputsReady ==
    /\ \A n \in Ready :
          /\ DataInto(n) \subseteq full
          /\ \A c \in Threads : thread[c].pc \in {"write", "decrement"} => Dst(thread[c]) # n
    /\ \A n \in Nodes : thread[<<"done", n>>].pc = "kernel" => DataInto(n) \subseteq full

(* "The destination node always runs after the source node"                *)
(* (simple_propagator_state.h:173): a node is processed only after all the *)
(* nodes it depends on, by data or control, have been processed with       *)
(* success, even if a node that fails races with one that does not, and    *)
(* with its inputs there.                                                  *)
DependenciesFirst ==
    /\ InputsReady
    /\ \A n \in GraphNodes : processed[n] > 0 =>
         \A e \in EdgesInto(n) : processed[e[1]] = 1 /\ e[1] \notin failed

(* num_outstanding_ops_ counts the nodes that are queued or being          *)
(* processed; nodes that one thread has found ready enter the count before *)
(* another thread can see them, so that it is zero only at the end.        *)
OutstandingNodes ==
    Queued \cup {thread[c].node : c \in {d \in Threads : Active(d)}}
        \cup UNION {Range(thread[c].ready) : c \in {d \in Threads : thread[d].pc = "schedule"}}
Accounting == num_outstanding_ops = Cardinality(OutstandingNodes)

(* After `delete this` no thread, closure, kernel or deferred op is left   *)
(* that would use the ExecutorState.                                       *)
NoUseAfterDelete ==
    deleted =>
        /\ pool = {} /\ deferred = {}
        /\ \A c \in Threads :
              /\ thread[c].pc \in {"idle", "loop"}
              /\ thread[c].inline = <<>> /\ thread[c].rest = <<>> /\ ~thread[c].completed

(* "Finish is always called exactly once per ExecutorState" (executor.cc:   *)
(* 1231), also when the last deferred op ends while ScheduleFinish runs;    *)
(* "we will at worst report errors when there isn't any, never the          *)
(* opposite" (executor.cc:1268): OK is reported only for a step in which    *)
(* every node was processed once and none failed, an error only if a node,  *)
(* the device or the device context failed; and "the original error is      *)
(* exposed to users and not buried as a derived error" (executor.cc:1114):  *)
(* a derived error only if the cancellation came from somebody else.        *)
OutcomeCorrect ==
    /\ finish_calls <= 1 /\ Len(reported) <= 1
    /\ \A i \in DOMAIN reported :
          /\ reported[i] = "OK" => failed = {} /\ \A n \in GraphNodes : processed[n] = 1
          /\ reported[i] # "OK" => failed # {} \/ ~device_ok \/ finish_calls = 0
          /\ reported[i] = "DERIVED" => foreign_cancel

(* A step that fails or is stopped from outside ends: done is called, even *)
(* if kernels were waiting for what will never come.                       *)
StepEnds ==
    started /\ (status # "OK" \/ aborted \/ cancelled) ~> reported # <<>>

=============================================================================
