--------------------------- MODULE PropagatorState ---------------------------
(***************************************************************************)
(* PropagatorState, tensorflow/core/common_runtime/propagator_state.{h,cc}: *)
(* which nodes of a graph with loops and conditionals are ready, in which    *)
(* iteration of which frame, and when iterations and frames are freed.      *)
(*                                                                         *)
(* A task is one call of NodeDone / PropagateOutputs by a thread of the     *)
(* executor for a tagged node.  One action is one critical section of the   *)
(* frame or executor mutex, with the code up to the next one; sections that *)
(* only share the lock commute and are one step each.  A task keeps the     *)
(* nodes it made ready to itself until it returns.                          *)
(*                                                                         *)
(* Tensors are abstracted to being there or dead (NO_VALUE).  The predicate *)
(* p of a Switch holds in the iterations before trips[p].  Frame ids are    *)
(* the paths they are hashed from; two threads that run one node in one     *)
(* iteration of one frame are one and the same task.                        *)
(***************************************************************************)
EXTENDS Integers, Sequences, FiniteSets, FiniteSetsExt

CONSTANTS
    Graphs,   \* kind, frame, data, control; into, parallel; pred
    Trips     \* the possible outcomes of the predicates

VARIABLES
    graph, trips,
    frames,          \* outstanding_frames_, and what they hold
    tasks,
    executed         \* history: how often each node ran with live inputs

vars == <<graph, trips, frames, tasks, executed>>

-----------------------------------------------------------------------------
(* The graph, ImmutableExecutorState.                                      *)

Nodes == DOMAIN graph.kind
Is(n, kind) == graph.kind[n] = kind
IsEnter(n) == graph.kind[n] \in {"enter", "constant_enter"}
DataFrom(n) == {e \in graph.data : e.src = n}
DataInto(n) == {e \in graph.data : e.dst = n}
ControlFrom(n) == {e \in graph.control : e.src = n}
ControlInto(n) == {e \in graph.control : e.dst = n}
Roots == {n \in Nodes : DataInto(n) \cup ControlInto(n) = {}}

\* input_count of the frame: the Enter nodes into it.
InputCount(name) == Cardinality({n \in Nodes : IsEnter(n) /\ graph.into[n] = name})

\* is_any_consumer_merge_or_control_trigger
SlowPath(n) == \E e \in DataFrom(n) \cup ControlFrom(n) : graph.kind[e.dst] \in {"merge", "trigger"}

\* GetMaxPendingCounts
InitialPending(n) == IF Is(n, "merge") THEN 1 + 2 * Cardinality(ControlInto(n))
                     ELSE Cardinality(DataInto(n)) + Cardinality(ControlInto(n))

-----------------------------------------------------------------------------
(* Frames and iterations                                                   *)

NoIteration == [iter_num |-> -1]

NewIteration(name, i) ==
    [iter_num |-> i, outstanding_ops |-> 0, outstanding_frame_count |-> 0,
     counts |-> [n \in {m \in Nodes : graph.frame[m] = name} |->
                   [pending |-> InitialPending(n), dead |-> 0]]]

NewFrame(name, parallel) ==
    [name |-> name, max_parallel_iterations |-> parallel, num_pending_inputs |-> InputCount(name),
     iteration_count |-> 0, num_outstanding_iterations |-> 1,
     iterations |-> [k \in 0 .. parallel |-> IF k = 0 THEN NewIteration(name, 0) ELSE NoIteration],
     next_iter_roots |-> {}, inv_values |-> {}, dead_exits |-> {}]

RootFrame == <<>>
ChildFrame(f, i, name) == f \o <<i, name>>
ParentFrame(f) == SubSeq(f, 1, Len(f) - 2)
ParentIter(f) == f[Len(f) - 1]

Slot(fr, i) == i % (fr.max_parallel_iterations + 1)

GetIteration(fr, i) == fr.iterations[Slot(fr, i)]
SetIteration(fr, i, iter) == [fr EXCEPT !.iterations[Slot(fr, i)] = iter]

\* Mutant: the child frames of the iteration are forgotten.
IsIterationDone_NoFrames(fr, i) ==
    /\ GetIteration(fr, i).outstanding_ops = 0
    /\ IF i = 0 THEN fr.num_pending_inputs = 0 ELSE GetIteration(fr, i - 1) = NoIteration

IsIterationDone(fr, i) ==
    /\ GetIteration(fr, i).outstanding_ops = 0
    /\ GetIteration(fr, i).outstanding_frame_count = 0
    /\ IF i = 0 THEN fr.num_pending_inputs = 0 ELSE GetIteration(fr, i - 1) = NoIteration

IsFrameDone(fr) == fr.num_pending_inputs = 0 /\ fr.num_outstanding_iterations = 0

-----------------------------------------------------------------------------
(* ActivateNodes: what an edge does to the counts of its destination, and    *)
(* whether that is ready now, and dead.                                    *)

\* increment_dead_count does nothing when nothing is pending.
IncrementDead(c) == IF c.pending = 0 THEN c ELSE [c EXCEPT !.dead = @ + 1]

AdjustForActivation(c, dead) ==
    LET new == [(IF dead THEN IncrementDead(c) ELSE c) EXCEPT !.pending = @ - 1]
    IN [counts |-> new, ready |-> new.pending = 0, dead |-> new.dead > 0]

AllDead(c, n) == c.dead = Cardinality(DataInto(n))

\* mark_live clears the lowest bit of pending.
LiveIntoMerge(c) ==
    [counts |-> [c EXCEPT !.pending = @ - (@ % 2)], ready |-> c.pending = 1, dead |-> FALSE]

\* Mutant: a dead Enter waits for the other input of the Merge.
DeadIntoMerge_WaitsForNext(c, src, dst) ==
    LET new == IncrementDead(c)
    IN [counts |-> new, ready |-> new.pending = 1 /\ AllDead(new, dst), dead |-> AllDead(new, dst)]

DeadIntoMerge(c, src, dst) ==
    LET new == IncrementDead(c)
        dead == AllDead(new, dst) \/ IsEnter(src)
    IN [counts |-> new, ready |-> new.pending = 1 /\ dead, dead |-> dead]

ControlIntoMerge(c, dst) ==
    LET new == [c EXCEPT !.pending = @ - 2]
    IN [counts |-> new, ready |-> new.pending = 0 \/ (new.pending = 1 /\ AllDead(new, dst)),
        dead |-> AllDead(new, dst)]

DataEdge(c, e, live) ==
    IF ~Is(e.dst, "merge") THEN AdjustForActivation(c, ~live)
    ELSE IF live THEN LiveIntoMerge(c) ELSE DeadIntoMerge(c, e.src, e.dst)

ControlEdge(c, e, live) ==
    IF Is(e.dst, "merge") THEN ControlIntoMerge(c, e.dst) ELSE AdjustForActivation(c, ~live)

(* The state that the functions below pass on: the frames, the tagged nodes  *)
(* in `ready', and whether the frame is done, as the last one returned.     *)
Tagged(n, f, i, dead) == [node |-> n, frame |-> f, iter |-> i,
                          dead |-> dead /\ ~Is(n, "trigger")]

Iteration(S, f, i) == GetIteration(S.frames[f], i)

Follow(S, f, i, e, result) ==
    [S EXCEPT !.frames[f].iterations[Slot(S.frames[f], i)].counts[e.dst] = result.counts,
              !.ready = IF result.ready THEN @ \cup {Tagged(e.dst, f, i, result.dead)} ELSE @]

\* live: the output slots of n that hold a value.
ActivateNodes(S, f, i, n, live) ==
    LET Data(e, T) == Follow(T, f, i, e, DataEdge(Iteration(T, f, i).counts[e.dst], e, e.slot \in live))
        Control(e, T) == Follow(T, f, i, e, ControlEdge(Iteration(T, f, i).counts[e.dst], e, live # {}))
    IN FoldSet(Control, FoldSet(Data, S, DataFrom(n)), ControlFrom(n))

Activated(S, T) == Cardinality(T.ready) - Cardinality(S.ready)

-----------------------------------------------------------------------------
(* AdjustOutstandingOpsLocked, CleanupIterations and IncrementIteration      *)

RECURSIVE AdjustOutstandingOpsLocked(_, _, _, _), CleanupIterations(_, _, _),
          IncrementIteration(_, _)

AddOps(S, f, i, delta) ==
    [S EXCEPT !.frames[f].iterations[Slot(S.frames[f], i)].outstanding_ops = @ + delta]

AdjustOutstandingOpsLocked(S, f, i, delta) ==
    LET T == AddOps(S, f, i, delta)
    IN IF Iteration(T, f, i).outstanding_ops # 0 THEN [T EXCEPT !.done = FALSE]
       ELSE CleanupIterations(T, f, i)

ActivateAndAdjust(S, f, i, n, live) ==
    LET T == ActivateNodes(S, f, i, n, live)
    IN AdjustOutstandingOpsLocked(T, f, i, Activated(S, T))

DeleteIteration(fr, i) ==
    [SetIteration(fr, i, NoIteration) EXCEPT !.num_outstanding_iterations = @ - 1]

\* Deletes the iterations that are done, from i on, and starts a deferred one
\* for each.
CleanupIterations(S, f, i) ==
    LET fr == S.frames[f]
        T == [S EXCEPT !.frames[f] = DeleteIteration(fr, i)]
        U == IF fr.next_iter_roots = {} THEN T ELSE IncrementIteration(T, f)
    IN IF i <= fr.iteration_count /\ IsIterationDone(fr, i)
       THEN CleanupIterations(U, f, i + 1)
       ELSE [S EXCEPT !.done = IsFrameDone(fr)]

StartIteration(fr) ==
    LET i == fr.iteration_count + 1
    IN [SetIteration(fr, i, NewIteration(fr.name, i)) EXCEPT
          !.iteration_count = i, !.num_outstanding_iterations = @ + 1, !.next_iter_roots = {},
          !.dead_exits = {}]

\* ActivateNexts with the deferred roots, then ActivateLoopInvs.
IncrementIteration(S, f) ==
    LET i == S.frames[f].iteration_count + 1
        T == [S EXCEPT !.frames[f] = StartIteration(S.frames[f])]
        Next(n, X) == ActivateNodes(X, f, i, n, {0})
        U == FoldSet(Next, T, S.frames[f].next_iter_roots)
        V == AdjustOutstandingOpsLocked(U, f, i, Activated(T, U))
        Inv(v, X) == ActivateNodes(X, f, i, v.node, v.live)
        W == FoldSet(Inv, V, S.frames[f].inv_values)
    IN AdjustOutstandingOpsLocked(W, f, i, Activated(V, W))

\* AddLoopInv: the value goes to all iterations so far.
AddLoopInv(S, f, n, live) ==
    LET One(i, X) == ActivateAndAdjust(X, f, i, n, live)
    IN FoldSet(One, [S EXCEPT !.frames[f].inv_values = @ \cup {[node |-> n, live |-> live]}],
               0 .. S.frames[f].iteration_count)

-----------------------------------------------------------------------------
(* Tasks                                                                   *)

\* A node that was handed to the executor.  (frame, iter) is what the task works
\* on, up the frames when they are done.
NewTask(r) == [tag |-> r, pc |-> "run", frame |-> r.frame, iter |-> r.iter, ready |-> {}]

\* The output slots with a value, once the kernel has run.
LiveOutputs(r) == CASE r.dead -> {}
                    [] Is(r.node, "switch") -> {IF r.iter < trips[graph.pred[r.node]] THEN 1 ELSE 0}
                    [] OTHER -> {0}

State(t) == [frames |-> frames, ready |-> t.ready, done |-> FALSE]

Run(t) == /\ t.pc = "run"
          /\ executed' = IF t.tag.dead THEN executed ELSE [executed EXCEPT ![t.tag.node] = @ + 1]

\* The task goes on at pc, or has returned, and the nodes it made ready start.
Continue(t, S, pc) ==
    /\ frames' = S.frames
    /\ tasks' = IF pc = "done" THEN (tasks \ {t}) \cup {NewTask(r) : r \in S.ready}
                ELSE (tasks \ {t}) \cup {[t EXCEPT !.pc = pc, !.ready = S.ready]}
    /\ UNCHANGED <<graph, trips>>

AfterAdjust(S) == IF S.done THEN "delete" ELSE "done"

\* AdjustOutstandingOpsFastPath: the frame lock is shared, so an iteration that is
\* done has to be cleaned up under the exclusive lock, in a step of its own.
FastPath(t, S, delta) ==
    LET T == AddOps(S, t.frame, t.iter, delta)
    IN Continue(t, T, IF Iteration(T, t.frame, t.iter).outstanding_ops = 0
                         /\ IsIterationDone(T.frames[t.frame], t.iter)
                      THEN "cleanup" ELSE "done")

\* PropagateOutputs of a node that is no Enter, Exit or NextIteration.
PropagateFast(t) ==
    LET T == ActivateNodes(State(t), t.frame, t.iter, t.tag.node, LiveOutputs(t.tag))
    IN /\ Run(t)
       /\ graph.kind[t.tag.node] \in {"op", "switch", "merge", "trigger"}
       /\ ~SlowPath(t.tag.node)
       /\ FastPath(t, T, Activated(State(t), T) - 1)

PropagateSlow(t) ==
    LET T == ActivateNodes(State(t), t.frame, t.iter, t.tag.node, LiveOutputs(t.tag))
        U == AdjustOutstandingOpsLocked(T, t.frame, t.iter, Activated(State(t), T) - 1)
    IN /\ Run(t)
       /\ graph.kind[t.tag.node] \in {"op", "switch", "merge", "trigger"}
       /\ SlowPath(t.tag.node)
       /\ Continue(t, U, AfterAdjust(U))

\* CleanupIterations under the exclusive lock, after the fast path.
Cleanup(t) ==
    LET T == CleanupIterations(State(t), t.frame, t.iter)
    IN /\ t.pc = "cleanup"
       /\ Continue(t, T, AfterAdjust(T))
       /\ UNCHANGED executed

\* The DecrementOutstandingOps of an Enter, or of an Exit.
Decrement(t) ==
    /\ t.pc = "decrement"
    /\ FastPath(t, State(t), -1)
    /\ UNCHANGED executed

Child(t) == ChildFrame(t.frame, t.iter, graph.into[t.tag.node])

\* FindOrCreateChildFrame under the shared lock.
FindFrame(t) ==
    /\ Run(t)
    /\ IsEnter(t.tag.node)
    /\ Continue(t, State(t), IF Child(t) \in DOMAIN frames THEN "enter" ELSE "create")

\* FindOrCreateChildFrame: the frame may be there by now.
CreateFrame(t) ==
    LET name == graph.into[t.tag.node]
        new == NewFrame(name, graph.parallel[name])
        F == [f \in DOMAIN frames \cup {Child(t)} |-> IF f = Child(t) THEN new ELSE frames[f]]
        S == [State(t) EXCEPT !.frames = F]
    IN /\ t.pc = "create"
       /\ IF Child(t) \in DOMAIN frames THEN Continue(t, State(t), "enter")
          ELSE Continue(t, [S EXCEPT !.frames[t.frame].iterations[Slot(S.frames[t.frame], t.iter)]
                                       .outstanding_frame_count = @ + 1], "enter")
       /\ UNCHANGED executed

\* The outputs of an Enter go to iteration 0, or as a loop invariant to all.
Enter(t) ==
    LET n == t.tag.node
        live == LiveOutputs(t.tag)
        T == IF Is(n, "constant_enter") THEN AddLoopInv(State(t), Child(t), n, live)
             ELSE ActivateAndAdjust(State(t), Child(t), 0, n, live)
    IN /\ t.pc = "enter"
       /\ Continue(t, [T EXCEPT !.frames[Child(t)].num_pending_inputs = @ - 1], "decrement")
       /\ UNCHANGED executed

\* A dead Exit is remembered if no later iteration has been started.
DeadExit(t) ==
    LET last == t.iter = frames[t.frame].iteration_count
        S == [State(t) EXCEPT !.frames[t.frame].dead_exits = IF last THEN @ \cup {t.tag.node} ELSE @]
        T == AdjustOutstandingOpsLocked(S, t.frame, t.iter, -1)
    IN /\ Run(t)
       /\ Is(t.tag.node, "exit") /\ t.tag.dead
       /\ Continue(t, T, AfterAdjust(T))

LiveExit(t) ==
    /\ Run(t)
    /\ Is(t.tag.node, "exit") /\ ~t.tag.dead
    /\ Continue(t, ActivateAndAdjust(State(t), ParentFrame(t.frame), ParentIter(t.frame),
                                     t.tag.node, {0}), "decrement")

\* NextIteration: stops when dead, waits in next_iter_roots when max_parallel_iterations
\* are outstanding, starts the next iteration or goes on to it.
NextIteration(t) ==
    LET S == State(t)
        fr == frames[t.frame]
        last == t.iter = fr.iteration_count
        T == CASE t.tag.dead -> S
               [] ~t.tag.dead /\ last /\ fr.num_outstanding_iterations = fr.max_parallel_iterations
                    -> [S EXCEPT !.frames[t.frame].next_iter_roots = @ \cup {t.tag.node}]
               [] OTHER -> ActivateAndAdjust(IF last THEN IncrementIteration(S, t.frame) ELSE S,
                                             t.frame, t.iter + 1, t.tag.node, {0})
        U == AdjustOutstandingOpsLocked(T, t.frame, t.iter, -1)
    IN /\ Run(t)
       /\ Is(t.tag.node, "next_iteration")
       /\ Continue(t, U, AfterAdjust(U))

\* Mutant: the nodes that the dead exits make ready are not counted.
CountReady_Not(S, T, f, i) == T

\* parent_iter_state->outstanding_ops++ for each node that becomes ready.
CountReady(S, T, f, i) == AddOps(T, f, i, Activated(S, T))

\* DeleteFrame: the dead exits go to the parent frame, whose lock is held, and the
\* frame, which nobody else uses any more, is erased and deleted.
DeleteFrame(t) ==
    LET f == t.frame
        p == ParentFrame(f)
        Dead(n, X) == ActivateNodes(X, p, ParentIter(f), n, {})
        T == FoldSet(Dead, State(t), frames[f].dead_exits)
        U == IF f = RootFrame THEN State(t) ELSE CountReady(State(t), T, p, ParentIter(f))
        V == [U EXCEPT !.frames = [g \in DOMAIN frames \ {f} |-> U.frames[g]]]
    IN /\ t.pc = "delete"
       /\ Continue(t, V, IF f = RootFrame THEN "done" ELSE "cleanup_parent")
       /\ UNCHANGED executed

\* CleanupFramesIterations: the parent iteration has one child frame less.
CleanupParent(t) ==
    LET p == ParentFrame(t.frame)
        i == ParentIter(t.frame)
        S == [State(t) EXCEPT !.frames[p].iterations[Slot(frames[p], i)].outstanding_frame_count = @ - 1]
        T == CleanupIterations(S, p, i)
    IN /\ t.pc = "cleanup_parent"
       /\ frames' = T.frames
       /\ tasks' = (tasks \ {t}) \cup
                     (IF T.done THEN {[t EXCEPT !.pc = "delete", !.frame = p, !.iter = i, !.ready = T.ready]}
                      ELSE {NewTask(r) : r \in T.ready})
       /\ UNCHANGED <<graph, trips, executed>>

\* The constructor and ActivateRoots.
Init ==
    /\ graph \in Graphs /\ trips \in Trips
    /\ frames = [f \in {RootFrame} |->
                   [NewFrame("root", 1) EXCEPT !.iterations[0].outstanding_ops = Cardinality(Roots)]]
    /\ tasks = {NewTask(Tagged(n, RootFrame, 0, FALSE)) : n \in Roots}
    /\ executed = [n \in Nodes |-> 0]

\* The step is over.
Finished == tasks = {} /\ UNCHANGED vars

Next == \/ \E t \in tasks : PropagateFast(t)
        \/ \E t \in tasks : PropagateSlow(t)
        \/ \E t \in tasks : Cleanup(t)
        \/ \E t \in tasks : Decrement(t)
        \/ \E t \in tasks : FindFrame(t)
        \/ \E t \in tasks : CreateFrame(t)
        \/ \E t \in tasks : Enter(t)
        \/ \E t \in tasks : DeadExit(t)
        \/ \E t \in tasks : LiveExit(t)
        \/ \E t \in tasks : NextIteration(t)
        \/ \E t \in tasks : DeleteFrame(t)
        \/ \E t \in tasks : CleanupParent(t)
        \/ Finished

Spec == Init /\ [][Next]_vars

-----------------------------------------------------------------------------
(* Properties                                                              *)

Alive(f, i) == f \in DOMAIN frames /\ GetIteration(frames[f], i).iter_num = i

\* propagator_state.h:210 - the frame and the iteration that a task, or a node that it
\* made ready, points to are not freed, nor is a child frame that an Enter has
\* found, nor the iteration that a frame was entered from, and the circular buffer
\* of iterations never gives the slot of one to another.
NoUseAfterFree ==
    /\ \A t \in tasks :
         /\ t.pc \in {"run", "create", "enter", "decrement", "cleanup"} => Alive(t.frame, t.iter)
         /\ t.pc = "enter" => Alive(Child(t), 0)
         /\ t.pc = "cleanup_parent" => Alive(ParentFrame(t.frame), ParentIter(t.frame))
         /\ \A r \in t.ready : Alive(r.frame, r.iter)
    /\ \A f \in DOMAIN frames \ {RootFrame} : Alive(ParentFrame(f), ParentIter(f))

\* The tasks that still count as an operation of iteration i of f, and the nodes
\* that will: an Exit or Enter counts until its decrement.
Counted(f, i) ==
    Cardinality({t \in tasks : t.pc \in {"run", "create", "enter", "decrement"}
                               /\ t.tag.frame = f /\ t.tag.iter = i})
      + Cardinality({<<t, r>> \in UNION {{t} \X t.ready : t \in tasks} : r.frame = f /\ r.iter = i})

Iterations(f) == {iter \in {frames[f].iterations[k] : k \in DOMAIN frames[f].iterations} :
                    iter # NoIteration}

\* A frame that is finished and leaves its iteration counted until CleanupParent.
Leaving(f, i) == {t \in tasks : t.pc = "cleanup_parent" /\ ParentFrame(t.frame) = f
                                /\ ParentIter(t.frame) = i}

\* propagator_state.cc:764, :778 - outstanding_ops is the number of nodes of the iteration
\* that are not done, outstanding_frame_count that of its child frames, and
\* num_outstanding_iterations that of the iterations, within the limit; and no node is
\* given more inputs than it has.
Accounting ==
    \A f \in DOMAIN frames :
        /\ Cardinality(Iterations(f)) = frames[f].num_outstanding_iterations
        /\ frames[f].num_outstanding_iterations <= frames[f].max_parallel_iterations
        /\ \A iter \in Iterations(f) :
             /\ iter.outstanding_ops = Counted(f, iter.iter_num)
             /\ iter.outstanding_frame_count =
                  Cardinality({g \in DOMAIN frames : g # RootFrame /\ ParentFrame(g) = f
                                                     /\ ParentIter(g) = iter.iter_num})
                    + Cardinality(Leaving(f, iter.iter_num))
             /\ \A n \in DOMAIN iter.counts : iter.counts[n].pending >= 0

\* propagator_state.h:201 - when nothing is left to do, every frame has been freed, and
\* each node has run with live inputs as often as the program that the graph
\* stands for would have run it, whatever the order of the threads.
RunsTheProgram ==
    tasks = {} => DOMAIN frames = {} /\ \A n \in Nodes : executed[n] = graph.runs[n][trips]
=============================================================================
