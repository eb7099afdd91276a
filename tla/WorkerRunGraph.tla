---------------------------- MODULE WorkerRunGraph ----------------------------
(***************************************************************************)
(* RunGraph on a worker, tensorflow/core/distributed_runtime/worker.cc,     *)
(* with the partial runs of partial_run_mgr.{h,cc}, the cancellation of the *)
(* call (call_options.cc) and the filter of RecentRequestIds.               *)
(*                                                                         *)
(* A step is either one RunGraph request or a partial run: the parts        *)
(* 1 .. NumParts, the last of them with is_last_partial_run.  The transport *)
(* may deliver a request a second time, while the id is among the last      *)
(* num_tracked_request_ids.  A request is <<step, part, copy>>.  What a     *)
(* request makes is known by the request: its cancellation manager and the  *)
(* executors that it starts.                                                *)
(*                                                                         *)
(* PartialRunMgr takes the 64 bits of a step id as an int (partial_run_     *)
(* mgr.h:53): runs are found by Narrow of the step, and two partial runs    *)
(* whose ids agree there share one.  A client that calls PRun for a handle  *)
(* one call after the other has the parts of its step sent in order; the    *)
(* master does not see to it (master_session.cc:1796-1832), so the parts of *)
(* the other steps are sent at any time.  The properties are about steps    *)
(* that are Regular, alone in their int and Serial, beside any other ones.  *)
(*                                                                         *)
(* The executor of a step is known by what it does to the others: it ends   *)
(* well when all inputs are there, or it fails, in which case the           *)
(* ExecutorBarrier aborts the rendezvous of the step before it calls done.  *)
(* CleanupGraph takes the rendezvous out of the table, and who asks for it  *)
(* later gets a new one: `gen' counts them.  cancellation_manager_ of the   *)
(* worker is never cancelled, so the callback that is registered there      *)
(* never runs and is left out.  Every part asks for at least one output.    *)
(***************************************************************************)
EXTENDS RecentRequestIds, Sequences, FiniteSets

CONSTANTS Steps,                  \* step ids, 1 .. n
          Partial,                \* those that are partial runs
          Serial,                 \* those whose client waits for each part
          NumParts,
          Redelivered,            \* ids of requests that may be delivered twice
          IntRange                \* how many values an int has

ASSUME StepsAssumption == Steps \subseteq Nat \ {0} /\ Partial \subseteq Steps
ASSUME PartsAssumption == NumParts \in Nat \ {0}
ASSUME IntAssumption == IntRange \in Nat \ {0}

VARIABLES rpc,                    \* the requests
          run,                    \* step_id_to_partial_run_
          cm,                     \* the cancellation manager a request made
          exec,                   \* the executors a request started
          rendezvous,             \* that of a step
          erasing,                \* calls of done after which the run is erased
          starts, answers         \* history: executions of a step, calls of done

stepVars == <<run, cm, exec, rendezvous, erasing, starts>>
vars == <<recentVars, rpc, stepVars, answers>>

LastPart(s) == IF s \in Partial THEN NumParts ELSE 1
IdOf(r) == (r[1] - 1) * NumParts + r[2]
Requests == {r \in Steps \X (1 .. NumParts) \X (1 .. 2) :
                 r[2] <= LastPart(r[1]) /\ (r[3] = 2 => IdOf(r) \in Redelivered)}
IsLast(r) == r[2] = LastPart(r[1])

ASSUME IdsAssumption == \A r \in Requests : IdOf(r) \in RequestIds

\* int step_id
Narrow(s) == s % IntRange
Ints == {Narrow(s) : s \in Steps}

NoRun == [exists |-> FALSE]
NoCallback == <<>>

Init ==
    /\ RecentInit
    /\ rpc = [r \in Requests |-> [pc |-> "unsent", status |-> "OK", cancel_func |-> FALSE,
                                  cancelled |-> FALSE, abort |-> {}, cm |-> r, gen |-> 0]]
    /\ run = [i \in Ints |-> NoRun]
    /\ cm = [r \in Requests |-> "none"]
    /\ exec = [r \in Requests |-> [pc |-> "none", status |-> "OK", callback |-> NoCallback, gen |-> 0]]
    /\ rendezvous = [s \in Steps |-> [gen |-> 0, inputs |-> {}, aborted |-> FALSE]]
    /\ erasing = {}
    /\ starts = [s \in Steps |-> 0]
    /\ answers = [r \in Requests |-> 0]

Goto(r, pc) == rpc' = [rpc EXCEPT ![r].pc = pc]

\* done(status)
Answer(r, status) == /\ rpc' = [rpc EXCEPT ![r].pc = "answered", ![r].status = status,
                                           ![r].cancel_func = FALSE]
                     /\ answers' = [answers EXCEPT ![r] = @ + 1]

\* The rendezvous of s with number gen is aborted: one that is out of the table is.
Aborted(s, gen) == gen # rendezvous[s].gen \/ rendezvous[s].aborted

\* StartAbort on it.
StartAbort(s, gen) ==
    rendezvous' = [rendezvous EXCEPT ![s].aborted = @ \/ gen = rendezvous[s].gen]

-----------------------------------------------------------------------------
(* The master and the transport                                            *)

AnsweredOK(r) == rpc[r].pc = "answered" /\ rpc[r].status = "OK"

\* The master sends a part; those of a serial step after the parts before it
\* have been answered OK, their calls not having been cancelled.
Sent(r) == /\ r[3] = 1
           /\ r[1] \in Serial => \A k \in 1 .. (r[2] - 1) :
                                     LET q == <<r[1], k, 1>> IN AnsweredOK(q) /\ ~rpc[q].cancelled

\* The transport delivers a request again, soon enough.
Repeated(r) == r[3] = 2 /\ Recent(IdOf(r))

\* The call is cancelled: CallOptions::StartCancel runs the cancel callback with
\* mu_ held, so that ClearCancelCallback waits for it; it cancels the manager,
\* and AbortStep finds the rendezvous that it aborts later.  Before
\* SetCancelCallback there is nothing to run, and the worker does not notice.
Cancel(r) ==
    /\ rpc[r].pc \notin {"unsent", "answered"}
    /\ ~rpc[r].cancelled
    /\ rpc' = [rpc EXCEPT ![r].cancelled = TRUE,
                          ![r].abort = IF rpc[r].cancel_func THEN {rendezvous[r[1]].gen} ELSE {}]
    /\ cm' = [cm EXCEPT ![rpc[r].cm] = CASE ~rpc[r].cancel_func -> @
                                         [] rpc[r].cancel_func /\ @ = "freed" -> "used after free"
                                         [] OTHER -> "cancelled"]
    /\ UNCHANGED <<recentVars, run, exec, rendezvous, erasing, starts, answers>>

\* The closure of AbortStep, which runs a second later.
AbortStep(r) ==
    \E gen \in rpc[r].abort :
        /\ rpc' = [rpc EXCEPT ![r].abort = {}]
        /\ StartAbort(r[1], gen)
        /\ UNCHANGED <<recentVars, run, cm, exec, erasing, starts, answers>>

\* The step is over for the master: a part is answered with an error, or is the
\* last, or its call was cancelled, which the master takes for an answer.
StepOver(s) == \E r \in Requests :
                  /\ r[1] = s /\ r[3] = 1
                  /\ \/ rpc[r].cancelled
                     \/ rpc[r].pc = "answered" /\ (rpc[r].status # "OK" \/ IsLast(r))

\* CleanupGraph, once: the rendezvous is aborted and leaves the table.
CleanupGraph(s) ==
    /\ StepOver(s)
    /\ rendezvous[s].gen = 0
    /\ rendezvous' = [rendezvous EXCEPT ![s].gen = 1, ![s].aborted = FALSE]
    /\ UNCHANGED <<recentVars, rpc, run, cm, exec, erasing, starts, answers>>

-----------------------------------------------------------------------------
(* The handler                                                             *)

\* A request arrives, and TrackUnique is the first thing that happens.
Track(r) ==
    /\ rpc[r].pc = "unsent"
    /\ Sent(r) \/ Repeated(r)
    /\ \/ InsertNew(IdOf(r)) /\ Goto(r, "admitted") /\ UNCHANGED answers
       \/ InsertSeen(IdOf(r)) /\ Answer(r, "Duplicate")
    /\ UNCHANGED stepVars

\* WorkerSessionForSession or PrepareRunGraph fails.
Reject(r) ==
    /\ rpc[r].pc = "admitted"
    /\ Answer(r, "Invalid")
    /\ UNCHANGED <<recentVars, stepVars>>

\* DoRunGraph up to ExecuteAsync.
RunGraph(r) ==
    /\ rpc[r].pc = "admitted"
    /\ r[1] \notin Partial
    /\ cm' = [cm EXCEPT ![r] = "live"]
    /\ rpc' = [rpc EXCEPT ![r].pc = "execute", ![r].cancel_func = TRUE]
    /\ UNCHANGED <<recentVars, run, exec, rendezvous, erasing, starts, answers>>

\* DoPartialRunGraph: FindOrCreate under mu_ of the PartialRunMgr.
FindOrCreate(r) ==
    LET i == Narrow(r[1])
    IN /\ rpc[r].pc = "admitted"
       /\ r[1] \in Partial
       /\ IF run[i].exists
          THEN rpc' = [rpc EXCEPT ![r].pc = "found", ![r].cm = run[i].cm] /\ UNCHANGED <<run, cm>>
          ELSE /\ run' = [run EXCEPT ![i] = [exists |-> TRUE, cm |-> r, executor_done |-> FALSE,
                                             final_callback |-> NoCallback, final_status |-> "OK"]]
               /\ cm' = [cm EXCEPT ![r] = "live"]
               /\ Goto(r, "created")
       /\ UNCHANGED <<recentVars, exec, rendezvous, erasing, starts, answers>>

SetCancelCallback(r) ==
    /\ rpc[r].pc \in {"found", "created"}
    /\ rpc' = [rpc EXCEPT ![r].pc = IF @ = "created" THEN "execute" ELSE "send_inputs",
                          ![r].cancel_func = TRUE]
    /\ UNCHANGED <<recentVars, stepVars, answers>>

AfterExecute(r) == IF r[1] \in Partial THEN "receive" ELSE "executing"

\* ExecuteAsync sends the inputs and starts the executors.
ExecuteAsync(r) ==
    LET s == r[1]
    IN /\ rpc[r].pc = "execute"
       /\ ~rendezvous[s].aborted
       /\ exec' = [exec EXCEPT ![r] = [pc |-> "running", status |-> "OK", callback |-> NoCallback,
                                       gen |-> rendezvous[s].gen]]
       /\ rendezvous' = [rendezvous EXCEPT ![s].inputs = @ \cup {<<rendezvous[s].gen, r[2]>>}]
       /\ starts' = [starts EXCEPT ![s] = @ + 1]
       /\ Goto(r, AfterExecute(r))
       /\ UNCHANGED <<recentVars, run, cm, erasing, answers>>

\* ExecuteAsync fails, because the graph is not known or the rendezvous is
\* aborted, and calls its done callback itself.
ExecuteFails(r) ==
    /\ rpc[r].pc = "execute"
    /\ exec' = [exec EXCEPT ![r] = [pc |-> "ended", status |-> "NotExecuted", callback |-> NoCallback,
                                    gen |-> rendezvous[r[1]].gen]]
    /\ Goto(r, AfterExecute(r))
    /\ UNCHANGED <<recentVars, run, cm, rendezvous, erasing, starts, answers>>

SendInputs(r) ==
    /\ rpc[r].pc = "send_inputs"
    /\ IF rendezvous[r[1]].aborted
       THEN Answer(r, "NotSent") /\ UNCHANGED rendezvous
       ELSE /\ rendezvous' = [rendezvous EXCEPT ![r[1]].inputs =
                                @ \cup {<<rendezvous[r[1]].gen, r[2]>>}]
            /\ Goto(r, "receive")
            /\ UNCHANGED answers
    /\ UNCHANGED <<recentVars, run, cm, exec, erasing, starts>>

\* RecvOutputsAsync looks for the rendezvous once more.
RecvOutputsAsync(r) ==
    /\ rpc[r].pc = "receive"
    /\ rpc' = [rpc EXCEPT ![r].pc = "receiving", ![r].gen = rendezvous[r[1]].gen]
    /\ UNCHANGED <<recentVars, stepVars, answers>>

\* Status::Update
Update(status, new) == IF status = "OK" THEN new ELSE status

\* Mutant: the last part always leaves its callback to the executor.
ExecutorDoneFor_Never(i) == FALSE

ExecutorDoneFor(i) == run[i].executor_done

\* PartialRunDone under mu_; without a run it returns and nobody is answered.
PartialRunDone(r, status) ==
    LET i == Narrow(r[1])
        final == Update(run[i].final_status, status)
    IN IF ~run[i].exists THEN Goto(r, "dropped") /\ UNCHANGED run
       ELSE IF ExecutorDoneFor(i)
       THEN /\ run' = [run EXCEPT ![i].final_status = final]
            /\ rpc' = [rpc EXCEPT ![r].pc = "finishing", ![r].status = final]
       ELSE /\ run' = [run EXCEPT ![i].final_status = final, ![i].final_callback = r]
            /\ Goto(r, "waiting")

\* Executors of the step were started with the rendezvous of r.
Executing(r) == \E x \in Requests : /\ x[1] = r[1] /\ exec[x].pc # "none"
                                    /\ exec[x].status # "NotExecuted" /\ exec[x].gen = rpc[r].gen

\* The callback of RecvOutputsAsync: all outputs of the part have been sent, be
\* it by an executor that fails afterwards, or the rendezvous is aborted.
Received(r, status) ==
    /\ rpc[r].pc = "receiving"
    /\ \/ status = "OK" /\ Executing(r)
       \/ status = "Aborted" /\ Aborted(r[1], rpc[r].gen)
    /\ IF IsLast(r)
       THEN PartialRunDone(r, status) /\ UNCHANGED answers
       ELSE Answer(r, status) /\ UNCHANGED run
    /\ UNCHANGED <<recentVars, cm, exec, rendezvous, erasing, starts>>

\* PartialRunDone: finish, which clears the cancel callback, outside of mu_.
Finish(r) ==
    /\ rpc[r].pc = "finishing"
    /\ Answer(r, rpc[r].status)
    /\ erasing' = erasing \cup {r}
    /\ UNCHANGED <<recentVars, run, cm, exec, rendezvous, starts>>

-----------------------------------------------------------------------------
(* The executors that x started                                            *)

Inputs(x) == {k \in 1 .. NumParts : <<exec[x].gen, k>> \in rendezvous[x[1]].inputs}

\* The executors are done: well, or with an error after which the barrier has
\* aborted the rendezvous.
ExecutorEnds(x) ==
    /\ exec[x].pc = "running"
    /\ Inputs(x) = 1 .. LastPart(x[1])
    /\ exec' = [exec EXCEPT ![x].pc = "ended"]
    /\ UNCHANGED <<recentVars, rpc, run, cm, rendezvous, erasing, starts, answers>>

ExecutorFails(x) ==
    /\ exec[x].pc = "running"
    /\ exec' = [exec EXCEPT ![x].pc = "ended", ![x].status = "ExecutorError"]
    /\ StartAbort(x[1], exec[x].gen)
    /\ UNCHANGED <<recentVars, rpc, run, cm, erasing, starts, answers>>

\* Mutant: the first error is kept.
FinalStatus_First(x) == Update(run[Narrow(x[1])].final_status, exec[x].status)

\* A status of the executor that is not OK takes precedence.
FinalStatus(x) == IF exec[x].status = "OK" THEN run[Narrow(x[1])].final_status ELSE exec[x].status

\* ExecutorDone under mu_.
ExecutorDone(x) ==
    LET i == Narrow(x[1])
    IN /\ exec[x].pc = "ended"
       /\ x[1] \in Partial
       /\ IF run[i].exists
          THEN /\ run' = [run EXCEPT ![i].executor_done = TRUE, ![i].final_status = FinalStatus(x),
                                     ![i].final_callback = NoCallback]
               /\ exec' = [exec EXCEPT ![x].callback = run[i].final_callback,
                                       ![x].pc = IF run[i].final_callback = NoCallback
                                                 THEN "done" ELSE "callback"]
               /\ rpc' = [r \in Requests |-> IF r = run[i].final_callback
                                             THEN [rpc[r] EXCEPT !.status = FinalStatus(x)]
                                             ELSE rpc[r]]
          ELSE exec' = [exec EXCEPT ![x].pc = "done"] /\ UNCHANGED <<run, rpc>>
       /\ UNCHANGED <<recentVars, cm, rendezvous, erasing, starts, answers>>

\* ExecutorDone: finish of the last part, outside of mu_.
ExecutorFinish(x) ==
    /\ exec[x].pc = "callback"
    /\ LET r == exec[x].callback IN Answer(r, rpc[r].status) /\ erasing' = erasing \cup {r}
    /\ exec' = [exec EXCEPT ![x].pc = "done"]
    /\ UNCHANGED <<recentVars, run, cm, rendezvous, starts>>

\* Mutant: the run is erased with the callback still to be called.
Erasable_Early(r) == r \in erasing \/ \E x \in Requests : exec[x].pc = "callback" /\ exec[x].callback = r

Erasable(r) == r \in erasing

\* ExecutorDone and PartialRunDone, after done of r: the run goes, and its
\* manager with it.
Erase(r) ==
    LET i == Narrow(r[1])
    IN /\ Erasable(r)
       /\ run' = [run EXCEPT ![i] = NoRun]
       /\ cm' = [q \in Requests |-> IF run[i].exists /\ q = run[i].cm THEN "freed" ELSE cm[q]]
       /\ erasing' = erasing \ {r}
       /\ UNCHANGED <<recentVars, rpc, exec, rendezvous, starts, answers>>

\* The done callback of DoRunGraph: RecvOutputs, which looks for the rendezvous,
\* then ClearCancelCallback.
RunGraphDone(r) ==
    /\ rpc[r].pc = "executing"
    /\ exec[r].pc = "ended"
    /\ \E status \in {"OK", "Aborted", "NotExecuted", "ExecutorError"} :
          /\ \/ status = exec[r].status /\ status # "OK"
             \/ exec[r].status = "OK" /\ status = "Aborted" /\ rendezvous[r[1]].aborted
             \/ exec[r].status = "OK" /\ status = "OK" /\ ~Aborted(r[1], exec[r].gen)
          /\ rpc' = [rpc EXCEPT ![r].pc = "cleared", ![r].cancel_func = FALSE, ![r].status = status]
    /\ UNCHANGED <<recentVars, stepVars, answers>>

\* Then the manager is deleted and the call is answered.
RunGraphAnswer(r) ==
    /\ rpc[r].pc = "cleared"
    /\ cm' = [cm EXCEPT ![r] = "freed"]
    /\ exec' = [exec EXCEPT ![r].pc = "done"]
    /\ Answer(r, rpc[r].status)
    /\ UNCHANGED <<recentVars, run, rendezvous, erasing, starts>>

Handler(r) == \/ Reject(r) \/ RunGraph(r) \/ FindOrCreate(r) \/ SetCancelCallback(r)
              \/ ExecuteAsync(r) \/ ExecuteFails(r) \/ SendInputs(r) \/ RecvOutputsAsync(r)
              \/ \E status \in {"OK", "Aborted"} : Received(r, status)
              \/ Finish(r) \/ RunGraphDone(r) \/ RunGraphAnswer(r)

AfterExecutor(x) == ExecutorDone(x) \/ ExecutorFinish(x) \/ Erase(x)

Next == \/ \E r \in Requests : \/ Track(r) \/ Cancel(r) \/ AbortStep(r) \/ Handler(r)
                               \/ ExecutorEnds(r) \/ ExecutorFails(r) \/ AfterExecutor(r)
        \/ \E s \in Steps : CleanupGraph(s)

Spec == Init /\ [][Next]_vars

\* The executors that x started cannot go on.
Stopped(x) == Aborted(x[1], exec[x].gen) \/ cm[x] = "cancelled"

\* The threads of the worker and the delayed closure of AbortStep run; the
\* executors of a step end once they have all their inputs, or are stopped.  No
\* step is taken twice, so it is enough that they do not all stand still.
Progress(r) == \/ Handler(r) \/ AbortStep(r) \/ AfterExecutor(r)
               \/ ExecutorEnds(r) \/ (Stopped(r) /\ ExecutorFails(r))

FairSpec == Spec /\ WF_vars(\E r \in Requests : Progress(r))

-----------------------------------------------------------------------------
(* Properties                                                              *)

\* No other partial run has the same int, and the parts come in order.
Regular(s) == /\ s \in Serial
              /\ \A t \in Partial \ {s} : Narrow(t) # Narrow(s)

\* partial_run_mgr.h:42 - the part with is_last_partial_run is answered when the
\* executor is done as well, whichever of ExecutorDone and PartialRunDone comes
\* first, and an error of the executor takes precedence over its own status.
LastAfterExecutor ==
    \A r \in Requests :
        /\ Regular(r[1]) /\ IsLast(r) /\ rpc[r].pc = "answered"
        /\ rpc[r].status \in {"OK", "Aborted", "NotExecuted", "ExecutorError"}
        => \E x \in Requests : /\ x[1] = r[1] /\ exec[x].pc = "done"
                               /\ exec[x].status # "OK" => rpc[r].status = exec[x].status

\* worker.cc:301 - the cancel callback of a call holds a bare pointer to the
\* manager of its step.  Whichever thread erases the partial run, or deletes
\* the manager, a later cancellation of the call no longer uses it.
NoUseAfterFree == \A r \in Requests : Regular(r[1]) => cm[r] # "used after free"

\* worker.cc:166, :265 - a request that is delivered twice does not start a step a
\* second time, and each call is answered at most once, although
\* ExecutorDone, PartialRunDone and the handler all hold its done callback.
AtMostOnce == \A r \in Requests : Regular(r[1]) => starts[r[1]] <= 1 /\ answers[r] <= 1

\* The executors of the step were not started: RecvOutputsAsync then waits for
\* the cancellation of the call, for nobody aborts the rendezvous.
NeverStarted(s) == \E x \in Requests : x[1] = s /\ exec[x].status = "NotExecuted"

\* CleanupGraph came before r looked for the rendezvous of its outputs, so it
\* waits on a new one.  The call was cancelled: nobody waits for the answer.
Stranded(r) == rendezvous[r[1]].gen = 1 /\ (rpc[r].gen = 1 \/ rpc[r].pc = "executing")

\* worker.cc:330, partial_run_mgr.cc:40 - every call is answered, also a last part
\* whose executor ends at the same time, and one that is cancelled.
RequestsEnd ==
    \A r \in Requests :
        Regular(r[1]) /\ r[3] = 1 =>
            (rpc[r].pc = "admitted" ~> (rpc[r].pc = "answered" \/ NeverStarted(r[1]) \/ Stranded(r)))
=============================================================================
