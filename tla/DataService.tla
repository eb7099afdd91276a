----------------------------- MODULE DataService -----------------------------
(***************************************************************************)
(* The tf.data service: a dispatcher in fault-tolerant mode that crashes    *)
(* and restarts, tensorflow/core/data/service/{dispatcher_impl,journal}.cc, *)
(* and the workers that report to it, worker_impl.cc, split_provider.cc.    *)
(*                                                                         *)
(* A handler of the dispatcher holds mu_ from its checks to its response,   *)
(* so one handler runs at a time: `op' is the handler that runs, with the   *)
(* updates it still has to apply.  Apply writes an update to the journal    *)
(* and then applies it to state_; the crash may come before any of them.    *)
(* The ids in the updates are those state_ has available when the handler   *)
(* starts: nobody else changes it before the handler is done.               *)
(*                                                                         *)
(* The journal only grows, and all that is ever done with it is to replay   *)
(* all of its files from the first record on: `journal' is the state which  *)
(* that replay gives.  A write that fails leaves its record in the journal  *)
(* or not (Flush and Sync come after WriteRecord), so a later record may    *)
(* repeat what is there: `readable' says that no record of the journal      *)
(* breaks a DCHECK of the replay.  Records are never torn.  A call that is  *)
(* lost in a crash of the dispatcher fails at the caller, which sends it    *)
(* again.                                                                   *)
(*                                                                         *)
(* History: `acked' is the replay of the records that state_ has had since  *)
(* the start, on top of what it started from, `given' lists the splits that *)
(* were sent to workers, `faults' what has happened besides: "crash",       *)
(* "write" (a failed write to the journal), "kept" (one that left its       *)
(* record there), "partial" (a handler of several updates that a fault cut  *)
(* short) and "gc" (a job was garbage collected).                           *)
(***************************************************************************)
EXTENDS DispatcherState, Sequences, SequencesExt

CONSTANTS Workers,                \* worker addresses
          Fingerprints,           \* dataset graphs
          JobRequests,            \* what clients ask of GetOrCreateJob
          NumSplits,              \* splits in one repetition of a dataset
          Repetitions,            \* how often the dataset repeats its source
          MaxJobs, MaxClients, MaxCrashes, MaxWriteFailures

ASSUME BoundsAssumption ==
    {NumSplits, Repetitions, MaxJobs, MaxClients, MaxCrashes, MaxWriteFailures} \subseteq Nat

ASSUME WorkersAssumption == IsFiniteSet(Workers)

VARIABLES started_, state_, journal, readable, dataset_store_, split_providers_, op,
          assigning, worker, acked, given, faults, crashes, failures

journalVars == <<journal, readable, acked>>
dispatcherVars == <<started_, state_, journalVars, dataset_store_, split_providers_, op, assigning>>
faultVars == <<faults, crashes, failures>>
vars == <<dispatcherVars, worker, given, faultVars>>

Idle == [handler |-> "none", todo |-> <<>>]

Init ==
    /\ started_ = TRUE
    /\ state_ = EmptyState
    /\ journal = EmptyState
    /\ readable = TRUE
    /\ acked = EmptyState
    /\ dataset_store_ = {}
    /\ split_providers_ = <<>>
    /\ op = Idle
    /\ assigning = {}
    /\ worker = [w \in Workers |-> [tasks |-> {}, repetition |-> <<>>, parallel |-> {},
                                    ended |-> {}, pending_completed |-> {}, heartbeat |-> Idle]]
    /\ given = <<>>
    /\ faults = {}
    /\ crashes = 0
    /\ failures = 0

-----------------------------------------------------------------------------
(* The dispatcher                                                          *)

\* Mutant: a request is handled before the journal has been replayed.
CanHandle_NotStarted == op = Idle

\* CheckStarted, and mu_ is free.
CanHandle == started_ /\ op = Idle

Handle(handler) == op' = handler

\* NamedJobByKey
NamedJob(key) == {j \in DOMAIN state_.jobs : key # NoKey /\ state_.jobs[j].named_job_key = key}

\* DatasetFromFingerprint
DatasetOf(fp) == {d \in DOMAIN state_.datasets_by_id : state_.datasets_by_id[d] = fp}

\* RegisterDataset: the definition goes to the store before the journal.  What
\* a request that failed has left there ends the next one in AlreadyExists.
RegisterDatasetRpc(fp) ==
    LET id == state_.next_available_dataset_id
    IN /\ <<id, fp>> \notin dataset_store_
       /\ dataset_store_' = dataset_store_ \cup {<<id, fp>>}
       /\ Handle([handler |-> "register_dataset", todo |->
                    <<[type |-> "register_dataset", fingerprint |-> fp, dataset_id |-> id]>>])

\* A request for a dataset that is known returns its id and changes nothing.
GetOrRegisterDataset(fp) ==
    /\ CanHandle
    /\ DatasetOf(fp) = {}
    /\ RegisterDatasetRpc(fp)
    /\ UNCHANGED <<started_, state_, journalVars, split_providers_, assigning, worker, given, faultVars>>

CreateTaskUpdate(task_id, job_id, w) ==
    [type |-> "create_task", task_id |-> task_id, job_id |-> job_id, worker_address |-> w]

AcquireUpdate(job_id) == [type |-> "acquire_job_client", job_id |-> job_id,
                          job_client_id |-> state_.next_available_job_client_id]

\* Mutant: all tasks get the id that was free when the job was created.
TasksForJob_SameId(job_id, order) ==
    [i \in 1 .. Len(order) |-> CreateTaskUpdate(state_.next_available_task_id, job_id, order[i])]

\* CreateTasksForJob: one task for each worker, in the order of a hash map.
TasksForJob(job_id, order) ==
    [i \in 1 .. Len(order) |-> CreateTaskUpdate(state_.next_available_task_id + i - 1, job_id, order[i])]

\* GetOrCreateJob when the key names a job; another processing mode is an error.
GetJob(r) ==
    /\ CanHandle
    /\ \E j \in NamedJob(r.key) :
          /\ state_.jobs[j].processing_mode = r.mode
          /\ state_.next_available_job_client_id <= MaxClients
          /\ Handle([handler |-> "get_job", todo |-> <<AcquireUpdate(j)>>])
    /\ UNCHANGED <<started_, state_, journalVars, dataset_store_, split_providers_, assigning,
                   worker, given, faultVars>>

\* MakeSplitProviders appends to the providers of the job: one that a failed
\* attempt has left stays, and stays the first.  The iterator of a dataset with
\* one source then refuses the two it is told of and asks for no splits; that it
\* may ask for those of the first adds behaviours and takes none away.
WithProvider(id) == IF id \in DOMAIN split_providers_ THEN split_providers_
                    ELSE Put(split_providers_, id, 0)

\* CreateJob of GetOrCreateJob.  The split provider is made before the update.
CreateJobRpc(r) ==
    /\ CanHandle
    /\ NamedJob(r.key) = {}
    /\ state_.next_available_job_id <= MaxJobs
    /\ state_.next_available_job_client_id <= MaxClients
    /\ \E d \in DatasetOf(r.fingerprint),
          order \in SetToSeqs(DOMAIN state_.tasks_by_worker) :
          LET id == state_.next_available_job_id
          IN /\ split_providers_' = IF r.mode = "DISTRIBUTED_EPOCH"
                                    THEN WithProvider(id) ELSE split_providers_
             /\ Handle([handler |-> "create_job", todo |->
                          <<[type |-> "create_job", job_id |-> id, dataset_id |-> d,
                             processing_mode |-> r.mode, named_job_key |-> r.key],
                            AcquireUpdate(id)>> \o TasksForJob(id, order)])
    /\ UNCHANGED <<started_, state_, journalVars, dataset_store_, assigning, worker, given, faultVars>>

\* ReleaseJobClient: an unknown id is an error.
ReleaseJobClientRpc(c) ==
    /\ CanHandle
    /\ c \in DOMAIN state_.jobs_for_client_ids
    /\ Handle([handler |-> "release_job_client",
               todo |-> <<[type |-> "release_job_client", job_client_id |-> c]>>])
    /\ UNCHANGED <<started_, state_, journalVars, dataset_store_, split_providers_, assigning,
                   worker, given, faultVars>>

\* CreateTasksForWorker: one task for each job that is not finished.
TasksForWorker(w, order) ==
    [i \in 1 .. Len(order) |-> CreateTaskUpdate(state_.next_available_task_id + i - 1, order[i], w)]

\* WorkerHeartbeat: a worker that is not known is registered first.
WorkerHeartbeat(w) ==
    /\ CanHandle
    /\ worker[w].heartbeat # Idle
    /\ IF w \in DOMAIN state_.tasks_by_worker
       THEN Handle([handler |-> "worker_heartbeat", worker |-> w, todo |-> <<>>])
       ELSE \E order \in SetToSeqs({j \in DOMAIN state_.jobs : ~state_.jobs[j].finished}) :
               Handle([handler |-> "worker_heartbeat", worker |-> w, todo |->
                         <<[type |-> "register_worker", worker_address |-> w]>> \o TasksForWorker(w, order)])
    /\ UNCHANGED <<started_, state_, journalVars, dataset_store_, split_providers_, assigning,
                   worker, given, faultVars>>

\* SendTaskUpdates calls WorkerUpdate: completions of tasks that are already finished are skipped,
\* one of an unknown task would end the request with an error.
WorkerUpdate(w) ==
    LET completed == worker[w].pending_completed
        unfinished == {t \in completed : ~state_.tasks[t].finished}
    IN /\ CanHandle
       /\ completed # {}
       /\ completed \subseteq DOMAIN state_.tasks
       /\ \E order \in SetToSeqs(unfinished) :
             Handle([handler |-> "worker_update", worker |-> w, completed |-> completed, todo |->
                       [i \in 1 .. Len(order) |-> [type |-> "finish_task", task_id |-> order[i]]]])
       /\ UNCHANGED <<started_, state_, journalVars, dataset_store_, split_providers_, assigning,
                      worker, given, faultVars>>

StaleRepetition(requested, job_id) == requested < state_.jobs[job_id].repetition

\* GetSplit for the task t of worker w.  The provider moves on before the
\* split is recorded in the journal.
GetSplit(w, t) ==
    LET job_id == state_.tasks[t].job_id
        requested == worker[w].repetition[t]
        stale == StaleRepetition(requested, job_id)
        position == split_providers_[job_id]
        end == position = NumSplits
    IN /\ CanHandle
       /\ t \in worker[w].tasks \ worker[w].ended
       /\ t \in DOMAIN state_.tasks
       /\ state_.jobs[job_id].processing_mode = "DISTRIBUTED_EPOCH"
       /\ split_providers_' = IF stale \/ end THEN split_providers_
                              ELSE [split_providers_ EXCEPT ![job_id] = @ + 1]
       /\ Handle([handler |-> "get_split", worker |-> w, task |-> t, job |-> job_id,
                  repetition |-> requested, split |-> position,
                  end |-> stale \/ end, stale |-> stale, todo |->
                    IF stale THEN <<>>
                    ELSE <<[type |-> "produce_split", job_id |-> job_id, finished |-> end,
                            repetition |-> requested]>>])
       /\ UNCHANGED <<started_, state_, journalVars, dataset_store_, assigning, worker, given, faultVars>>

\* The replay of one more record (ApplyWithoutJournaling) passes its DCHECKs.
Replays(u) == readable /\ Checks(journal, u)

\* Mutant: the in-memory state alone is updated for a release.
Write_NotRelease(u) ==
    /\ readable' = readable
    /\ journal' = IF u.type = "release_job_client" THEN journal ELSE ApplyUpdate(journal, u)

\* WriteRecord: the journal has one more record.
Write(u) ==
    /\ readable' = Replays(u)
    /\ journal' = IF Replays(u) THEN ApplyUpdate(journal, u) ELSE journal

\* Handlers that do nothing more after their updates.
Plain == {"register_dataset", "get_job", "release_job_client"}

\* Apply: the write to the journal, then state_.Apply.
Apply ==
    /\ started_
    /\ op.todo # <<>>
    /\ Write(Head(op.todo))
    /\ acked' = ApplyUpdate(acked, Head(op.todo))
    /\ state_' = ApplyUpdate(state_, Head(op.todo))
    /\ op' = IF op.handler \in Plain THEN Idle ELSE [op EXCEPT !.todo = Tail(@)]
    /\ UNCHANGED <<started_, dataset_store_, split_providers_, assigning, worker, given, faultVars>>

\* The fault comes after some of the handler's updates and before others.
Cut == IF op.todo # <<>> /\ op.handler \in {"create_job", "worker_heartbeat"}
          /\ Head(op.todo).type \in {"acquire_job_client", "create_task"}
       THEN {"partial"} ELSE {}

\* Apply when WriteRecord fails, or Flush or Sync after it: the record is kept
\* or not.  The handler returns the error.
ApplyFails ==
    /\ started_
    /\ op.todo # <<>>
    /\ failures < MaxWriteFailures
    /\ op' = Idle
    /\ worker' = IF op.handler = "worker_heartbeat"
                 THEN [worker EXCEPT ![op.worker].heartbeat = Idle] ELSE worker
    /\ failures' = failures + 1
    /\ \/ UNCHANGED <<journal, readable>> /\ faults' = faults \cup {"write"} \cup Cut
       \/ Write(Head(op.todo)) /\ faults' = faults \cup {"write", "kept"} \cup Cut
    /\ UNCHANGED <<started_, state_, acked, dataset_store_, split_providers_, assigning, given, crashes>>

-----------------------------------------------------------------------------
(* The responses                                                           *)

Respond(handler) == /\ started_
                    /\ op.handler = handler
                    /\ op.todo = <<>>
                    /\ op' = Idle

\* GetOrCreateJob: mu_ is released and the new tasks are assigned.
RespondCreateJob ==
    /\ Respond("create_job")
    /\ LET job_id == state_.next_available_job_id - 1
       IN assigning' = assigning \cup
             (IF state_.tasks_by_job[job_id] = {} THEN {} ELSE {state_.tasks_by_job[job_id]})
    /\ UNCHANGED <<started_, state_, journalVars, dataset_store_, split_providers_, worker, given, faultVars>>

\* PopulateTaskDef: what the worker has to know of its tasks.
Parallel(T) ==
    {t \in T : state_.jobs[state_.tasks[t].job_id].processing_mode = "PARALLEL_EPOCHS"}

\* ProcessTaskInternal for the tasks T: a task that is there is left alone.
StartTasks(wk, T, parallel) ==
    LET fresh == T \ wk.tasks
    IN [wk EXCEPT !.tasks = @ \cup T,
                  !.parallel = @ \cup parallel,
                  !.repetition = [t \in DOMAIN @ \cup fresh |-> IF t \in fresh THEN 0 ELSE @[t]],
                  !.ended = @ \ fresh]

\* FindTasksToDelete and FindNewTasks, against the tasks that the worker had
\* when it sent the heartbeat, and the rest of Heartbeat at the worker: no
\* other step could tell when that receives the reply.
RespondHeartbeat ==
    /\ Respond("worker_heartbeat")
    /\ LET w == op.worker
           current == worker[w].heartbeat.current
           assigned == state_.tasks_by_worker[w]
           new == assigned \ current
           started == StartTasks(worker[w], new, Parallel(new))
       IN worker' = [worker EXCEPT ![w] = [started EXCEPT !.tasks = started.tasks \ (current \ assigned),
                                                          !.heartbeat = Idle]]
    /\ UNCHANGED <<started_, state_, journalVars, dataset_store_, split_providers_, assigning, given, faultVars>>

RespondUpdate ==
    /\ Respond("worker_update")
    /\ worker' = [worker EXCEPT ![op.worker].pending_completed = @ \ op.completed]
    /\ UNCHANGED <<started_, state_, journalVars, dataset_store_, split_providers_, assigning, given, faultVars>>

\* A split is sent.
RespondSplit ==
    /\ Respond("get_split")
    /\ ~op.end
    /\ given' = Append(given, <<op.job, op.repetition, op.split>>)
    /\ UNCHANGED <<started_, state_, journalVars, dataset_store_, split_providers_, assigning, worker, faultVars>>

\* The repetition is over; the provider is reset for the next one, and the
\* iterator of the worker repeats (DataServiceSplitProvider::Reset) or has
\* reached the end of its sequence.
RespondEndOfSplits ==
    /\ Respond("get_split")
    /\ op.end
    /\ split_providers_' = IF op.stale THEN split_providers_
                           ELSE [split_providers_ EXCEPT ![op.job] = 0]
    /\ worker' = IF op.task \notin worker[op.worker].tasks THEN worker
                 ELSE IF op.repetition + 1 < Repetitions
                 THEN [worker EXCEPT ![op.worker].repetition[op.task] = op.repetition + 1]
                 ELSE [worker EXCEPT ![op.worker].ended = @ \cup {op.task}]
    /\ UNCHANGED <<started_, state_, journalVars, dataset_store_, assigning, given, faultVars>>

-----------------------------------------------------------------------------
(* The workers                                                             *)

\* AssignTask: ProcessTask at the worker of the task, outside of mu_.
AssignTask ==
    /\ started_
    /\ \E tasks \in assigning : \E t \in tasks :
          LET w == state_.tasks[t].worker_address
          IN /\ worker' = [worker EXCEPT ![w] = StartTasks(@, {t}, Parallel({t}))]
             /\ assigning' = (assigning \ {tasks}) \cup ({tasks \ {t}} \ {{}})
    /\ UNCHANGED <<started_, state_, journalVars, dataset_store_, split_providers_, op, given, faultVars>>

\* A worker that does not answer ends AssignTasks: the rest are not assigned.
AssignFails ==
    /\ started_
    /\ \E tasks \in assigning : assigning' = assigning \ {tasks}
    /\ UNCHANGED <<started_, state_, journalVars, dataset_store_, split_providers_, op, worker, given, faultVars>>

\* Heartbeat: the tasks it reports are those of this moment.
SendHeartbeat(w) ==
    /\ worker[w].heartbeat = Idle
    /\ worker' = [worker EXCEPT ![w].heartbeat = [current |-> worker[w].tasks]]
    /\ UNCHANGED <<dispatcherVars, given, faultVars>>

\* The iterator of a task reaches its end, which without splits may be at any
\* time, and GetElement tells the completion thread, for each consumer.
ReachEnd(w, t) ==
    /\ t \in worker[w].tasks
    /\ t \in worker[w].ended \cup worker[w].parallel
    /\ worker' = [worker EXCEPT ![w].ended = @ \cup {t}, ![w].pending_completed = @ \cup {t}]
    /\ UNCHANGED <<dispatcherVars, given, faultVars>>

-----------------------------------------------------------------------------
(* Crash, restart and garbage collection                                   *)

\* Everything but the journal and the stored datasets is lost, and the calls
\* that wait for an answer fail.
Crash ==
    /\ started_
    /\ crashes < MaxCrashes
    /\ started_' = FALSE
    /\ state_' = EmptyState
    /\ split_providers_' = <<>>
    /\ op' = Idle
    /\ assigning' = {}
    /\ worker' = [w \in Workers |-> [worker[w] EXCEPT !.heartbeat = Idle]]
    /\ crashes' = crashes + 1
    /\ faults' = faults \cup {"crash"} \cup Cut
    /\ acked' = IF readable THEN journal ELSE acked
    /\ UNCHANGED <<journal, readable, dataset_store_, given, failures>>

\* Mutant: the last split that was produced is produced again.
RestoreSplitProviders_OneBefore(s, j) == IF s.jobs[j].index = 0 THEN 0 ELSE s.jobs[j].index - 1

\* RestoreSplitProviders: GetNext as often as the index says.
RestoreSplitProviders(s, j) == s.jobs[j].index

\* Start: the journal is replayed, then the split providers are restored.  A
\* DCHECK that fails in the replay ends the program.
Start ==
    /\ ~started_
    /\ readable
    /\ started_' = TRUE
    /\ state_' = journal
    /\ split_providers_' =
         [j \in {k \in DOMAIN journal.jobs : journal.jobs[k].processing_mode = "DISTRIBUTED_EPOCH"} |->
            RestoreSplitProviders(journal, j)]
    /\ UNCHANGED <<journalVars, dataset_store_, op, assigning, worker, given, faultVars>>

\* GcOldJobs for one job whose last client left long enough ago.  It calls
\* state_.Apply: the update does not go to the journal.
GcOldJobs(j) ==
    /\ CanHandle
    /\ j \in DOMAIN state_.jobs
    /\ LET job == state_.jobs[j] IN ~job.finished /\ job.num_clients = 0 /\ job.released
    /\ state_' = ApplyUpdate(state_, [type |-> "garbage_collect_job", job_id |-> j])
    /\ faults' = faults \cup {"gc"}
    /\ UNCHANGED <<started_, journalVars, dataset_store_, split_providers_, op, assigning,
                   worker, given, crashes, failures>>

Clients == 1 .. MaxClients
Jobs == 1 .. MaxJobs
Tasks == 1 .. (MaxJobs * Cardinality(Workers))

ClientNext == \/ \E fp \in Fingerprints : GetOrRegisterDataset(fp)
              \/ \E r \in JobRequests : GetJob(r) \/ CreateJobRpc(r)
              \/ \E c \in Clients : ReleaseJobClientRpc(c)

DispatcherNext == \/ Apply \/ RespondCreateJob \/ RespondHeartbeat
                  \/ RespondUpdate \/ RespondSplit \/ RespondEndOfSplits

WorkerNext(w) == \/ SendHeartbeat(w) \/ WorkerHeartbeat(w) \/ WorkerUpdate(w)
                 \/ \E t \in Tasks : GetSplit(w, t) \/ ReachEnd(w, t)

FaultNext == \/ ApplyFails \/ AssignFails \/ Crash
             \/ \E j \in Jobs : GcOldJobs(j)

Next == \/ ClientNext \/ DispatcherNext \/ AssignTask \/ Start \/ FaultNext
        \/ \E w \in Workers : WorkerNext(w)

Spec == Init /\ [][Next]_vars

-----------------------------------------------------------------------------
\* dispatcher_state.h:39 - "replaying the journal will allow us to restore the
\* exact same state".
ExactState == started_ => state_ = journal

\* The DCHECKs of dispatcher_state.cc for the update that is applied next: no id is
\* used twice and no split is recorded for another repetition than the current.
ChecksHold == started_ /\ op.todo # <<>> => Checks(state_, Head(op.todo))

\* What the state s has is in the state r.
Within(s, r) ==
    /\ DOMAIN s.tasks_by_worker \subseteq DOMAIN r.tasks_by_worker
    /\ \A d \in DOMAIN s.datasets_by_id : d \in DOMAIN r.datasets_by_id
    /\ \A j \in DOMAIN s.jobs : /\ j \in DOMAIN r.jobs
                                /\ s.jobs[j].repetition <= r.jobs[j].repetition
    /\ \A t \in DOMAIN s.tasks : /\ t \in DOMAIN r.tasks
                                 /\ r.tasks[t].job_id = s.tasks[t].job_id
                                 /\ r.tasks[t].worker_address = s.tasks[t].worker_address

\* What a crash leaves is all there was (dispatcher_impl.cc:918): a replay of
\* the journal gives state_, but for the garbage collection of a job; updates
\* made after a crash repeat nothing done before it; and the definition of
\* every dataset in the journal is in the store, although the two are written
\* one after the other (dispatcher_impl.cc:453).  After a failed write that
\* left its record, the journal has more than state_, or cannot be replayed.
Recoverable ==
    /\ ChecksHold
    /\ faults \cap {"gc", "kept"} = {} => ExactState
    /\ "kept" \notin faults => readable
    /\ readable /\ started_ => Within(state_, journal)
    /\ \A d \in DOMAIN journal.datasets_by_id : <<d, journal.datasets_by_id[d]>> \in dataset_store_

\* data_service_ops.py:364 - in a distributed epoch no split of a repetition is
\* handed out twice, across restarts, and none is left out when nothing failed.
\* (A write to the journal that fails after GetNext leaves the provider ahead
\* of the index it is restored to: then a later crash repeats a split.)
SplitsOnce ==
    /\ ~({"write", "crash"} \subseteq faults) => IsInjective(given)
    /\ faults = {} => \A j \in DOMAIN state_.jobs :
           \A r \in 0 .. (state_.jobs[j].repetition - 1), i \in 0 .. (NumSplits - 1) :
              <<j, r, i>> \in Range(given)

\* dispatcher_impl.h:62 - "the dispatcher creates a new task for the worker, one
\* task for each outstanding job": whichever came first, every worker has
\* exactly one task of every job that is not finished.  A fault between the
\* updates of one handler is the exception, since a worker or a job that is
\* known after the restart gets no more tasks; so is one that is known because
\* a failed write left its record, and a collected job that the restart brings
\* back.
TasksCover ==
    CanHandle /\ faults \cap {"partial", "gc"} = {} /\ ~({"kept", "crash"} \subseteq faults) =>
        \A j \in DOMAIN state_.jobs, w \in DOMAIN state_.tasks_by_worker :
           ~state_.jobs[j].finished =>
               Cardinality({t \in state_.tasks_by_job[j] : state_.tasks[t].worker_address = w}) = 1

\* worker_impl.cc:433 - a worker drops only finished tasks, although it acts on
\* an answer to what it had when it asked, and although the dispatcher may just
\* have restarted: a task that were dropped and sent again would start over.
\* (What is finished is said by acked: state_ is lost in a crash.)
NoTaskDropped ==
    "gc" \notin faults => \A w \in Workers :
        \A t \in DOMAIN worker[w].repetition \ worker[w].tasks : acked.tasks[t].finished
=============================================================================
