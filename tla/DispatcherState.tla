--------------------------- MODULE DispatcherState ---------------------------
(***************************************************************************)
(* The journaled state of the tf.data service dispatcher and the updates    *)
(* that change it, tensorflow/core/data/service/dispatcher_state.{h,cc}.    *)
(* An update is a record with the field `type'; ApplyUpdate is              *)
(* DispatcherState::Apply.  Maps of the class are functions whose domain is *)
(* the set of their keys.  Two abstractions: a job has at most one split    *)
(* provider, so repetitions and indices are numbers, and of the time of the *)
(* last release only whether there was one is kept.  Round-robin jobs       *)
(* (num_consumers) are not modelled, nor are the three updates that only    *)
(* such jobs use: remove_task, create_pending_task, client_heartbeat.       *)
(***************************************************************************)
EXTENDS Integers, FiniteSetsExt

NoKey == "no key"

\* m[key] = value of the maps of the class.
Put(m, key, value) ==
    [k \in DOMAIN m \cup {key} |-> IF k = key THEN value ELSE m[k]]

Erase(m, key) == [k \in DOMAIN m \ {key} |-> m[k]]

EmptyState ==
    [datasets_by_id |-> <<>>, jobs |-> <<>>, tasks |-> <<>>,
     tasks_by_worker |-> <<>>, tasks_by_job |-> <<>>,
     jobs_for_client_ids |-> <<>>,
     next_available_dataset_id |-> 1, next_available_job_id |-> 1,
     next_available_job_client_id |-> 1, next_available_task_id |-> 1]

\* Every id that is handed out is larger than all the ids before it.
Beyond(next, id) == Max({next, id + 1})

RegisterDataset(s, u) ==
    [s EXCEPT !.datasets_by_id = Put(@, u.dataset_id, u.fingerprint),
              !.next_available_dataset_id = Beyond(@, u.dataset_id)]

RegisterWorker(s, u) ==
    [s EXCEPT !.tasks_by_worker = Put(@, u.worker_address, {})]

CreateJob(s, u) ==
    LET job == [dataset_id |-> u.dataset_id, processing_mode |-> u.processing_mode,
                named_job_key |-> u.named_job_key, repetition |-> 0, index |-> 0,
                num_clients |-> 0, released |-> FALSE,
                finished |-> FALSE, garbage_collected |-> FALSE]
    IN [s EXCEPT !.jobs = Put(@, u.job_id, job),
                 !.tasks_by_job = Put(@, u.job_id, {}),
                 !.next_available_job_id = Beyond(@, u.job_id)]

ProduceSplit(s, u) ==
    LET job == s.jobs[u.job_id]
    IN [s EXCEPT !.jobs[u.job_id] =
           IF u.finished THEN [job EXCEPT !.repetition = @ + 1, !.index = 0]
           ELSE [job EXCEPT !.index = @ + 1]]

AcquireJobClient(s, u) ==
    [s EXCEPT !.jobs_for_client_ids = Put(@, u.job_client_id, u.job_id),
              !.jobs[u.job_id].num_clients = @ + 1,
              !.next_available_job_client_id = Beyond(@, u.job_client_id)]

ReleaseJobClient(s, u) ==
    LET job_id == s.jobs_for_client_ids[u.job_client_id]
        job == s.jobs[job_id]
    IN [s EXCEPT !.jobs[job_id] = [job EXCEPT !.num_clients = @ - 1, !.released = TRUE],
                 !.jobs_for_client_ids = Erase(@, u.job_client_id)]

GarbageCollectJob(s, u) ==
    LET mine == s.tasks_by_job[u.job_id]
        job == s.jobs[u.job_id]
    IN [s EXCEPT !.tasks = [t \in DOMAIN @ |->
                              IF t \in mine THEN [@[t] EXCEPT !.finished = TRUE] ELSE @[t]],
                 !.tasks_by_worker = [w \in DOMAIN @ |-> @[w] \ mine],
                 !.jobs[u.job_id] = [job EXCEPT !.finished = TRUE, !.garbage_collected = TRUE]]

CreateTask(s, u) ==
    LET task == [job_id |-> u.job_id, worker_address |-> u.worker_address,
                 finished |-> FALSE]
    IN [s EXCEPT !.tasks = Put(@, u.task_id, task),
                 !.tasks_by_job[u.job_id] = @ \cup {u.task_id},
                 !.tasks_by_worker[u.worker_address] = @ \cup {u.task_id},
                 !.next_available_task_id = Beyond(@, u.task_id)]

\* The job is finished when the last of its tasks is.
FinishTask(s, u) ==
    LET task == s.tasks[u.task_id]
    IN [s EXCEPT !.tasks[u.task_id].finished = TRUE,
                 !.tasks_by_worker[task.worker_address] = @ \ {u.task_id},
                 !.jobs[task.job_id].finished =
                     \A t \in s.tasks_by_job[task.job_id] \ {u.task_id} : s.tasks[t].finished]

ApplyUpdate(s, u) ==
    CASE u.type = "register_dataset"    -> RegisterDataset(s, u)
      [] u.type = "register_worker"     -> RegisterWorker(s, u)
      [] u.type = "create_job"          -> CreateJob(s, u)
      [] u.type = "produce_split"       -> ProduceSplit(s, u)
      [] u.type = "acquire_job_client"  -> AcquireJobClient(s, u)
      [] u.type = "release_job_client"  -> ReleaseJobClient(s, u)
      [] u.type = "garbage_collect_job" -> GarbageCollectJob(s, u)
      [] u.type = "create_task"         -> CreateTask(s, u)
      [] u.type = "finish_task"         -> FinishTask(s, u)

\* The DCHECKs at the head of the update functions.
Checks(s, u) ==
    CASE u.type = "register_dataset" ->
             /\ u.dataset_id \notin DOMAIN s.datasets_by_id
             /\ \A d \in DOMAIN s.datasets_by_id : s.datasets_by_id[d] # u.fingerprint
      [] u.type = "register_worker" -> u.worker_address \notin DOMAIN s.tasks_by_worker
      [] u.type = "create_job" ->
             /\ u.job_id \notin DOMAIN s.jobs
             /\ u.named_job_key # NoKey =>
                  \A j \in DOMAIN s.jobs : s.jobs[j].named_job_key # u.named_job_key
      [] u.type = "produce_split" -> /\ s.jobs[u.job_id].processing_mode = "DISTRIBUTED_EPOCH"
                                     /\ u.repetition = s.jobs[u.job_id].repetition
      [] u.type = "acquire_job_client" -> /\ u.job_client_id \notin DOMAIN s.jobs_for_client_ids
                                          /\ u.job_id \in DOMAIN s.jobs
      [] u.type = "release_job_client" ->
             /\ u.job_client_id \in DOMAIN s.jobs_for_client_ids
             /\ s.jobs[s.jobs_for_client_ids[u.job_client_id]].num_clients > 0
      [] u.type = "create_task" -> u.task_id \notin DOMAIN s.tasks /\ u.job_id \in DOMAIN s.jobs
      [] u.type = "finish_task" -> u.task_id \in DOMAIN s.tasks
      [] OTHER -> TRUE
=============================================================================
